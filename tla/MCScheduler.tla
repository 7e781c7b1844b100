---------------------------- MODULE MCScheduler ----------------------------
(***************************************************************************)
(* Small instances of Scheduler for TLC.                                   *)
(***************************************************************************)
EXTENDS Scheduler, TLC

CONSTANTS c1, c2,      \* channels
          a1, b1, a2,  \* candidates: the letter is the model, the number the channel
          r1, r2

MCChannelOf == [k \in Candidates |-> IF k = a2 THEN c2 ELSE c1]

(* Two channels serve one model; the first has the higher priority.        *)
TwoChannelPools == {(a1 :> 10) @@ (a2 :> 5)}
(* One channel serves two models.                                          *)
TwoModelPools == {(a1 :> 0), (b1 :> 0)}

Config(channels, live, staged, secret, digest) ==
  [channels |-> channels, keys |-> live \cup staged, live |-> live, staged |-> staged,
   secret |-> [c \in Channels |-> secret], digest |-> digest]

(* Both channels serve for good.                                           *)
ServingConfigs == {Config({c1, c2}, {a1, a2}, {}, "s1", "d1")}

(* Staging a channel leaves the generated release as it is; removing a     *)
(* model or replacing a key does not.                                      *)
ModelConfigs ==
  {Config({c1}, {a1, b1}, {}, "s1", "d1"), Config({c1}, {}, {a1, b1}, "s1", "d1"),
   Config({c1}, {a1}, {}, "s2", "d2")}

RequestSymmetry == Permutations({r1, r2})
=============================================================================
