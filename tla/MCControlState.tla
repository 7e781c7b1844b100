--------------------------- MODULE MCControlState ---------------------------
(***************************************************************************)
(* ControlState with one channel that has one model, one caller at a time, *)
(* a circuit that the first failure opens, and three configurations: the   *)
(* channel staged, staged with another key under the same digest, and in   *)
(* production.  No answer is a plain client error, so no candidate is      *)
(* found misconfigured: it would be kept as evidence is.                   *)
(***************************************************************************)
EXTENDS ControlState

CONSTANTS c1, a1

ModelChannelOf == [k \in Candidates |-> c1]
ModelPools == {[k \in Candidates |-> 0]}

Config(live, secret, digest) ==
  [channels |-> {c1}, keys |-> {a1}, live |-> live, staged |-> {a1} \ live,
   secret |-> [c \in Channels |-> secret], digest |-> digest]
ModelConfigs ==
  {Config({}, "s1", "d1"), Config({}, "s2", "d1"), Config({a1}, "s2", "d2")}
=============================================================================
