------------------------------ MODULE Circuit ------------------------------
(***************************************************************************)
(* The transient-failure circuit of one candidate: the part of             *)
(* src/candidate-evidence.mjs that decides whether a candidate may be      *)
(* tried.  Instants are kept as distances from the clock: `cooldown' is    *)
(* what is left until cooldownUntil, and `stale' says that lastOutcomeAt   *)
(* is more than EVIDENCE_TTL_MS ago.                                       *)
(***************************************************************************)
EXTENDS Integers

CONSTANTS
  Threshold,     (* TRANSIENT_FAILURE_THRESHOLD                            *)
  BaseCooldown,  (* BASE_COOLDOWN_MS, in ticks                             *)
  MaxCooldown,   (* MAX_COOLDOWN_MS, in ticks                              *)
  MaxOpens,      (* where openCount stops counting                         *)
  FailureCap     (* bound: where the model stops counting failures         *)

ASSUME CircuitAssumption ==
  /\ Threshold \in Nat \ {0}
  /\ BaseCooldown \in Nat \ {0}
  /\ MaxCooldown \in Nat
  /\ BaseCooldown <= MaxCooldown
  /\ MaxOpens \in Nat \ {0}
  /\ FailureCap \in Nat
  /\ Threshold <= FailureCap

Circuits ==
  [failures : 0 .. FailureCap,      \* consecutiveTransientFailures
   open     : BOOLEAN,
   cooldown : 0 .. MaxCooldown,
   opens    : 0 .. MaxOpens,        \* openCount, the exponent of the backoff
   stale    : BOOLEAN]

FreshCircuit ==
  [failures |-> 0, open |-> FALSE, cooldown |-> 0, opens |-> 0, stale |-> FALSE]

CircuitStatus(e) ==
  IF e.stale \/ ~e.open THEN "closed"
  ELSE IF e.cooldown > 0 THEN "open" ELSE "half-open"

(* Math.min(MAX_COOLDOWN_MS, BASE_COOLDOWN_MS * 2 ** exponent)             *)
CooldownOf(opens) ==
  LET exponent == IF opens > 21 THEN 20 ELSE opens - 1
      doubled  == BaseCooldown * 2 ^ exponent
  IN  IF doubled \in 0 .. MaxCooldown THEN doubled ELSE MaxCooldown

CountUpTo(cap, n) == IF n < cap THEN n + 1 ELSE cap

(* A failure that is not transient ends the run of transient ones; an open *)
(* circuit keeps its expired cooldown.                                     *)
PlainFailure(e) == [e EXCEPT !.failures = 0, !.stale = FALSE]

TransientFailure(e) ==
  LET failures == CountUpTo(FailureCap, e.failures)
      opens    == CountUpTo(MaxOpens, e.opens)
      counted  == [e EXCEPT !.failures = failures, !.stale = FALSE]
  IN  IF e.open \/ failures >= Threshold
      THEN [counted EXCEPT !.open = TRUE, !.opens = opens, !.cooldown = CooldownOf(opens)]
      ELSE counted

(* One terminal observation; expired evidence is reused, not discarded.    *)
ObserveCircuit(e, success, transient) ==
  IF success THEN FreshCircuit
  ELSE IF transient THEN TransientFailure(e) ELSE PlainFailure(e)

TickCircuit(e) == [e EXCEPT !.cooldown = IF @ > 0 THEN @ - 1 ELSE 0]
=============================================================================
