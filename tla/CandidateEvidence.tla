------------------------- MODULE CandidateEvidence -------------------------
(***************************************************************************)
(* What the gateway remembers of the candidates' outcomes:                 *)
(* src/candidate-evidence.mjs with the restore of src/control-state.mjs.   *)
(* Scheduler uses the abstraction Circuit of it; the order that            *)
(* compareEvidence derives from it is left out.                            *)
(* Instants are distances from the clock, as in Circuit.                   *)
(***************************************************************************)
EXTENDS Circuit

CONSTANTS
  Candidates,
  Latencies,      (* durations a completed exchange can report             *)
  MaxLatency,     (* longest duration that is recorded                     *)
  MaxSamples,     (* MAX_EVIDENCE_SAMPLES                                  *)
  TTL,            (* EVIDENCE_TTL_MS, in ticks                             *)
  None            (* no latency                                            *)

ASSUME EvidenceAssumption ==
  /\ Latencies \subseteq 0 .. MaxLatency /\ MaxLatency \in Nat
  /\ MaxSamples \in Nat \ {0}
  /\ TTL \in Nat /\ MaxCooldown <= TTL
  /\ None \notin Nat

(* Circuit counts no further than it takes to open and to reach the        *)
(* longest cooldown.                                                       *)
ASSUME AbstractionAssumption ==
  /\ FailureCap <= MaxSamples /\ MaxOpens <= MaxSamples
  /\ CooldownOf(MaxOpens) = MaxCooldown

VARIABLE evidence

Evidences ==
  [samples : 0 .. MaxSamples, successes : 0 .. MaxSamples, failures : 0 .. MaxSamples,
   streak : 0 .. MaxSamples + 1,           \* consecutiveTransientFailures
   ewma : 0 .. MaxLatency \cup {None},     \* ewmaLatencyMs
   age : 0 .. TTL + 1,                     \* since lastOutcomeAt
   open : BOOLEAN, cooldown : 0 .. MaxCooldown, opens : 0 .. MaxSamples]

Empty ==
  [samples |-> 0, successes |-> 0, failures |-> 0, streak |-> 0, ewma |-> None,
   age |-> 0, open |-> FALSE, cooldown |-> 0, opens |-> 0]

-----------------------------------------------------------------------------
(* normalizeEvidence: what does not fit the schema is dropped as a whole.  *)
Acceptable(e) ==
  /\ e.samples \in 0 .. MaxSamples
  /\ e.successes \in Nat /\ e.failures \in Nat /\ e.successes + e.failures <= e.samples
  /\ e.streak \in 0 .. MaxSamples /\ e.opens \in 0 .. MaxSamples
  /\ e.ewma \in 0 .. MaxLatency \cup {None}
  /\ ~e.open => e.cooldown = 0

Normalized(e) == IF Acceptable(e) /\ e.age <= TTL THEN e ELSE Empty

(* Mutant: the counts are halved one sample too late.                      *)
RescaledLate(e) ==
  IF e.samples <= MaxSamples THEN e
  ELSE [e EXCEPT !.successes = @ \div 2, !.failures = @ \div 2,
                 !.samples = e.successes \div 2 + e.failures \div 2]

(* At the limit both counts are halved, rounding down.                     *)
Rescaled(e) ==
  IF e.samples < MaxSamples THEN e
  ELSE [e EXCEPT !.successes = @ \div 2, !.failures = @ \div 2,
                 !.samples = e.successes \div 2 + e.failures \div 2]

(* Mutant: the sample count is not recomputed from the halved counts.      *)
CountedHalfSamples(e, success) ==
  LET r == IF e.samples < MaxSamples THEN e
           ELSE [e EXCEPT !.successes = @ \div 2, !.failures = @ \div 2, !.samples = @ \div 2]
  IN  [r EXCEPT !.samples = @ + 1,
                !.successes = IF success THEN @ + 1 ELSE @,
                !.failures = IF success THEN @ ELSE @ + 1,
                !.age = 0]

Counted(e, success) ==
  LET r == Rescaled(e)
  IN  [r EXCEPT !.samples = @ + 1,
                !.successes = IF success THEN @ + 1 ELSE @,
                !.failures = IF success THEN @ ELSE @ + 1,
                !.age = 0]

(* Math.round(0.25 * latency + 0.75 * ewma)                                *)
Smoothed(ewma, latency) ==
  IF latency = None THEN ewma
  ELSE IF ewma = None THEN latency ELSE (latency + 3 * ewma + 2) \div 4

(* Mutant: a success leaves the cooldown of the circuit it closes.         *)
ClosedWithCooldown(e) == [e EXCEPT !.streak = 0, !.open = FALSE, !.opens = 0]

Closed(e) == [e EXCEPT !.streak = 0, !.open = FALSE, !.cooldown = 0, !.opens = 0]

(* Mutant: an open circuit waits for a whole new run of failures.          *)
FailedOnStreakOnly(e) ==
  LET streak == e.streak + 1
      opens  == CountUpTo(MaxSamples, e.opens)
  IN  IF streak >= Threshold
      THEN [e EXCEPT !.streak = streak, !.open = TRUE, !.opens = opens,
                     !.cooldown = CooldownOf(opens)]
      ELSE [e EXCEPT !.streak = streak]

FailedTransiently(e) ==
  LET streak == e.streak + 1
      opens  == CountUpTo(MaxSamples, e.opens)
  IN  IF e.open \/ streak >= Threshold
      THEN [e EXCEPT !.streak = streak, !.open = TRUE, !.opens = opens,
                     !.cooldown = CooldownOf(opens)]
      ELSE [e EXCEPT !.streak = streak]

(* observeEvidence: the age of the previous evidence does not matter.      *)
Observed(previous, success, transient, latency) ==
  LET current == IF Acceptable(previous) THEN previous ELSE Empty
      counted == [Counted(current, success) EXCEPT !.ewma = Smoothed(@, latency)]
  IN  IF success THEN Closed(counted)
      ELSE IF transient THEN FailedTransiently(counted) ELSE [counted EXCEPT !.streak = 0]

-----------------------------------------------------------------------------
Observe(k) ==
  \E success, transient \in BOOLEAN, latency \in Latencies \cup {None} :
    /\ ~(success /\ transient)
    /\ evidence' = [evidence EXCEPT ![k] = Observed(@, success, transient, latency)]

(* The process restarts, or reloads the same release: control-state.json   *)
(* is read back.                                                           *)
Restore == evidence' = [k \in Candidates |-> Normalized(evidence[k])]

Aged(e) ==
  IF e = Empty THEN e
  ELSE [e EXCEPT !.age = IF @ <= TTL THEN @ + 1 ELSE @,
                 !.cooldown = IF @ > 0 THEN @ - 1 ELSE 0]

Tick == evidence' = [k \in Candidates |-> Aged(evidence[k])]

Init == evidence = [k \in Candidates |-> Empty]
Next == (\E k \in Candidates : Observe(k)) \/ Restore \/ Tick
Spec == Init /\ [][Next]_evidence

-----------------------------------------------------------------------------
(* Properties.                                                             *)

(* Types of the whole state: every count stays within its bound.           *)
TypeOK == evidence \in [Candidates -> Evidences]

(* Halving loses no outcome it does not lose on both sides: the sample     *)
(* count is always the number of outcomes counted.                         *)
CountsAgree ==
  \A k \in Candidates : evidence[k].samples = evidence[k].successes + evidence[k].failures

(* What the reducer produces, the reader of control-state.json accepts, as *)
(* long as the run of failures is within the limit of the schema.          *)
RestoredUnchanged ==
  \A k \in Candidates :
    evidence[k].streak <= MaxSamples /\ evidence[k].age <= TTL =>
      Normalized(evidence[k]) = evidence[k]

(* The circuit that the scheduler's model uses.                            *)
CircuitOf(e) ==
  [failures |-> IF e.streak < FailureCap THEN e.streak ELSE FailureCap,
   open |-> e.open, cooldown |-> e.cooldown,
   opens |-> IF e.opens < MaxOpens THEN e.opens ELSE MaxOpens,
   stale |-> e.age > TTL]

CircuitStep(c, d) ==
  \/ \E success, transient \in BOOLEAN : d = ObserveCircuit(c, success, transient)
  \/ \E stale \in {c.stale, TRUE} : d = [TickCircuit(c) EXCEPT !.stale = stale]
  \/ c.stale /\ d = FreshCircuit
  \/ d = c

(* Evidence implements the circuit Scheduler is modelled with: every step  *)
(* of it is an outcome, a tick, an expiry or the drop of expired evidence. *)
ImplementsCircuit ==
  [][\A k \in Candidates : evidence[k].streak <= MaxSamples =>
       CircuitStep(CircuitOf(evidence[k]), CircuitOf(evidence'[k]))]_evidence
=============================================================================
