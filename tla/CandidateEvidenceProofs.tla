---------------------- MODULE CandidateEvidenceProofs ----------------------
(***************************************************************************)
(* CandidateEvidence for every limit and every latency: its counts, what a *)
(* restart restores, its backoff, and the circuit it implements.           *)
(***************************************************************************)
EXTENDS CandidateEvidence, FiniteSetTheorems, TLAPS

(* Well-formed evidence whose outcomes add up.                             *)
Sound(e) == e \in Evidences /\ e.samples = e.successes + e.failures

EvidenceInv ==
  /\ evidence = [k \in Candidates |-> evidence[k]]
  /\ \A k \in Candidates : Sound(evidence[k])

LEMMA EmptySound == Sound(Empty)
BY CircuitAssumption, EvidenceAssumption
DEF Sound, Empty, Evidences, CircuitAssumption, EvidenceAssumption

LEMMA CooldownBounded == \A opens : CooldownOf(opens) \in 0 .. MaxCooldown
BY CircuitAssumption DEF CooldownOf, CircuitAssumption

(* Math.round of the weighted mean lies between the two latencies.         *)
LEMMA SmoothedBounded ==
  ASSUME NEW ewma \in 0 .. MaxLatency \cup {None}, NEW latency \in Latencies \cup {None}
  PROVE  Smoothed(ewma, latency) \in 0 .. MaxLatency \cup {None}
<1>1. latency \in 0 .. MaxLatency \cup {None}
  BY EvidenceAssumption DEF EvidenceAssumption
<1>2. ASSUME NEW a \in 0 .. MaxLatency, NEW b \in 0 .. MaxLatency
      PROVE  (b + 3 * a + 2) \div 4 \in 0 .. MaxLatency
  <2>1. MaxLatency \in Nat
    BY EvidenceAssumption DEF EvidenceAssumption
  <2>2. b + 3 * a + 2 \in 0 .. 4 * MaxLatency + 2
    BY <2>1
  <2>3. \A m \in Nat : \A n \in 0 .. 4 * m + 2 : n \div 4 \in 0 .. m
    OBVIOUS
  <2>. QED BY <2>1, <2>2, <2>3
<1>. QED BY <1>1, <1>2 DEF Smoothed

(* One more outcome is counted, after halving at the limit.                *)
LEMMA CountedSound ==
  ASSUME NEW e, Sound(e), NEW success \in BOOLEAN
  PROVE  Sound(Counted(e, success)) /\ Counted(e, success).streak = e.streak
<1>. DEFINE r == Rescaled(e)
<1>1. /\ MaxSamples \in Nat \ {0}
      /\ e \in Evidences
      /\ e.samples = e.successes + e.failures
  BY EvidenceAssumption DEF EvidenceAssumption, Sound
<1>2. /\ r \in Evidences
      /\ r.samples = r.successes + r.failures
      /\ r.samples < MaxSamples
      /\ r.streak = e.streak
  <2>1. CASE e.samples < MaxSamples
    BY <1>1, <2>1 DEF Rescaled
  <2>2. CASE ~(e.samples < MaxSamples)
    <3>1. e.samples = MaxSamples
      BY <1>1, <2>2 DEF Evidences
    <3>2. \A s, f \in Nat : s + f \in Nat \ {0} => s \div 2 + f \div 2 < s + f
      OBVIOUS
    <3>3. /\ e.successes \div 2 \in 0 .. MaxSamples
          /\ e.failures \div 2 \in 0 .. MaxSamples
          /\ e.successes \div 2 + e.failures \div 2 \in 0 .. MaxSamples
          /\ e.successes \div 2 + e.failures \div 2 < MaxSamples
      BY <1>1, <3>1, <3>2 DEF Evidences
    <3>4. r = [e EXCEPT !.successes = e.successes \div 2, !.failures = e.failures \div 2,
                        !.samples = e.successes \div 2 + e.failures \div 2]
      BY <2>2 DEF Rescaled
    <3>. HIDE DEF r
    <3>. QED BY <1>1, <3>3, <3>4 DEF Evidences
  <2>. QED BY <2>1, <2>2
<1>3. Counted(e, success) =
        [r EXCEPT !.samples = r.samples + 1,
                  !.successes = IF success THEN r.successes + 1 ELSE r.successes,
                  !.failures = IF success THEN r.failures ELSE r.failures + 1,
                  !.age = 0]
  BY <1>2 DEF Counted, Evidences
<1>4. TTL \in Nat
  BY EvidenceAssumption DEF EvidenceAssumption
<1>. HIDE DEF r
<1>5. /\ r.samples + 1 \in 0 .. MaxSamples
      /\ 0 \in 0 .. TTL + 1
      /\ r.successes + 1 \in 0 .. MaxSamples
      /\ r.failures + 1 \in 0 .. MaxSamples
  BY <1>1, <1>2, <1>4 DEF Evidences
<1>6. CASE success
  <2>1. Counted(e, success) =
          [r EXCEPT !.samples = r.samples + 1, !.successes = r.successes + 1,
                    !.failures = r.failures, !.age = 0]
    BY <1>3, <1>6
  <2>2. Counted(e, success) \in Evidences
    BY <1>2, <1>5, <2>1 DEF Evidences
  <2>3. Counted(e, success).samples = Counted(e, success).successes + Counted(e, success).failures
    BY <1>2, <2>1 DEF Evidences
  <2>. QED BY <1>2, <2>1, <2>2, <2>3 DEF Sound, Evidences
<1>7. CASE ~success
  <2>1. Counted(e, success) =
          [r EXCEPT !.samples = r.samples + 1, !.successes = r.successes,
                    !.failures = r.failures + 1, !.age = 0]
    BY <1>3, <1>7
  <2>2. Counted(e, success) \in Evidences
    BY <1>2, <1>5, <2>1 DEF Evidences
  <2>3. Counted(e, success).samples = Counted(e, success).successes + Counted(e, success).failures
    BY <1>2, <2>1 DEF Evidences
  <2>. QED BY <1>2, <2>1, <2>2, <2>3 DEF Sound, Evidences
<1>. QED BY <1>6, <1>7

(* The reader of control-state.json accepts what the reducer produced.     *)
LEMMA SoundAcceptable ==
  ASSUME NEW e, Sound(e), e.streak <= MaxSamples, ~e.open => e.cooldown = 0
  PROVE  Acceptable(e)
BY EvidenceAssumption DEF Sound, Evidences, Acceptable, EvidenceAssumption

LEMMA ObservedSound ==
  ASSUME NEW e, Sound(e), NEW success \in BOOLEAN, NEW transient \in BOOLEAN,
         NEW latency \in Latencies \cup {None}
  PROVE  Sound(Observed(e, success, transient, latency))
<1>. DEFINE current == IF Acceptable(e) THEN e ELSE Empty
            counted == [Counted(current, success) EXCEPT
                          !.ewma = Smoothed(Counted(current, success).ewma, latency)]
<1>1. Sound(current) /\ current.streak <= MaxSamples
  BY EmptySound, EvidenceAssumption DEF Acceptable, Empty, EvidenceAssumption
<1>2. Sound(Counted(current, success)) /\ Counted(current, success).streak <= MaxSamples
  BY <1>1, CountedSound
<1>3. Sound(counted) /\ counted.streak \in 0 .. MaxSamples
  <2>. HIDE DEF current
  <2>1. Counted(current, success).ewma \in 0 .. MaxLatency \cup {None}
    BY <1>2 DEF Sound, Evidences
  <2>2. Smoothed(Counted(current, success).ewma, latency) \in 0 .. MaxLatency \cup {None}
    BY <2>1, SmoothedBounded
  <2>. QED BY <1>2, <2>2, EvidenceAssumption DEF Sound, Evidences, EvidenceAssumption
<1>. HIDE DEF counted
<1>4. Sound(Closed(counted))
  <2>1. 0 \in 0 .. MaxCooldown /\ 0 \in 0 .. MaxSamples /\ 0 \in 0 .. MaxSamples + 1
    BY CircuitAssumption, EvidenceAssumption DEF CircuitAssumption, EvidenceAssumption
  <2>2. Closed(counted) \in Evidences
    BY <1>3, <2>1 DEF Closed, Sound, Evidences
  <2>3. Closed(counted).samples = Closed(counted).successes + Closed(counted).failures
    BY <1>3 DEF Closed, Sound, Evidences
  <2>. QED BY <2>2, <2>3 DEF Sound
<1>5. Sound(FailedTransiently(counted))
  <2>1. CountUpTo(MaxSamples, counted.opens) \in 0 .. MaxSamples
    BY <1>3, EvidenceAssumption DEF CountUpTo, Sound, Evidences, EvidenceAssumption
  <2>2. CooldownOf(CountUpTo(MaxSamples, counted.opens)) \in 0 .. MaxCooldown
    BY CooldownBounded
  <2>3. counted.streak + 1 \in 0 .. MaxSamples + 1
    BY <1>3, EvidenceAssumption DEF EvidenceAssumption
  <2>. QED BY <1>3, <2>1, <2>2, <2>3 DEF FailedTransiently, Sound, Evidences
<1>6. Sound([counted EXCEPT !.streak = 0])
  BY <1>3, EvidenceAssumption DEF Sound, Evidences, EvidenceAssumption
<1>. QED BY <1>4, <1>5, <1>6 DEF Observed, counted

LEMMA AgedSound ==
  ASSUME NEW e, Sound(e)
  PROVE  Sound(Aged(e))
<1>. DEFINE age == IF e.age <= TTL THEN e.age + 1 ELSE e.age
            cooldown == IF e.cooldown > 0 THEN e.cooldown - 1 ELSE 0
<1>1. CASE e = Empty
  BY <1>1 DEF Aged
<1>2. CASE e # Empty
  <2>1. age \in 0 .. TTL + 1 /\ cooldown \in 0 .. MaxCooldown
    BY EvidenceAssumption, CircuitAssumption
    DEF Sound, Evidences, EvidenceAssumption, CircuitAssumption
  <2>2. Aged(e) = [e EXCEPT !.age = age, !.cooldown = cooldown]
    BY <1>2 DEF Aged, Sound, Evidences
  <2>. HIDE DEF age, cooldown
  <2>3. Aged(e) \in Evidences
    BY <2>1, <2>2 DEF Sound, Evidences
  <2>4. Aged(e).samples = Aged(e).successes + Aged(e).failures
    BY <2>2 DEF Sound, Evidences
  <2>. QED BY <2>3, <2>4 DEF Sound
<1>. QED BY <1>1, <1>2

LEMMA InvInit == Init => EvidenceInv
BY EmptySound DEF Init, EvidenceInv

LEMMA InvStep == EvidenceInv /\ [Next]_evidence => EvidenceInv'
<1>. SUFFICES ASSUME EvidenceInv, [Next]_evidence PROVE EvidenceInv'
  OBVIOUS
<1>1. ASSUME NEW k \in Candidates, Observe(k) PROVE EvidenceInv'
  <2>1. PICK success \in BOOLEAN, transient \in BOOLEAN, latency \in Latencies \cup {None} :
          evidence' = [evidence EXCEPT ![k] = Observed(evidence[k], success, transient, latency)]
    BY <1>1 DEF Observe
  <2>2. Sound(Observed(evidence[k], success, transient, latency))
    BY ObservedSound DEF EvidenceInv
  <2>. QED BY <2>1, <2>2 DEF EvidenceInv
<1>2. CASE Restore
  <2>1. \A k \in Candidates : Sound(Normalized(evidence[k]))
    BY EmptySound DEF Normalized, EvidenceInv
  <2>. QED BY <1>2, <2>1 DEF Restore, EvidenceInv
<1>3. CASE Tick
  <2>1. \A k \in Candidates : Sound(Aged(evidence[k]))
    BY AgedSound DEF EvidenceInv
  <2>. QED BY <1>3, <2>1 DEF Tick, EvidenceInv
<1>4. CASE UNCHANGED evidence
  BY <1>4 DEF EvidenceInv
<1>. QED BY <1>1, <1>2, <1>3, <1>4 DEF Next

LEMMA InvHolds == Spec => []EvidenceInv
BY InvInit, InvStep, PTL DEF Spec

(* Every count of observeEvidence stays within its bound, whatever         *)
(* outcomes arrive and however often the limit is reached.                 *)
THEOREM EvidenceBounded == Spec => []TypeOK
<1>1. EvidenceInv => TypeOK
  BY DEF EvidenceInv, Sound, TypeOK
<1>. QED BY <1>1, InvHolds, PTL

(* The sample count is the number of outcomes counted, across halvings.    *)
THEOREM OutcomesAddUp == Spec => []CountsAgree
<1>1. EvidenceInv => CountsAgree
  BY DEF EvidenceInv, Sound, CountsAgree
<1>. QED BY <1>1, InvHolds, PTL

-----------------------------------------------------------------------------
(* A closed circuit has no cooldown, so the reader refuses no evidence for *)
(* what the reducer left in it.                                            *)
ClosedIsCool == \A k \in Candidates : ~evidence[k].open => evidence[k].cooldown = 0

LEMMA ObservedCool ==
  ASSUME NEW e, Sound(e), NEW success \in BOOLEAN, NEW transient \in BOOLEAN,
         NEW latency \in Latencies \cup {None},
         ~Observed(e, success, transient, latency).open
  PROVE  Observed(e, success, transient, latency).cooldown = 0
<1>. DEFINE current == IF Acceptable(e) THEN e ELSE Empty
            counted == [Counted(current, success) EXCEPT
                          !.ewma = Smoothed(Counted(current, success).ewma, latency)]
<1>1. Sound(current) /\ (~current.open => current.cooldown = 0)
  BY EmptySound DEF Acceptable, Empty
<1>2. Sound(Counted(current, success))
  BY <1>1, CountedSound
<1>3. /\ Counted(current, success).open = current.open
      /\ Counted(current, success).cooldown = current.cooldown
  <2>. HIDE DEF current
  <2>. QED BY <1>1 DEF Counted, Rescaled, Sound, Evidences
<1>4. /\ counted.open = current.open /\ counted.cooldown = current.cooldown
      /\ DOMAIN counted = {"samples", "successes", "failures", "streak", "ewma", "age",
                           "open", "cooldown", "opens"}
  <2>. HIDE DEF current
  <2>. QED BY <1>2, <1>3 DEF Sound, Evidences
<1>5. Observed(e, success, transient, latency) =
        IF success THEN Closed(counted)
        ELSE IF transient THEN FailedTransiently(counted) ELSE [counted EXCEPT !.streak = 0]
  BY DEF Observed
<1>. HIDE DEF counted
<1>6. CASE success
  BY <1>4, <1>5, <1>6 DEF Closed
<1>7. CASE ~success
  BY <1>1, <1>4, <1>5, <1>7 DEF FailedTransiently
<1>. QED BY <1>6, <1>7

LEMMA CoolStep == EvidenceInv /\ ClosedIsCool /\ [Next]_evidence => ClosedIsCool'
<1>. SUFFICES ASSUME EvidenceInv, ClosedIsCool, [Next]_evidence PROVE ClosedIsCool'
  OBVIOUS
<1>1. ASSUME NEW k \in Candidates, Observe(k) PROVE ClosedIsCool'
  <2>1. PICK success \in BOOLEAN, transient \in BOOLEAN, latency \in Latencies \cup {None} :
          evidence' = [evidence EXCEPT ![k] = Observed(evidence[k], success, transient, latency)]
    BY <1>1 DEF Observe
  <2>. QED BY <2>1, ObservedCool DEF EvidenceInv, ClosedIsCool
<1>2. CASE Restore
  BY <1>2 DEF Restore, Normalized, Empty, ClosedIsCool
<1>3. CASE Tick
  <2>1. \A k \in Candidates : Aged(evidence[k]).open = evidence[k].open
                             /\ (evidence[k].cooldown = 0 => Aged(evidence[k]).cooldown = 0)
    BY DEF Aged, EvidenceInv, Sound, Evidences
  <2>. QED BY <1>3, <2>1 DEF Tick, ClosedIsCool
<1>4. CASE UNCHANGED evidence
  BY <1>4 DEF ClosedIsCool
<1>. QED BY <1>1, <1>2, <1>3, <1>4 DEF Next

(* A restart restores exactly what was remembered: the reader of           *)
(* control-state.json refuses nothing that observeEvidence produced.       *)
THEOREM RestartKeepsEvidence == Spec => []RestoredUnchanged
<1>1. Init => ClosedIsCool
  BY DEF Init, ClosedIsCool, Empty
<1>2. EvidenceInv /\ ClosedIsCool => RestoredUnchanged
  BY SoundAcceptable DEF EvidenceInv, ClosedIsCool, RestoredUnchanged, Normalized
<1>. QED BY <1>1, <1>2, CoolStep, InvHolds, PTL DEF Spec

-----------------------------------------------------------------------------
(* The backoff.                                                            *)

(* 2 ^ n counts the subsets of 1 .. n, so it grows with n.                 *)
LEMMA PowersOfTwo ==
  ASSUME NEW m \in Nat, NEW n \in Nat, m <= n
  PROVE  2 ^ m \in Nat /\ 2 ^ n \in Nat /\ 2 ^ m <= 2 ^ n
<1>1. \A p \in Nat : /\ IsFiniteSet(SUBSET (1 .. p))
                     /\ Cardinality(SUBSET (1 .. p)) = 2 ^ p
                     /\ 2 ^ p \in Nat
  <2>. TAKE p \in Nat
  <2>1. IsFiniteSet(1 .. p) /\ Cardinality(1 .. p) = p
    BY FS_Interval
  <2>2. IsFiniteSet(SUBSET (1 .. p)) /\ Cardinality(SUBSET (1 .. p)) = 2 ^ p
    BY <2>1, FS_SUBSET
  <2>. QED BY <2>2, FS_CardinalityType
<1>2. SUBSET (1 .. m) \subseteq SUBSET (1 .. n)
  OBVIOUS
<1>3. Cardinality(SUBSET (1 .. m)) <= Cardinality(SUBSET (1 .. n))
  BY <1>1, <1>2, FS_Subset
<1>. QED BY <1>1, <1>3

(* A circuit that opens again never waits less than it did before, however *)
(* large the constants: the exponent of the backoff and its cap agree.     *)
THEOREM BackoffGrows ==
  ASSUME NEW m \in Nat \ {0}, NEW n \in Nat, m <= n
  PROVE  CooldownOf(m) <= CooldownOf(n)
<1>. DEFINE exponent(opens) == IF opens > 21 THEN 20 ELSE opens - 1
            doubled(opens) == BaseCooldown * 2 ^ exponent(opens)
<1>1. /\ exponent(m) \in Nat /\ exponent(n) \in Nat /\ exponent(m) <= exponent(n)
      /\ BaseCooldown \in Nat /\ MaxCooldown \in Nat
  BY CircuitAssumption DEF CircuitAssumption
<1>2. /\ CooldownOf(m) = IF doubled(m) \in 0 .. MaxCooldown THEN doubled(m) ELSE MaxCooldown
      /\ CooldownOf(n) = IF doubled(n) \in 0 .. MaxCooldown THEN doubled(n) ELSE MaxCooldown
  BY DEF CooldownOf
<1>. HIDE DEF exponent
<1>3. doubled(m) \in Nat /\ doubled(n) \in Nat /\ doubled(m) <= doubled(n)
  <2>1. /\ 2 ^ exponent(m) \in Nat /\ 2 ^ exponent(n) \in Nat
        /\ 2 ^ exponent(m) <= 2 ^ exponent(n)
    BY <1>1, PowersOfTwo
  <2>2. \A a, b, c \in Nat : a <= b => c * a \in Nat /\ c * b \in Nat /\ c * a <= c * b
    OBVIOUS
  <2>. QED BY <1>1, <2>1, <2>2
<1>. HIDE DEF doubled
<1>. QED BY <1>1, <1>2, <1>3

(* Once the longest cooldown is reached, it is kept.                       *)
LEMMA BackoffCapped ==
  ASSUME NEW m \in Nat \ {0}, NEW n \in Nat, m <= n, CooldownOf(m) = MaxCooldown
  PROVE  CooldownOf(n) = MaxCooldown
BY BackoffGrows, CooldownBounded, CircuitAssumption DEF CircuitAssumption

-----------------------------------------------------------------------------
(* The circuit, field by field.                                            *)

Capped(cap, n) == IF n < cap THEN n ELSE cap

CircuitWith(failures, open, cooldown, opens, stale) ==
  [failures |-> failures, open |-> open, cooldown |-> cooldown,
   opens |-> opens, stale |-> stale]

Recounted(c, failures, stale) == [c EXCEPT !.failures = failures, !.stale = stale]
Reopened(c, open, opens, cooldown) ==
  [c EXCEPT !.open = open, !.opens = opens, !.cooldown = cooldown]

LEMMA CircuitFields ==
  ASSUME NEW f, NEW o, NEW d, NEW p, NEW s
  PROVE  LET c == CircuitWith(f, o, d, p, s) IN
         c.failures = f /\ c.open = o /\ c.cooldown = d /\ c.opens = p /\ c.stale = s
BY DEF CircuitWith

LEMMA CircuitCounted ==
  ASSUME NEW f, NEW o, NEW d, NEW p, NEW s, NEW f2, NEW s2
  PROVE  Recounted(CircuitWith(f, o, d, p, s), f2, s2) = CircuitWith(f2, o, d, p, s2)
<1>. DEFINE c == CircuitWith(f, o, d, p, s)
            e == CircuitWith(f2, o, d, p, s)
<1>1. [c EXCEPT !.failures = f2, !.stale = s2] = [[c EXCEPT !.failures = f2] EXCEPT !.stale = s2]
  OBVIOUS
<1>2. [c EXCEPT !.failures = f2] = e
  BY DEF CircuitWith
<1>3. [e EXCEPT !.stale = s2] = CircuitWith(f2, o, d, p, s2)
  BY DEF CircuitWith
<1>. QED BY <1>1, <1>2, <1>3, Zenon DEF Recounted

LEMMA CircuitOpened ==
  ASSUME NEW f, NEW o, NEW d, NEW p, NEW s, NEW o2, NEW p2, NEW d2
  PROVE  Reopened(CircuitWith(f, o, d, p, s), o2, p2, d2) = CircuitWith(f, o2, d2, p2, s)
<1>. DEFINE c == CircuitWith(f, o, d, p, s)
            c1 == CircuitWith(f, o2, d, p, s)
            c2 == CircuitWith(f, o2, d, p2, s)
<1>1. [c EXCEPT !.open = o2, !.opens = p2, !.cooldown = d2] =
        [[[c EXCEPT !.open = o2] EXCEPT !.opens = p2] EXCEPT !.cooldown = d2]
  OBVIOUS
<1>2. [c EXCEPT !.open = o2] = c1
  BY DEF CircuitWith
<1>3. [c1 EXCEPT !.opens = p2] = c2
  BY DEF CircuitWith
<1>4. [c2 EXCEPT !.cooldown = d2] = CircuitWith(f, o2, d2, p2, s)
  BY DEF CircuitWith
<1>. QED BY <1>1, <1>2, <1>3, <1>4, Zenon DEF Reopened

LEMMA CircuitTicked ==
  ASSUME NEW f, NEW o, NEW d, NEW p, NEW s
  PROVE  TickCircuit(CircuitWith(f, o, d, p, s)) =
           CircuitWith(f, o, IF d > 0 THEN d - 1 ELSE 0, p, s)
BY DEF TickCircuit, CircuitWith

LEMMA CircuitPlain ==
  ASSUME NEW f, NEW o, NEW d, NEW p, NEW s
  PROVE  PlainFailure(CircuitWith(f, o, d, p, s)) = CircuitWith(0, o, d, p, FALSE)
<1>1. PICK no : no = FALSE
  OBVIOUS
<1>2. Recounted(CircuitWith(f, o, d, p, s), 0, no) = CircuitWith(0, o, d, p, no)
  BY CircuitCounted
<1>. QED BY <1>1, <1>2, Zenon DEF PlainFailure, Recounted

LEMMA CircuitFailed ==
  ASSUME NEW f, NEW o, NEW d, NEW p, NEW s
  PROVE  LET failures == CountUpTo(FailureCap, f)
             opens    == CountUpTo(MaxOpens, p)
         IN  TransientFailure(CircuitWith(f, o, d, p, s)) =
               IF o \/ failures >= Threshold
               THEN CircuitWith(failures, TRUE, CooldownOf(opens), opens, FALSE)
               ELSE CircuitWith(failures, o, d, p, FALSE)
<1>. DEFINE c == CircuitWith(f, o, d, p, s)
            failures == CountUpTo(FailureCap, f)
            opens == CountUpTo(MaxOpens, p)
<1>1. c.failures = f /\ c.opens = p /\ c.open = o
  BY CircuitFields
<1>2. PICK no : no = FALSE
  OBVIOUS
<1>3. PICK yes : yes = TRUE
  OBVIOUS
<1>. HIDE DEF failures, opens
<1>4. Recounted(c, failures, no) = CircuitWith(failures, o, d, p, no)
  BY CircuitCounted
<1>5. Reopened(Recounted(c, failures, no), yes, opens, CooldownOf(opens)) =
        CircuitWith(failures, yes, CooldownOf(opens), opens, no)
  BY <1>4, CircuitOpened
<1>. HIDE DEF c
<1>6. TransientFailure(c) =
        IF o \/ failures >= Threshold
        THEN Reopened(Recounted(c, failures, no), yes, opens, CooldownOf(opens))
        ELSE Recounted(c, failures, no)
  BY <1>1, <1>2, <1>3, Zenon DEF TransientFailure, Recounted, Reopened, failures, opens
<1>. QED BY <1>2, <1>3, <1>4, <1>5, <1>6, Zenon DEF c, failures, opens

(* What CircuitOf tells of the evidence.                                   *)
LEMMA CircuitOfEvidence ==
  ASSUME NEW e, NEW stale \in BOOLEAN, stale <=> e.age > TTL
  PROVE  CircuitOf(e) = CircuitWith(Capped(FailureCap, e.streak), e.open, e.cooldown,
            Capped(MaxOpens, e.opens), stale)
<1>1. stale = (e.age > TTL)
  OBVIOUS
<1>2. CircuitOf(e) = CircuitWith(Capped(FailureCap, e.streak), e.open,e.cooldown,
            Capped(MaxOpens, e.opens), e.age > TTL)
  BY Zenon DEF CircuitOf, Capped, CircuitWith
<1>. QED BY <1>1, <1>2

LEMMA FreshFields == FreshCircuit = CircuitWith(0, FALSE, 0, 0, FALSE)
BY Zenon DEF FreshCircuit, CircuitWith

-----------------------------------------------------------------------------
(* The refinement.                                                         *)

(* What one more outcome leaves of the circuit for the reducer to decide.  *)
LEMMA CountedCircuit ==
  ASSUME NEW e, Sound(e), NEW success \in BOOLEAN
  PROVE  LET n == Counted(e, success) IN
         n.streak = e.streak /\ n.open = e.open /\ n.cooldown = e.cooldown
         /\ n.opens = e.opens /\ n.age = 0
<1>1. MaxSamples \in Nat /\ e.samples \in Nat
  BY EvidenceAssumption DEF Sound, Evidences, EvidenceAssumption
<1>. DEFINE r == Rescaled(e)
<1>2. /\ r.streak = e.streak /\ r.open = e.open /\ r.cooldown = e.cooldown
      /\ r.opens = e.opens /\ DOMAIN r = DOMAIN e
  BY DEF Rescaled, Sound, Evidences
<1>3. DOMAIN e = {"samples", "successes", "failures", "streak", "ewma", "age",
                  "open", "cooldown", "opens"}
  BY DEF Sound, Evidences
<1>. HIDE DEF r
<1>. QED BY <1>2, <1>3 DEF Counted, r

(* Counting up and capping commute.                                        *)
LEMMA CappedCounts ==
  ASSUME NEW cap \in Nat, NEW limit \in Nat, cap <= limit, NEW n \in 0 .. limit
  PROVE  /\ CountUpTo(cap, Capped(cap, n)) = Capped(cap, n + 1)
         /\ CountUpTo(cap, Capped(cap, n)) = Capped(cap, CountUpTo(limit, n))
BY DEF CountUpTo, Capped

(* The circuit cannot tell a count beyond MaxOpens from MaxOpens.          *)
LEMMA CappedCooldown ==
  ASSUME NEW opens \in 0 .. MaxSamples
  PROVE  CooldownOf(CountUpTo(MaxSamples, opens)) =
           CooldownOf(CountUpTo(MaxOpens, Capped(MaxOpens, opens)))
<1>1. /\ MaxOpens \in Nat \ {0} /\ MaxSamples \in Nat /\ MaxOpens <= MaxSamples
      /\ CooldownOf(MaxOpens) = MaxCooldown
  BY CircuitAssumption, EvidenceAssumption, AbstractionAssumption
  DEF CircuitAssumption, EvidenceAssumption, AbstractionAssumption
<1>2. CASE opens < MaxOpens
  BY <1>1, <1>2 DEF CountUpTo, Capped
<1>3. CASE ~(opens < MaxOpens)
  <2>1. /\ CountUpTo(MaxSamples, opens) \in Nat
        /\ MaxOpens <= CountUpTo(MaxSamples, opens)
        /\ CountUpTo(MaxOpens, Capped(MaxOpens, opens)) = MaxOpens
    BY <1>1, <1>3 DEF CountUpTo, Capped
  <2>. QED BY <1>1, <2>1, BackoffCapped
<1>. QED BY <1>2, <1>3

(* observeEvidence on evidence the reader would accept is one observation  *)
(* of the circuit.                                                         *)
LEMMA ObservedCircuit ==
  ASSUME NEW e, Sound(e), e.streak <= MaxSamples, ~e.open => e.cooldown = 0,
         NEW success \in BOOLEAN, NEW transient \in BOOLEAN,
         NEW latency \in Latencies \cup {None}
  PROVE  \E s \in BOOLEAN, t \in BOOLEAN :
           CircuitOf(Observed(e, success, transient, latency)) =
             ObserveCircuit(CircuitOf(e), s, t)
<1>. DEFINE n == Counted(e, success)
            counted == [n EXCEPT !.ewma = Smoothed(n.ewma, latency)]
            after == Observed(e, success, transient, latency)
            failures == Capped(FailureCap, e.streak)
            opens == Capped(MaxOpens, e.opens)
<1>0. PICK stale \in BOOLEAN : stale <=> e.age > TTL
  OBVIOUS
<1>. DEFINE c == CircuitWith(failures, e.open, e.cooldown, opens, stale)
<1>1. after = IF success THEN Closed(counted)
              ELSE IF transient THEN FailedTransiently(counted) ELSE [counted EXCEPT !.streak = 0]
  <2>1. Acceptable(e)
    BY SoundAcceptable
  <2>. QED BY <2>1 DEF Observed
<1>2. Sound(n) /\ n.streak = e.streak /\ n.open = e.open /\ n.cooldown = e.cooldown
      /\ n.opens = e.opens /\ n.age = 0
  BY CountedSound, CountedCircuit
<1>. HIDE DEF n
<1>3. /\ counted.streak = e.streak /\ counted.open = e.open
      /\ counted.cooldown = e.cooldown /\ counted.opens = e.opens /\ counted.age = 0
      /\ DOMAIN counted = {"samples", "successes", "failures", "streak", "ewma", "age",
                           "open", "cooldown", "opens"}
  BY <1>2 DEF Sound, Evidences
<1>. HIDE DEF counted
<1>4. /\ e.streak \in 0 .. MaxSamples /\ e.opens \in 0 .. MaxSamples
      /\ MaxSamples \in Nat /\ TTL \in Nat /\ MaxOpens \in Nat \ {0}
      /\ FailureCap \in Nat /\ Threshold \in Nat \ {0} /\ Threshold <= FailureCap
      /\ FailureCap <= MaxSamples /\ MaxOpens <= MaxSamples
  BY CircuitAssumption, EvidenceAssumption, AbstractionAssumption
  DEF CircuitAssumption, EvidenceAssumption, AbstractionAssumption, Sound, Evidences
<1>5. CircuitOf(e) = c
  BY <1>0, CircuitOfEvidence
<1>6. ~(0 > TTL)
  BY <1>4
<1>7. CASE success
  <2>1. /\ after.streak = 0 /\ after.open = FALSE /\ after.cooldown = 0
        /\ after.opens = 0 /\ after.age = 0
    BY <1>1, <1>3, <1>7 DEF Closed
  <2>. HIDE DEF after
  <2>2. Capped(FailureCap, 0) = 0 /\ Capped(MaxOpens, 0) = 0
    BY <1>4 DEF Capped
  <2>3. CircuitOf(after) =
          CircuitWith(Capped(FailureCap, after.streak), after.open, after.cooldown,
                      Capped(MaxOpens, after.opens), FALSE)
    BY <1>6, <2>1, CircuitOfEvidence
  <2>4. CircuitOf(after) = FreshCircuit
    BY <2>1, <2>2, <2>3, FreshFields, Zenon
  <2>. QED BY <2>4 DEF ObserveCircuit, after
<1>8. CASE ~success /\ ~transient
  <2>1. /\ after.streak = 0 /\ after.open = e.open /\ after.cooldown = e.cooldown
        /\ after.opens = e.opens /\ after.age = 0
    BY <1>1, <1>3, <1>8
  <2>. HIDE DEF after
  <2>2. Capped(FailureCap, 0) = 0
    BY <1>4 DEF Capped
  <2>3. CircuitOf(after) =
          CircuitWith(Capped(FailureCap, after.streak), after.open, after.cooldown,
                      Capped(MaxOpens, after.opens), FALSE)
    BY <1>6, <2>1, CircuitOfEvidence
  <2>4. CircuitOf(after) = PlainFailure(c)
    <3>1. PlainFailure(c) = CircuitWith(0, e.open, e.cooldown, opens, FALSE)
      <4>1. \A open, cooldown, more, old :
              PlainFailure(CircuitWith(failures, open, cooldown, more, old)) =
                CircuitWith(0, open, cooldown, more, FALSE)
        BY CircuitPlain, Zenon
      <4>. HIDE DEF failures, opens
      <4>. QED BY <4>1
    <3>. QED BY <2>1, <2>2, <2>3, <3>1, Zenon
  <2>5. ObserveCircuit(c, FALSE, FALSE) = PlainFailure(c)
    BY DEF ObserveCircuit
  <2>. QED BY <1>5, <2>4, <2>5 DEF after
<1>9. CASE ~success /\ transient
  <2>. DEFINE streak == e.streak + 1
              more == CountUpTo(MaxSamples, e.opens)
  <2>1. /\ CountUpTo(FailureCap, failures) = Capped(FailureCap, streak)
        /\ CountUpTo(MaxOpens, opens) = Capped(MaxOpens, more)
        /\ CooldownOf(CountUpTo(MaxOpens, opens)) = CooldownOf(more)
    BY <1>4, CappedCounts, CappedCooldown
  <2>2. Capped(FailureCap, streak) >= Threshold <=> streak >= Threshold
    BY <1>4 DEF Capped
  <2>3. TransientFailure(c) =
          IF e.open \/ streak >= Threshold
          THEN CircuitWith(Capped(FailureCap, streak), TRUE, CooldownOf(more),
                           Capped(MaxOpens, more), FALSE)
          ELSE CircuitWith(Capped(FailureCap, streak), e.open, e.cooldown, opens, FALSE)
    <3>. HIDE DEF failures, opens, streak, more
    <3>1. TransientFailure(c) =
            IF e.open \/ CountUpTo(FailureCap, failures) >= Threshold
            THEN CircuitWith(CountUpTo(FailureCap, failures), TRUE,
                             CooldownOf(CountUpTo(MaxOpens, opens)),
                             CountUpTo(MaxOpens, opens), FALSE)
            ELSE CircuitWith(CountUpTo(FailureCap, failures), e.open, e.cooldown, opens, FALSE)
      BY CircuitFailed
    <3>. QED BY <2>1, <2>2, <3>1, Zenon
  <2>4. CircuitOf(after) = TransientFailure(c)
    <3>1. CASE e.open \/ streak >= Threshold
      <4>1. /\ after.streak = streak /\ after.open = TRUE /\ after.opens = more
            /\ after.cooldown = CooldownOf(more) /\ after.age = 0
        BY <1>1, <1>3, <1>9, <3>1 DEF FailedTransiently
      <4>. HIDE DEF after
      <4>2. CircuitOf(after) =
              CircuitWith(Capped(FailureCap, after.streak), after.open, after.cooldown,
                          Capped(MaxOpens, after.opens), FALSE)
        BY <1>6, <4>1, CircuitOfEvidence
      <4>. HIDE DEF streak, more, c
      <4>. QED BY <2>3, <3>1, <4>1, <4>2, Zenon
    <3>2. CASE ~(e.open \/ streak >= Threshold)
      <4>1. /\ after.streak = streak /\ after.open = e.open /\ after.opens = e.opens
            /\ after.cooldown = e.cooldown /\ after.age = 0
        BY <1>1, <1>3, <1>9, <3>2 DEF FailedTransiently
      <4>. HIDE DEF after
      <4>2. CircuitOf(after) =
              CircuitWith(Capped(FailureCap, after.streak), after.open, after.cooldown,
                          Capped(MaxOpens, after.opens), FALSE)
        BY <1>6, <4>1, CircuitOfEvidence
      <4>. HIDE DEF streak, c
      <4>. QED BY <2>3, <3>2, <4>1, <4>2, Zenon
    <3>. QED BY <3>1, <3>2
  <2>5. ObserveCircuit(c, FALSE, TRUE) = TransientFailure(c)
    BY DEF ObserveCircuit
  <2>. QED BY <1>5, <2>4, <2>5 DEF after
<1>. QED BY <1>7, <1>8, <1>9

(* What is read back is what was written, or nothing if it expired.        *)
LEMMA NormalizedCircuit ==
  ASSUME NEW e, Sound(e), e.streak <= MaxSamples, ~e.open => e.cooldown = 0
  PROVE  \/ CircuitOf(Normalized(e)) = CircuitOf(e)
         \/ CircuitOf(e).stale /\ CircuitOf(Normalized(e)) = FreshCircuit
<1>1. Acceptable(e) /\ e.age \in Nat /\ TTL \in Nat
  BY SoundAcceptable, EvidenceAssumption DEF Sound, Evidences, EvidenceAssumption
<1>2. CircuitOf(Empty) = FreshCircuit
  <2>1. /\ ~(Empty.age > TTL)
        /\ Empty.open = FALSE /\ Empty.cooldown = 0
        /\ Capped(FailureCap, Empty.streak) = 0 /\ Capped(MaxOpens, Empty.opens) = 0
    BY <1>1, CircuitAssumption DEF Empty, Capped, CircuitAssumption
  <2>2. CircuitOf(Empty) =
          CircuitWith(Capped(FailureCap, Empty.streak), Empty.open, Empty.cooldown,
                      Capped(MaxOpens, Empty.opens), FALSE)
    BY <2>1, CircuitOfEvidence
  <2>. QED BY <2>1, <2>2, FreshFields, Zenon
<1>3. CASE e.age <= TTL
  BY <1>1, <1>3 DEF Normalized
<1>4. CASE ~(e.age <= TTL)
  <2>1. Normalized(e) = Empty
    BY <1>4 DEF Normalized
  <2>2. e.age > TTL
    BY <1>1, <1>4
  <2>3. CircuitOf(e).stale = (e.age > TTL)
    BY Zenon DEF CircuitOf
  <2>. QED BY <1>2, <2>1, <2>2, <2>3, Zenon
<1>. QED BY <1>3, <1>4

(* A tick shortens the cooldown and may let the evidence expire.           *)
LEMMA AgedCircuit ==
  ASSUME NEW e, Sound(e)
  PROVE  \/ CircuitOf(Aged(e)) = CircuitOf(e)
         \/ \E stale \in {CircuitOf(e).stale, TRUE} :
              CircuitOf(Aged(e)) = [TickCircuit(CircuitOf(e)) EXCEPT !.stale = stale]
<1>1. CASE e = Empty
  BY <1>1 DEF Aged
<1>2. CASE e # Empty
  <2>. DEFINE later == Aged(e)
              cooldown == IF e.cooldown > 0 THEN e.cooldown - 1 ELSE 0
              failures == Capped(FailureCap, e.streak)
              opens == Capped(MaxOpens, e.opens)
  <2>1. /\ later.streak = e.streak /\ later.open = e.open /\ later.opens = e.opens
        /\ later.cooldown = cooldown
        /\ later.age = IF e.age <= TTL THEN e.age + 1 ELSE e.age
    BY <1>2 DEF Aged, Sound, Evidences
  <2>2. e.age \in Nat /\ TTL \in Nat
    BY EvidenceAssumption DEF Sound, Evidences, EvidenceAssumption
  <2>. HIDE DEF later
  <2>3. PICK before \in BOOLEAN : before <=> e.age > TTL
    OBVIOUS
  <2>4. PICK stale \in BOOLEAN : stale <=> later.age > TTL
    OBVIOUS
  <2>5. CircuitOf(e) = CircuitWith(failures, e.open, e.cooldown, opens, before)
    BY <2>3, CircuitOfEvidence
  <2>6. CircuitOf(later) = CircuitWith(failures, e.open, cooldown, opens, stale)
    <3>1. CircuitOf(later) =
            CircuitWith(Capped(FailureCap, later.streak), later.open, later.cooldown,
                        Capped(MaxOpens, later.opens), stale)
      BY <2>4, CircuitOfEvidence
    <3>. QED BY <2>1, <3>1, Zenon
  <2>7. CircuitOf(later) = [TickCircuit(CircuitOf(e)) EXCEPT !.stale = stale]
    <3>1. TickCircuit(CircuitOf(e)) = CircuitWith(failures, e.open, cooldown, opens, before)
      BY <2>5, CircuitTicked
    <3>. QED BY <2>6, <3>1 DEF CircuitWith
  <2>8. stale \in {CircuitOf(e).stale, TRUE}
    <3>1. CircuitOf(e).stale = before
      BY <2>5 DEF CircuitWith
    <3>2. before => stale
      BY <2>1, <2>2, <2>3, <2>4
    <3>. QED BY <3>1, <3>2, <2>3, <2>4, Zenon
  <2>. QED BY <2>7, <2>8 DEF later
<1>. QED BY <1>1, <1>2

LEMMA CircuitStepHolds ==
  ASSUME EvidenceInv, ClosedIsCool, [Next]_evidence,
         NEW k \in Candidates, evidence[k].streak <= MaxSamples
  PROVE  CircuitStep(CircuitOf(evidence[k]), CircuitOf(evidence'[k]))
<1>1. Sound(evidence[k]) /\ (~evidence[k].open => evidence[k].cooldown = 0)
  BY DEF EvidenceInv, ClosedIsCool
<1>2. ASSUME NEW j \in Candidates, Observe(j)
      PROVE  CircuitStep(CircuitOf(evidence[k]), CircuitOf(evidence'[k]))
  <2>1. PICK success \in BOOLEAN, transient \in BOOLEAN, latency \in Latencies \cup {None} :
          evidence' = [evidence EXCEPT ![j] = Observed(evidence[j], success, transient, latency)]
    BY <1>2 DEF Observe
  <2>2. CASE j = k
    <3>1. evidence'[k] = Observed(evidence[k], success, transient, latency)
      BY <2>1, <2>2 DEF EvidenceInv
    <3>. QED BY <1>1, <3>1, ObservedCircuit DEF CircuitStep
  <2>3. CASE j # k
    BY <2>1, <2>3 DEF CircuitStep, EvidenceInv
  <2>. QED BY <2>2, <2>3
<1>3. CASE Restore
  <2>1. evidence'[k] = Normalized(evidence[k])
    BY <1>3 DEF Restore
  <2>. QED BY <1>1, <2>1, NormalizedCircuit DEF CircuitStep
<1>4. CASE Tick
  <2>1. evidence'[k] = Aged(evidence[k])
    BY <1>4 DEF Tick
  <2>. QED BY <1>1, <2>1, AgedCircuit DEF CircuitStep
<1>5. CASE UNCHANGED evidence
  BY <1>5 DEF CircuitStep
<1>. QED BY <1>2, <1>3, <1>4, <1>5 DEF Next

(* The circuit Scheduler is modelled with is the evidence with its counts  *)
(* cut off: no limit on samples, no halving and no restart shows in it.    *)
THEOREM EvidenceImplementsCircuit == Spec => ImplementsCircuit
<1>1. Init => ClosedIsCool
  BY DEF Init, ClosedIsCool, Empty
<1>2. EvidenceInv /\ ClosedIsCool /\ [Next]_evidence =>
        [\A k \in Candidates : evidence[k].streak <= MaxSamples =>
           CircuitStep(CircuitOf(evidence[k]), CircuitOf(evidence'[k]))]_evidence
  BY CircuitStepHolds
<1>. QED BY <1>1, <1>2, CoolStep, InvHolds, PTL DEF Spec, ImplementsCircuit
=============================================================================
