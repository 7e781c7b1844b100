-------------------------- MODULE SchedulerProofs --------------------------
(***************************************************************************)
(* Proofs about Scheduler, for every set of channels, candidates,          *)
(* requests and configurations.                                            *)
(***************************************************************************)
EXTENDS Scheduler, TLAPS

-----------------------------------------------------------------------------
(* Circuits.                                                               *)

(* The backoff of candidate-evidence.mjs is bounded: cooldownMs never      *)
(* exceeds MAX_COOLDOWN_MS, whatever openCount is.                         *)
LEMMA CooldownOfType ==
  \A opens : CooldownOf(opens) \in 0 .. MaxCooldown
BY CircuitAssumption DEF CooldownOf, CircuitAssumption

(* observeEvidence keeps the counters within their bounds.                 *)
LEMMA ObserveCircuitType ==
  ASSUME NEW e \in Circuits, NEW success, NEW transient
  PROVE  ObserveCircuit(e, success, transient) \in Circuits
<1>1. FreshCircuit \in Circuits
  BY CircuitAssumption DEF FreshCircuit, Circuits, CircuitAssumption
<1>2. PlainFailure(e) \in Circuits
  <2>. DEFINE counted == [e EXCEPT !.failures = 0]
  <2>1. counted \in Circuits
    BY CircuitAssumption DEF Circuits, CircuitAssumption
  <2>2. [counted EXCEPT !.stale = FALSE] \in Circuits
    BY <2>1 DEF Circuits
  <2>. QED BY <2>2 DEF PlainFailure
<1>3. TransientFailure(e) \in Circuits
  <2>1. CountUpTo(FailureCap, e.failures) \in 0 .. FailureCap
    BY CircuitAssumption DEF CountUpTo, Circuits, CircuitAssumption
  <2>2. CountUpTo(MaxOpens, e.opens) \in 0 .. MaxOpens
    BY CircuitAssumption DEF CountUpTo, Circuits, CircuitAssumption
  <2>3. CooldownOf(CountUpTo(MaxOpens, e.opens)) \in 0 .. MaxCooldown
    BY CooldownOfType
  <2>. QED BY <2>1, <2>2, <2>3 DEF TransientFailure, Circuits
<1>. QED BY <1>1, <1>2, <1>3 DEF ObserveCircuit

LEMMA TickCircuitType ==
  ASSUME NEW e \in Circuits
  PROVE  TickCircuit(e) \in Circuits
BY CircuitAssumption DEF TickCircuit, Circuits, CircuitAssumption

-----------------------------------------------------------------------------
(* Selections and leases.                                                  *)

(* What reserve, runAdminTest and withSchedulerChannelLease each put into  *)
(* the selection they keep.                                                *)
SelectionsConsistent ==
  \A r \in Requests : Live(r) =>
    /\ sel[r].source = "model-sync" <=> sel[r].key = NoKey
    /\ sel[r].key # NoKey => ChannelOf[sel[r].key] = sel[r].channel
    /\ sel[r].trial => sel[r].source = "production"

LEMMA LiveSelection ==
  ASSUME TypeOK, NEW r \in Requests
  PROVE  /\ Live(r) <=> sel[r] \in Selections
         /\ sel[r].source \in Sources => Live(r)
BY DEF TypeOK, Live, Selections, NoSelection, Sources

(* A lease that is taken and a lease that is given back keep the           *)
(* reservation map in step with the selections.                            *)
LEMMA AcquireKeepsLeases ==
  ASSUME TypeOK, LeaseMatchesRequest, NEW r \in Requests, NEW selection \in Selections,
         Acquire(r, selection)
  PROVE  /\ active' \in [Channels -> Requests \cup {Free}]
         /\ sel' \in [Requests -> Selections \cup {NoSelection}]
         /\ LeaseMatchesRequest'
<1>1. selection.channel \in Channels /\ selection # NoSelection
  BY DEF Selections, NoSelection, Sources
<1>2. active' \in [Channels -> Requests \cup {Free}]
  BY <1>1 DEF TypeOK, Acquire
<1>3. sel' \in [Requests -> Selections \cup {NoSelection}]
  BY DEF TypeOK, Acquire
<1>4. LeaseMatchesRequest'
  BY <1>1, SchedulerAssumption
  DEF TypeOK, LeaseMatchesRequest, Acquire, Live, SchedulerAssumption
<1>. QED BY <1>2, <1>3, <1>4

LEMMA ReleaseKeepsLeases ==
  ASSUME TypeOK, LeaseMatchesRequest, NEW r \in Requests, Release(r)
  PROVE  /\ active' \in [Channels -> Requests \cup {Free}]
         /\ sel' \in [Requests -> Selections \cup {NoSelection}]
         /\ LeaseMatchesRequest'
<1>1. active' \in [Channels -> Requests \cup {Free}]
  BY DEF TypeOK, Release
<1>2. sel' \in [Requests -> Selections \cup {NoSelection}]
  BY DEF TypeOK, Release
<1>3. LeaseMatchesRequest'
  BY SchedulerAssumption
  DEF TypeOK, LeaseMatchesRequest, Release, Live, SchedulerAssumption
<1>. QED BY <1>1, <1>2, <1>3

(* A selectable candidate is a known one of a free channel.                *)
LEMMA SelectableCandidate ==
  ASSUME NEW pool \in Pools, NEW k \in Selectable(pool)
  PROVE  k \in Candidates /\ ChannelOf[k] \in Channels /\ Eligible(k)
BY SchedulerAssumption DEF Selectable, Available, SchedulerAssumption

LEMMA CooldownsClearedType ==
  ASSUME TypeOK
  PROVE  CooldownsCleared \in [Channels -> [health : Healths, cooldown : Nat]]
BY DEF TypeOK, CooldownsCleared, Unknown, Healths

(* recordOutcome writes well-formed state, for any observation.            *)
LEMMA RecordOutcomeType ==
  ASSUME TypeOK, NEW r \in Requests, NEW o, RecordOutcome(r, o),
         sel[r].channel \in Channels, sel[r].key \in Candidates
  PROVE  /\ chan' \in [Channels -> [health : Healths, cooldown : Nat]]
         /\ circuit' \in [Candidates -> Circuits]
         /\ misconfigured' \subseteq Candidates
         /\ halfOpen' \subseteq Candidates
<1>1. chan' \in [Channels -> [health : Healths, cooldown : Nat]]
  <2>1. PICK retry \in RetryAfters :
          chan' = [chan EXCEPT ![sel[r].channel] = ChannelAfter(@, o, retry)]
    BY DEF RecordOutcome
  <2>2. retry \in Nat
    BY SchedulerAssumption DEF SchedulerAssumption
  <2>3. ASSUME NEW h \in [health : Healths, cooldown : Nat]
        PROVE  ChannelAfter(h, o, retry) \in [health : Healths, cooldown : Nat]
    BY <2>2 DEF ChannelAfter, Health, Healths, Blocked
  <2>. QED BY <2>1, <2>3 DEF TypeOK
<1>2. circuit' \in [Candidates -> Circuits]
  BY ObserveCircuitType DEF TypeOK, RecordOutcome
<1>3. misconfigured' \subseteq Candidates
  BY DEF TypeOK, RecordOutcome
<1>4. halfOpen' \subseteq Candidates
  BY DEF TypeOK, RecordOutcome
<1>. QED BY <1>1, <1>2, <1>3, <1>4

-----------------------------------------------------------------------------
(* Types and leases are inductive together: an outcome is recorded for the *)
(* channel and the candidate that the selection names, and a selection is  *)
(* forgotten only with its lease.                                          *)
LeaseInv == TypeOK /\ SelectionsConsistent /\ LeaseMatchesRequest

LEMMA LeaseInit == Init => LeaseInv
<1>. SUFFICES ASSUME Init PROVE LeaseInv
  OBVIOUS
<1>1. TypeOK
  BY ObserveCircuitType, CircuitAssumption
  DEF Init, TypeOK, Unknown, Healths, FreshCircuit, Circuits, CircuitAssumption
<1>2. SelectionsConsistent
  BY DEF Init, SelectionsConsistent, Live
<1>3. LeaseMatchesRequest
  BY SchedulerAssumption DEF Init, LeaseMatchesRequest, Live, SchedulerAssumption
<1>. QED BY <1>1, <1>2, <1>3 DEF LeaseInv

LEMMA LeaseStepTraffic ==
  ASSUME LeaseInv, Traffic PROVE LeaseInv'
<1>. USE DEF LeaseInv
<1>1. ASSUME NEW r \in Requests, NEW pool \in Pools, Reserve(r, pool)
      PROVE  LeaseInv'
  <2>1. PICK k \in Selectable(pool) :
          LET trial == CircuitStatus(circuit[k]) = "half-open"
          IN  /\ Acquire(r, [source |-> "production", channel |-> ChannelOf[k],
                             key |-> k, trial |-> trial])
              /\ halfOpen' = IF trial THEN halfOpen \cup {k} ELSE halfOpen
    BY <1>1 DEF Reserve
  <2>. DEFINE trial == CircuitStatus(circuit[k]) = "half-open"
              selection == [source |-> "production", channel |-> ChannelOf[k],
                            key |-> k, trial |-> trial]
  <2>2. k \in Candidates /\ ChannelOf[k] \in Channels
    BY SelectableCandidate
  <2>3. selection \in Selections
    BY <2>2 DEF Selections, Sources
  <2>4. Acquire(r, selection) /\ halfOpen' \subseteq Candidates
    BY <2>1, <2>2 DEF TypeOK
  <2>. HIDE DEF selection
  <2>5. /\ active' \in [Channels -> Requests \cup {Free}]
        /\ sel' \in [Requests -> Selections \cup {NoSelection}]
        /\ LeaseMatchesRequest'
    BY <2>3, <2>4, AcquireKeepsLeases
  <2>6. TypeOK'
    BY <1>1, <2>4, <2>5, CooldownsClearedType DEF Reserve, TypeOK
  <2>7. SelectionsConsistent'
    BY <2>2, <2>4, SchedulerAssumption
    DEF selection, SelectionsConsistent, Acquire, Live, TypeOK, SchedulerAssumption
  <2>. QED BY <2>5, <2>6, <2>7
<1>2. ASSUME NEW pool \in Pools, ReserveRefused(pool)
      PROVE  LeaseInv'
  BY <1>2, CooldownsClearedType
  DEF ReserveRefused, TypeOK, SelectionsConsistent, LeaseMatchesRequest, Live
<1>3. ASSUME NEW r \in Requests, Release(r)
      PROVE  SelectionsConsistent'
  BY <1>3 DEF Release, SelectionsConsistent, TypeOK, Live
<1>4. ASSUME NEW r \in Requests, sel[r].source \in {"production", "manual-test"}
      PROVE  sel[r].channel \in Channels /\ sel[r].key \in Candidates
  <2>1. Live(r) /\ sel[r] \in Selections
    BY <1>4, LiveSelection DEF Sources
  <2>2. sel[r].key # NoKey
    BY <1>4, <2>1 DEF SelectionsConsistent
  <2>. QED BY <2>1, <2>2 DEF Selections
<1>5. ASSUME NEW r \in Requests, NEW o \in ProductionAnswers, Answered(r, o)
      PROVE  LeaseInv'
  <2>1. sel[r].channel \in Channels /\ sel[r].key \in Candidates
    BY <1>4, <1>5 DEF Answered
  <2>2. /\ chan' \in [Channels -> [health : Healths, cooldown : Nat]]
        /\ circuit' \in [Candidates -> Circuits]
        /\ misconfigured' \subseteq Candidates
        /\ halfOpen' \subseteq Candidates
    BY <1>5, <2>1, RecordOutcomeType DEF Answered
  <2>. QED BY <1>3, <1>5, <2>2, ReleaseKeepsLeases DEF Answered, TypeOK
<1>6. ASSUME NEW r \in Requests, Cancelled(r)
      PROVE  LeaseInv'
  BY <1>3, <1>6, ReleaseKeepsLeases DEF Cancelled, TypeOK
<1>7. ASSUME NEW r \in Requests, NEW k \in Candidates, StartTest(r, k)
      PROVE  LeaseInv'
  <2>. DEFINE selection == [source |-> "manual-test", channel |-> ChannelOf[k],
                            key |-> k, trial |-> FALSE]
  <2>1. selection \in Selections
    BY SchedulerAssumption DEF Selections, Sources, SchedulerAssumption
  <2>2. Acquire(r, selection)
    BY <1>7 DEF StartTest
  <2>3. SelectionsConsistent'
    BY <2>2, SchedulerAssumption
    DEF SelectionsConsistent, Acquire, Live, TypeOK, SchedulerAssumption
  <2>. HIDE DEF selection
  <2>. QED BY <1>7, <2>1, <2>2, <2>3, AcquireKeepsLeases DEF StartTest, TypeOK
<1>8. ASSUME NEW r \in Requests, FinishTest(r)
      PROVE  LeaseInv'
  <2>1. sel[r].channel \in Channels /\ sel[r].key \in Candidates
    BY <1>4, <1>8 DEF FinishTest
  <2>2. /\ chan' \in [Channels -> [health : Healths, cooldown : Nat]]
        /\ circuit' \in [Candidates -> Circuits]
        /\ misconfigured' \subseteq Candidates
        /\ halfOpen' \subseteq Candidates
    <3>1. CASE \E o \in TestAnswers : RecordOutcome(r, o)
      BY <2>1, <3>1, RecordOutcomeType
    <3>2. CASE UNCHANGED <<chan, circuit, misconfigured, halfOpen>>
      BY <3>2 DEF TypeOK
    <3>. QED BY <1>8, <3>1, <3>2 DEF FinishTest
  <2>. QED BY <1>3, <1>8, <2>2, ReleaseKeepsLeases DEF FinishTest, TypeOK
<1>9. ASSUME NEW r \in Requests, NEW c \in Channels, StartSync(r, c)
      PROVE  LeaseInv'
  <2>. DEFINE selection == [source |-> "model-sync", channel |-> c,
                            key |-> NoKey, trial |-> FALSE]
  <2>1. selection \in Selections
    BY DEF Selections, Sources
  <2>2. Acquire(r, selection)
    BY <1>9 DEF StartSync
  <2>3. SelectionsConsistent'
    BY <2>2, SchedulerAssumption
    DEF SelectionsConsistent, Acquire, Live, TypeOK, SchedulerAssumption
  <2>. HIDE DEF selection
  <2>. QED BY <1>9, <2>1, <2>2, <2>3, AcquireKeepsLeases DEF StartSync, TypeOK
<1>10. ASSUME NEW r \in Requests, FinishSync(r)
       PROVE  LeaseInv'
  BY <1>3, <1>10, ReleaseKeepsLeases DEF FinishSync, TypeOK
<1>. QED BY <1>1, <1>2, <1>5, <1>6, <1>7, <1>8, <1>9, <1>10 DEF Traffic

LEMMA LeaseStepControl ==
  ASSUME LeaseInv, Control \/ Time PROVE LeaseInv'
<1>. USE DEF LeaseInv
<1>1. ASSUME UNCHANGED <<active, sel>>
      PROVE  SelectionsConsistent' /\ LeaseMatchesRequest'
  BY <1>1 DEF SelectionsConsistent, LeaseMatchesRequest, Live
<1>2. ASSUME NEW c \in Channels, DrainChannel(c) \/ ResumeChannel(c)
      PROVE  LeaseInv'
  BY <1>1, <1>2 DEF DrainChannel, ResumeChannel, Unmoved, TypeOK
<1>3. ASSUME NEW c \in Channels, ResetChannelHealth(c)
      PROVE  LeaseInv'
  BY <1>1, <1>3 DEF ResetChannelHealth, Unmoved, TypeOK, Unknown, Healths
<1>4. ASSUME NEW k \in Candidates, SuppressCandidate(k) \/ ResumeCandidate(k)
      PROVE  LeaseInv'
  BY <1>1, <1>4 DEF SuppressCandidate, ResumeCandidate, Unmoved, TypeOK
<1>5. ASSUME DrainAll \/ ResumeAll
      PROVE  LeaseInv'
  BY <1>1, <1>5, ConfigsAssumption
  DEF DrainAll, ResumeAll, Unmoved, TypeOK, ConfigsAssumption
<1>6. ASSUME NEW next \in Configs, Reload(next)
      PROVE  LeaseInv'
  <2>1. chan' \in [Channels -> [health : Healths, cooldown : Nat]]
    BY <1>6 DEF Reload, TypeOK, Unknown, Healths
  <2>2. circuit' \in [Candidates -> Circuits]
    <3>1. FreshCircuit \in Circuits
      BY CircuitAssumption DEF FreshCircuit, Circuits, CircuitAssumption
    <3>. QED BY <1>6, <3>1 DEF Reload, TypeOK
  <2>. QED BY <1>1, <1>6, <2>1, <2>2 DEF Reload, TypeOK
<1>7. ASSUME Tick
      PROVE  LeaseInv'
  <2>1. chan' \in [Channels -> [health : Healths, cooldown : Nat]]
    BY <1>7 DEF Tick, TypeOK
  <2>2. circuit' \in [Candidates -> Circuits]
    BY <1>7, TickCircuitType DEF Tick, TypeOK
  <2>. QED BY <1>1, <1>7, <2>1, <2>2 DEF Tick, TypeOK
<1>8. ASSUME NEW k \in Candidates, EvidenceExpires(k)
      PROVE  LeaseInv'
  BY <1>1, <1>8 DEF EvidenceExpires, TypeOK, Circuits
<1>. QED BY <1>2, <1>3, <1>4, <1>5, <1>6, <1>7, <1>8 DEF Control, Time

LEMMA LeaseStep == LeaseInv /\ [Next]_vars => LeaseInv'
<1>1. ASSUME LeaseInv, UNCHANGED vars
      PROVE  LeaseInv'
  BY <1>1 DEF LeaseInv, TypeOK, SelectionsConsistent, LeaseMatchesRequest, Live, vars
<1>. QED BY <1>1, LeaseStepTraffic, LeaseStepControl DEF Next

(* Every state of the scheduler is well-formed.                            *)
THEOREM TypeCorrect == Spec => []TypeOK
<1>1. LeaseInv => TypeOK
  BY DEF LeaseInv
<1>. QED BY <1>1, LeaseInit, LeaseStep, PTL DEF Spec

(* One exchange per channel, across production, tests and synchronisation. *)
THEOREM ChannelExclusion == Spec => []LeaseMatchesRequest
<1>1. LeaseInv => LeaseMatchesRequest
  BY DEF LeaseInv
<1>. QED BY <1>1, LeaseInit, LeaseStep, PTL DEF Spec

-----------------------------------------------------------------------------
(* Half-open tokens.  The token of a candidate is taken and given back     *)
(* under the lease of its channel, so leases are all the invariant needs.  *)
LEMMA OneTrialPerChannel ==
  ASSUME LeaseInv, HalfOpenBackedByLease, NEW r \in Requests, Live(r)
  PROVE  /\ \A k \in halfOpen : ChannelOf[k] = sel[r].channel => k = sel[r].key
         /\ \A q \in Requests : Live(q) /\ sel[q].channel = sel[r].channel => q = r
<1>1. sel[r].channel \in Channels
  BY LiveSelection DEF LeaseInv, Selections
<1>2. active[sel[r].channel] = r
  BY <1>1 DEF LeaseInv, LeaseMatchesRequest
<1>3. ASSUME NEW k \in halfOpen, ChannelOf[k] = sel[r].channel
      PROVE  k = sel[r].key
  BY <1>2, <1>3 DEF HalfOpenBackedByLease
<1>4. ASSUME NEW q \in Requests, Live(q), sel[q].channel = sel[r].channel
      PROVE  q = r
  BY <1>1, <1>2, <1>4 DEF LeaseInv, LeaseMatchesRequest
<1>. QED BY <1>3, <1>4

(* What does not touch leases, selections or tokens keeps tokens backed.   *)
LEMMA TokenFrame ==
  ASSUME HalfOpenBackedByLease, UNCHANGED <<active, sel, halfOpen>>
  PROVE  HalfOpenBackedByLease'
BY DEF HalfOpenBackedByLease, Live

(* A lease taken without a token leaves every token backed.                *)
LEMMA TokenAcquire ==
  ASSUME LeaseInv, HalfOpenBackedByLease, NEW r \in Requests,
         NEW selection \in Selections, ~selection.trial,
         Acquire(r, selection), halfOpen' = halfOpen
  PROVE  HalfOpenBackedByLease'
<1>1. ASSUME NEW k \in halfOpen'
      PROVE  \E q \in Requests : active'[ChannelOf[k]] = q /\ sel'[q].key = k /\ sel'[q].trial
  <2>1. PICK q \in Requests : active[ChannelOf[k]] = q /\ sel[q].key = k /\ sel[q].trial
    BY DEF HalfOpenBackedByLease
  <2>2. k \in Candidates /\ ChannelOf[k] \in Channels
    BY SchedulerAssumption DEF LeaseInv, TypeOK, SchedulerAssumption
  <2>3. Live(q) /\ q # r
    BY <2>1, <2>2 DEF LeaseInv, LeaseMatchesRequest, Acquire
  <2>4. selection.channel # ChannelOf[k]
    BY <2>1, SchedulerAssumption DEF Acquire, SchedulerAssumption
  <2>. QED BY <2>1, <2>2, <2>3, <2>4 DEF Acquire, LeaseInv, TypeOK
<1>2. ASSUME NEW q \in Requests, Live(q)', sel'[q].trial
      PROVE  sel'[q].key \in halfOpen'
  BY <1>2 DEF HalfOpenBackedByLease, Acquire, Live, LeaseInv, TypeOK
<1>. QED BY <1>1, <1>2 DEF HalfOpenBackedByLease

(* Whoever gives a lease back gives the token of its candidate back, and   *)
(* no other request can hold that token or another one of the channel.     *)
LEMMA TokenRelease ==
  ASSUME LeaseInv, HalfOpenBackedByLease, NEW r \in Requests, Live(r),
         Release(r),
         halfOpen' = halfOpen \ {sel[r].key} \/ (halfOpen' = halfOpen /\ ~sel[r].trial)
  PROVE  HalfOpenBackedByLease'
<1>1. ASSUME NEW k \in halfOpen'
      PROVE  \E q \in Requests : active'[ChannelOf[k]] = q /\ sel'[q].key = k /\ sel'[q].trial
  <2>1. PICK q \in Requests : active[ChannelOf[k]] = q /\ sel[q].key = k /\ sel[q].trial
    BY DEF HalfOpenBackedByLease
  <2>2. k \in Candidates /\ ChannelOf[k] \in Channels
    BY SchedulerAssumption DEF LeaseInv, TypeOK, SchedulerAssumption
  <2>3. q # r
    BY <2>1
  <2>. QED BY <2>1, <2>2, <2>3 DEF Release, LeaseInv, TypeOK
<1>2. ASSUME NEW q \in Requests, Live(q)', sel'[q].trial
      PROVE  sel'[q].key \in halfOpen'
  <2>1. q # r /\ sel'[q] = sel[q] /\ Live(q)
    BY <1>2 DEF Release, Live, LeaseInv, TypeOK
  <2>2. sel[q].key \in halfOpen
    BY <1>2, <2>1 DEF HalfOpenBackedByLease
  <2>3. /\ sel[q] \in Selections /\ sel[r] \in Selections
        /\ sel[q].source = "production"
    BY <1>2, <2>1, LiveSelection DEF LeaseInv, SelectionsConsistent
  <2>4. sel[q].key # NoKey /\ ChannelOf[sel[q].key] = sel[q].channel
    BY <2>1, <2>3 DEF LeaseInv, SelectionsConsistent
  <2>5. sel[q].key # sel[r].key
    <3>1. SUFFICES ASSUME sel[q].key = sel[r].key PROVE FALSE
      OBVIOUS
    <3>2. ChannelOf[sel[r].key] = sel[r].channel
      BY <2>4, <3>1 DEF LeaseInv, SelectionsConsistent
    <3>. QED BY <2>1, <2>4, <3>1, <3>2, OneTrialPerChannel
  <2>. QED BY <2>1, <2>2, <2>5
<1>. QED BY <1>1, <1>2 DEF HalfOpenBackedByLease

LEMMA TokenReserve ==
  ASSUME LeaseInv, HalfOpenBackedByLease, NEW r \in Requests, NEW pool \in Pools,
         Reserve(r, pool)
  PROVE  HalfOpenBackedByLease'
<1>1. PICK k \in Selectable(pool) :
        LET trial == CircuitStatus(circuit[k]) = "half-open"
        IN  /\ Acquire(r, [source |-> "production", channel |-> ChannelOf[k],
                           key |-> k, trial |-> trial])
            /\ halfOpen' = IF trial THEN halfOpen \cup {k} ELSE halfOpen
  BY DEF Reserve
<1>. DEFINE trial == CircuitStatus(circuit[k]) = "half-open"
            selection == [source |-> "production", channel |-> ChannelOf[k],
                          key |-> k, trial |-> trial]
<1>2. k \in Candidates /\ ChannelOf[k] \in Channels
  BY SelectableCandidate
<1>3. selection \in Selections
  BY <1>2 DEF Selections, Sources
<1>4. CASE ~trial
  <2>1. Acquire(r, selection) /\ halfOpen' = halfOpen /\ ~selection.trial
    BY <1>1, <1>4
  <2>. HIDE DEF selection
  <2>. QED BY <1>3, <2>1, TokenAcquire
<1>5. CASE trial
  <2>1. Acquire(r, selection) /\ halfOpen' = halfOpen \cup {k}
    BY <1>1, <1>5
  <2>2. active' = [active EXCEPT ![ChannelOf[k]] = r] /\ sel'[r].key = k /\ sel'[r].trial
    BY <1>5, <2>1 DEF Acquire, LeaseInv, TypeOK
  <2>3. ASSUME NEW j \in halfOpen'
        PROVE  \E q \in Requests : active'[ChannelOf[j]] = q /\ sel'[q].key = j /\ sel'[q].trial
    <3>1. CASE j = k
      BY <1>2, <2>2, <3>1 DEF LeaseInv, TypeOK
    <3>2. CASE j # k
      <4>1. PICK q \in Requests : active[ChannelOf[j]] = q /\ sel[q].key = j /\ sel[q].trial
        BY <2>1, <2>3, <3>2 DEF HalfOpenBackedByLease
      <4>2. j \in Candidates /\ ChannelOf[j] \in Channels
        BY <2>1, <2>3, <3>2, SchedulerAssumption DEF LeaseInv, TypeOK, SchedulerAssumption
      <4>3. q # r /\ ChannelOf[j] # ChannelOf[k]
        BY <2>1, <4>1, <4>2, SchedulerAssumption
        DEF LeaseInv, LeaseMatchesRequest, Acquire, SchedulerAssumption
      <4>4. active'[ChannelOf[j]] = q /\ sel'[q] = sel[q]
        BY <2>1, <2>2, <4>1, <4>2, <4>3 DEF Acquire, LeaseInv, TypeOK
      <4>. QED BY <4>1, <4>4
    <3>. QED BY <3>1, <3>2
  <2>4. ASSUME NEW q \in Requests, Live(q)', sel'[q].trial
        PROVE  sel'[q].key \in halfOpen'
    BY <2>1, <2>2, <2>4 DEF HalfOpenBackedByLease, Acquire, Live, LeaseInv, TypeOK
  <2>. QED BY <2>3, <2>4 DEF HalfOpenBackedByLease
<1>. QED BY <1>4, <1>5

LEMMA TokenStep ==
  ASSUME LeaseInv, HalfOpenBackedByLease, [Next]_vars
  PROVE  HalfOpenBackedByLease'
<1>1. ASSUME NEW r \in Requests, sel[r].source \in Sources
      PROVE  Live(r) /\ (sel[r].trial => sel[r].source = "production")
  BY <1>1, LiveSelection DEF LeaseInv, SelectionsConsistent
<1>2. CASE Traffic
  <2>1. ASSUME NEW pool \in Pools, ReserveRefused(pool)
        PROVE  HalfOpenBackedByLease'
    BY <2>1, TokenFrame DEF ReserveRefused
  <2>2. ASSUME NEW r \in Requests, NEW o \in ProductionAnswers, Answered(r, o)
        PROVE  HalfOpenBackedByLease'
    <3>1. Live(r) /\ Release(r) /\ halfOpen' = halfOpen \ {sel[r].key}
      BY <1>1, <2>2 DEF Answered, RecordOutcome, Sources
    <3>. QED BY <3>1, TokenRelease
  <2>3. ASSUME NEW r \in Requests, Cancelled(r)
        PROVE  HalfOpenBackedByLease'
    BY <1>1, <2>3, TokenRelease DEF Cancelled, Sources
  <2>4. ASSUME NEW r \in Requests, NEW k \in Candidates, StartTest(r, k)
        PROVE  HalfOpenBackedByLease'
    <3>. DEFINE selection == [source |-> "manual-test", channel |-> ChannelOf[k],
                              key |-> k, trial |-> FALSE]
    <3>1. selection \in Selections /\ ~selection.trial
      BY SchedulerAssumption DEF Selections, Sources, SchedulerAssumption
    <3>2. Acquire(r, selection) /\ halfOpen' = halfOpen
      BY <2>4 DEF StartTest
    <3>. HIDE DEF selection
    <3>. QED BY <3>1, <3>2, TokenAcquire
  <2>5. ASSUME NEW r \in Requests, FinishTest(r)
        PROVE  HalfOpenBackedByLease'
    <3>1. Live(r) /\ Release(r) /\ ~sel[r].trial
      BY <1>1, <2>5 DEF FinishTest, Sources
    <3>2. halfOpen' = halfOpen \ {sel[r].key} \/ halfOpen' = halfOpen
      BY <2>5 DEF FinishTest, RecordOutcome
    <3>. QED BY <3>1, <3>2, TokenRelease
  <2>6. ASSUME NEW r \in Requests, NEW c \in Channels, StartSync(r, c)
        PROVE  HalfOpenBackedByLease'
    <3>. DEFINE selection == [source |-> "model-sync", channel |-> c,
                              key |-> NoKey, trial |-> FALSE]
    <3>1. selection \in Selections /\ ~selection.trial
      BY DEF Selections, Sources
    <3>2. Acquire(r, selection) /\ halfOpen' = halfOpen
      BY <2>6 DEF StartSync
    <3>. HIDE DEF selection
    <3>. QED BY <3>1, <3>2, TokenAcquire
  <2>7. ASSUME NEW r \in Requests, FinishSync(r)
        PROVE  HalfOpenBackedByLease'
    <3>1. Live(r) /\ Release(r) /\ ~sel[r].trial /\ halfOpen' = halfOpen
      BY <1>1, <2>7 DEF FinishSync, Sources
    <3>. QED BY <3>1, TokenRelease
  <2>. QED BY <1>2, <2>1, <2>2, <2>3, <2>4, <2>5, <2>6, <2>7, TokenReserve DEF Traffic
<1>3. CASE Control
  <2>1. ASSUME NEW next \in Configs, Reload(next)
        PROVE  HalfOpenBackedByLease'
    <3>1. \A r \in Requests : ~Live(r)
      <4>1. SUFFICES ASSUME NEW r \in Requests, Live(r) PROVE FALSE
        OBVIOUS
      <4>2. sel[r].channel \in Channels
        BY <4>1, LiveSelection DEF LeaseInv, Selections
      <4>. QED BY <2>1, <4>1, <4>2, SchedulerAssumption
           DEF Reload, Idle, LeaseInv, LeaseMatchesRequest, SchedulerAssumption
    <3>. QED BY <2>1, <3>1 DEF Reload, HalfOpenBackedByLease, Live
  <2>2. CASE UNCHANGED <<active, sel, halfOpen>>
    BY <2>2, TokenFrame
  <2>. QED BY <1>3, <2>1, <2>2
       DEF Control, DrainChannel, ResumeChannel, ResetChannelHealth, SuppressCandidate,
           ResumeCandidate, DrainAll, ResumeAll, Unmoved
<1>4. CASE Time
  BY <1>4, TokenFrame DEF Time, Tick, EvidenceExpires
<1>5. CASE UNCHANGED vars
  BY <1>5, TokenFrame DEF vars
<1>. QED BY <1>2, <1>3, <1>4, <1>5 DEF Next

(* A half-open token is held exactly while its trial holds the channel.    *)
THEOREM TokensBacked == Spec => []HalfOpenBackedByLease
<1>1. Init => HalfOpenBackedByLease
  BY DEF Init, HalfOpenBackedByLease, Live
<1>2. LeaseInv /\ HalfOpenBackedByLease /\ [Next]_vars => HalfOpenBackedByLease'
  BY TokenStep
<1>. QED BY <1>1, <1>2, LeaseInit, LeaseStep, PTL DEF Spec

-----------------------------------------------------------------------------
(* What is remembered belongs to the loaded configuration.                 *)

(* reloadConfig finds no exchange: every selection would hold a lease.     *)
LEMMA IdleMeansNoSelection ==
  ASSUME LeaseInv, Idle, NEW r \in Requests
  PROVE  ~Live(r)
<1>1. SUFFICES ASSUME Live(r) PROVE FALSE
  OBVIOUS
<1>2. sel[r].channel \in Channels
  BY <1>1, LiveSelection DEF LeaseInv, Selections
<1>. QED BY <1>1, <1>2, SchedulerAssumption
     DEF Idle, LeaseInv, LeaseMatchesRequest, SchedulerAssumption

LEMMA LoadedCandidates ==
  ASSUME TypeOK
  PROVE  /\ loaded.live \cup loaded.staged \subseteq loaded.keys
         /\ \A k \in loaded.keys : k \in Candidates /\ ChannelOf[k] \in loaded.channels
         /\ loaded.channels \subseteq Channels
BY ConfigsAssumption DEF TypeOK, ConfigsAssumption

(* What an exchange records falls on its channel and its candidate only.   *)
LEMMA RecordOutcomeElsewhere ==
  ASSUME TypeOK, NEW r \in Requests, NEW o, RecordOutcome(r, o)
  PROVE  /\ \A c \in Channels : c # sel[r].channel => chan'[c] = chan[c]
         /\ \A k \in Candidates : k # sel[r].key =>
              circuit'[k] = circuit[k] /\ (k \in misconfigured' <=> k \in misconfigured)
         /\ misconfigured' \subseteq misconfigured \cup {sel[r].key}
         /\ halfOpen' \subseteq halfOpen
BY DEF RecordOutcome, TypeOK

LEMMA WithinTraffic ==
  ASSUME LeaseInv, StateWithinConfig, Traffic
  PROVE  StateWithinConfig'
<1>. USE DEF LeaseInv
<1>1. ASSUME NEW r \in Requests, sel[r].source \in {"production", "manual-test"}
      PROVE  /\ Live(r)
             /\ sel[r].key \in loaded.keys
             /\ sel[r].channel \in loaded.channels
  <2>1. Live(r)
    BY <1>1, LiveSelection DEF Sources
  <2>2. sel[r].key \in loaded.keys
    BY <1>1, <2>1 DEF StateWithinConfig
  <2>3. ChannelOf[sel[r].key] = sel[r].channel
    BY <1>1, <2>1 DEF SelectionsConsistent
  <2>. QED BY <2>1, <2>2, <2>3, LoadedCandidates
<1>2. ASSUME NEW r \in Requests, Release(r), UNCHANGED loaded
      PROVE  \A q \in Requests :
               (Live(q) /\ sel[q].source # "model-sync" => sel[q].key \in loaded.keys)'
  BY <1>2 DEF StateWithinConfig, Release, Live, TypeOK
<1>3. ASSUME NEW r \in Requests, NEW selection \in Selections,
             Acquire(r, selection), UNCHANGED loaded,
             selection.source # "model-sync" => selection.key \in loaded.keys
      PROVE  \A q \in Requests :
               (Live(q) /\ sel[q].source # "model-sync" => sel[q].key \in loaded.keys)'
  BY <1>3 DEF StateWithinConfig, Acquire, Live, TypeOK
<1>4. ASSUME chan' = CooldownsCleared, UNCHANGED loaded
      PROVE  \A c \in Channels : (chan[c] # Unknown => c \in loaded.channels)'
  BY <1>4 DEF CooldownsCleared, StateWithinConfig
<1>5. ASSUME NEW r \in Requests, NEW o, RecordOutcome(r, o), UNCHANGED <<loaded, draining, suppressed>>,
             sel[r].key \in loaded.keys, sel[r].channel \in loaded.channels
      PROVE  /\ \A c \in Channels : (chan[c] # Unknown => c \in loaded.channels)'
             /\ \A k \in Candidates : (circuit[k] # FreshCircuit => k \in loaded.keys)'
             /\ (misconfigured \cup suppressed \cup halfOpen \subseteq loaded.keys)'
             /\ (draining \subseteq loaded.channels)'
  BY <1>5, RecordOutcomeElsewhere DEF StateWithinConfig
<1>6. ASSUME NEW r \in Requests, NEW pool \in Pools, Reserve(r, pool)
      PROVE  StateWithinConfig'
  <2>1. PICK k \in Selectable(pool) :
          LET trial == CircuitStatus(circuit[k]) = "half-open"
          IN  /\ Acquire(r, [source |-> "production", channel |-> ChannelOf[k],
                             key |-> k, trial |-> trial])
              /\ halfOpen' = IF trial THEN halfOpen \cup {k} ELSE halfOpen
    BY <1>6 DEF Reserve
  <2>. DEFINE selection == [source |-> "production", channel |-> ChannelOf[k], key |-> k,
                            trial |-> CircuitStatus(circuit[k]) = "half-open"]
  <2>2. k \in Candidates /\ ChannelOf[k] \in Channels /\ k \in loaded.keys
    BY SelectableCandidate, LoadedCandidates DEF Eligible
  <2>3. selection \in Selections /\ selection.key \in loaded.keys /\ Acquire(r, selection)
    BY <2>1, <2>2 DEF Selections, Sources
  <2>4. halfOpen' \subseteq halfOpen \cup {k}
    BY <2>1
  <2>. HIDE DEF selection
  <2>5. \A q \in Requests :
          (Live(q) /\ sel[q].source # "model-sync" => sel[q].key \in loaded.keys)'
    BY <1>3, <1>6, <2>3 DEF Reserve
  <2>. QED BY <1>4, <1>6, <2>2, <2>4, <2>5 DEF Reserve, StateWithinConfig
<1>7. ASSUME NEW pool \in Pools, ReserveRefused(pool)
      PROVE  StateWithinConfig'
  BY <1>4, <1>7 DEF ReserveRefused, StateWithinConfig, Live
<1>8. ASSUME NEW r \in Requests, NEW o \in ProductionAnswers, Answered(r, o)
      PROVE  StateWithinConfig'
  <2>1. sel[r].key \in loaded.keys /\ sel[r].channel \in loaded.channels
    BY <1>1, <1>8 DEF Answered
  <2>. QED BY <1>2, <1>5, <1>8, <2>1 DEF Answered, StateWithinConfig
<1>9. ASSUME NEW r \in Requests, Cancelled(r)
      PROVE  StateWithinConfig'
  BY <1>2, <1>9 DEF Cancelled, StateWithinConfig
<1>10. ASSUME NEW r \in Requests, NEW k \in Candidates, StartTest(r, k)
       PROVE  StateWithinConfig'
  <2>. DEFINE selection == [source |-> "manual-test", channel |-> ChannelOf[k],
                            key |-> k, trial |-> FALSE]
  <2>1. selection \in Selections /\ selection.key \in loaded.keys /\ Acquire(r, selection)
    BY <1>10, SchedulerAssumption, LoadedCandidates
    DEF StartTest, Selections, Sources, SchedulerAssumption
  <2>. HIDE DEF selection
  <2>. QED BY <1>3, <1>10, <2>1 DEF StartTest, StateWithinConfig
<1>11. ASSUME NEW r \in Requests, FinishTest(r)
       PROVE  StateWithinConfig'
  <2>1. sel[r].key \in loaded.keys /\ sel[r].channel \in loaded.channels
    BY <1>1, <1>11 DEF FinishTest
  <2>2. CASE \E o \in TestAnswers : RecordOutcome(r, o)
    BY <1>2, <1>5, <1>11, <2>1, <2>2 DEF FinishTest, StateWithinConfig
  <2>3. CASE UNCHANGED <<chan, circuit, misconfigured, halfOpen>>
    BY <1>2, <1>11, <2>3 DEF FinishTest, StateWithinConfig
  <2>. QED BY <1>11, <2>2, <2>3 DEF FinishTest
<1>12. ASSUME NEW r \in Requests, NEW c \in Channels, StartSync(r, c)
       PROVE  StateWithinConfig'
  <2>. DEFINE selection == [source |-> "model-sync", channel |-> c,
                            key |-> NoKey, trial |-> FALSE]
  <2>1. selection \in Selections /\ selection.source = "model-sync" /\ Acquire(r, selection)
    BY <1>12 DEF StartSync, Selections, Sources
  <2>. HIDE DEF selection
  <2>. QED BY <1>3, <1>12, <2>1 DEF StartSync, StateWithinConfig
<1>13. ASSUME NEW r \in Requests, FinishSync(r)
       PROVE  StateWithinConfig'
  BY <1>2, <1>13 DEF FinishSync, StateWithinConfig
<1>. QED BY <1>6, <1>7, <1>8, <1>9, <1>10, <1>11, <1>12, <1>13 DEF Traffic

LEMMA WithinStep ==
  ASSUME LeaseInv, StateWithinConfig, [Next]_vars
  PROVE  StateWithinConfig'
<1>1. ASSUME NEW next \in Configs, Reload(next)
      PROVE  StateWithinConfig'
  <2>1. \A r \in Requests : ~Live(r)'
    BY <1>1, IdleMeansNoSelection DEF Reload, Live
  <2>2. \A c \in Channels : chan'[c] # Unknown => c \in next.channels
    BY <1>1 DEF Reload, Kept
  <2>. QED BY <1>1, <2>1, <2>2 DEF Reload, StateWithinConfig
<1>2. ASSUME NEW c \in Channels, DrainChannel(c) \/ ResumeChannel(c) \/ ResetChannelHealth(c)
      PROVE  StateWithinConfig'
  BY <1>2 DEF DrainChannel, ResumeChannel, ResetChannelHealth, Unmoved, StateWithinConfig,
              Live, LeaseInv, TypeOK
<1>3. ASSUME NEW k \in Candidates, SuppressCandidate(k) \/ ResumeCandidate(k)
      PROVE  StateWithinConfig'
  BY <1>3 DEF SuppressCandidate, ResumeCandidate, Unmoved, StateWithinConfig, Live
<1>4. CASE DrainAll \/ ResumeAll
  BY <1>4 DEF DrainAll, ResumeAll, Unmoved, StateWithinConfig, Live
<1>5. CASE Tick
  <2>1. \A c \in Channels : chan[c] = Unknown => chan'[c] = Unknown
    BY <1>5 DEF Tick, Unknown
  <2>2. \A k \in Candidates : circuit[k] = FreshCircuit => circuit'[k] = FreshCircuit
    BY <1>5 DEF Tick, TickCircuit, FreshCircuit
  <2>. QED BY <1>5, <2>1, <2>2 DEF Tick, StateWithinConfig, Live
<1>6. ASSUME NEW k \in Candidates, EvidenceExpires(k)
      PROVE  StateWithinConfig'
  BY <1>6 DEF EvidenceExpires, StateWithinConfig, Live, LeaseInv, TypeOK
<1>7. CASE UNCHANGED vars
  BY <1>7 DEF vars, StateWithinConfig, Live
<1>. QED BY <1>1, <1>2, <1>3, <1>4, <1>5, <1>6, <1>7, WithinTraffic DEF Next, Control, Time

(* No outcome of an earlier configuration reaches the state of a later one *)
(* (SchedulerState, reload and the lease that reloadConfig waits for).     *)
THEOREM StateStaysWithinConfig == Spec => []StateWithinConfig
<1>1. Init => StateWithinConfig
  BY DEF Init, StateWithinConfig, Live
<1>2. LeaseInv /\ StateWithinConfig /\ [Next]_vars => StateWithinConfig'
  BY WithinStep
<1>. QED BY <1>1, <1>2, LeaseInit, LeaseStep, PTL DEF Spec

-----------------------------------------------------------------------------
(* What admitted a request still holds when it is answered.                *)

(* Only a cooling channel has a cooldown: every other health is written    *)
(* with none.                                                              *)
CooldownsAreCooling == \A c \in Channels : chan[c].health # "cooling" => chan[c].cooldown = 0

LEMMA CooldownsStep ==
  ASSUME LeaseInv, CooldownsAreCooling, [Next]_vars
  PROVE  CooldownsAreCooling'
<1>1. CASE chan' = CooldownsCleared
  BY <1>1 DEF CooldownsCleared, CooldownsAreCooling, Unknown
<1>2. ASSUME NEW r \in Requests, NEW o, RecordOutcome(r, o)
      PROVE  CooldownsAreCooling'
  <2>1. PICK retry \in RetryAfters :
          chan' = [chan EXCEPT ![sel[r].channel] = ChannelAfter(@, o, retry)]
    BY <1>2 DEF RecordOutcome
  <2>2. ASSUME NEW h, h.health # "cooling" => h.cooldown = 0,
               ChannelAfter(h, o, retry).health # "cooling"
        PROVE  ChannelAfter(h, o, retry).cooldown = 0
    BY <2>2 DEF ChannelAfter, Health
  <2>3. ASSUME NEW c \in Channels, chan'[c].health # "cooling"
        PROVE  chan'[c].cooldown = 0
    <3>1. CASE c = sel[r].channel
      <4>1. chan'[c] = ChannelAfter(chan[c], o, retry)
        BY <2>1, <3>1 DEF LeaseInv, TypeOK
      <4>. QED BY <2>2, <2>3, <4>1 DEF CooldownsAreCooling
    <3>2. CASE c # sel[r].channel
      BY <2>1, <2>3, <3>2 DEF LeaseInv, TypeOK, CooldownsAreCooling
    <3>. QED BY <3>1, <3>2
  <2>. QED BY <2>3 DEF CooldownsAreCooling
<1>3. CASE Tick
  BY <1>3 DEF Tick, CooldownsAreCooling, LeaseInv, TypeOK
<1>4. ASSUME NEW next \in Configs, Reload(next)
      PROVE  CooldownsAreCooling'
  BY <1>4 DEF Reload, CooldownsAreCooling, Unknown
<1>5. ASSUME NEW c \in Channels, ResetChannelHealth(c)
      PROVE  CooldownsAreCooling'
  BY <1>5 DEF ResetChannelHealth, CooldownsAreCooling, Unknown, LeaseInv, TypeOK
<1>6. CASE UNCHANGED chan
  BY <1>6 DEF CooldownsAreCooling
<1>7. CASE Traffic
  BY <1>1, <1>2, <1>6, <1>7
  DEF Traffic, Reserve, ReserveRefused, Answered, Cancelled, StartTest, FinishTest,
      StartSync, FinishSync
<1>8. CASE Control
  BY <1>4, <1>5, <1>6, <1>8
  DEF Control, DrainChannel, ResumeChannel, SuppressCandidate, ResumeCandidate, DrainAll,
      ResumeAll, Unmoved
<1>. QED BY <1>3, <1>6, <1>7, <1>8 DEF Next, Time, EvidenceExpires, vars

(* What a request r was admitted with, as one of the quantified parts of   *)
(* InFlightStaysTrusted.                                                   *)
Trusted(r) ==
  LET k == sel[r].key IN
  /\ k \in loaded.live
  /\ chan[sel[r].channel].health \notin Blocked
  /\ chan[sel[r].channel].cooldown = 0
  /\ k \notin misconfigured
  /\ CircuitStatus(circuit[k]) # "open"
  /\ CircuitStatus(circuit[k]) = "half-open" => sel[r].trial

InProduction(r) == Live(r) /\ sel[r].source = "production"

LEMMA TrustedMeans ==
  InFlightStaysTrusted <=> \A r \in Requests : InProduction(r) => Trusted(r)
BY DEF InFlightStaysTrusted, InProduction, Trusted

LEMMA InProductionSelection ==
  ASSUME LeaseInv, NEW r \in Requests, InProduction(r)
  PROVE  /\ sel[r].channel \in Channels /\ sel[r].key \in Candidates
         /\ ChannelOf[sel[r].key] = sel[r].channel
<1>1. sel[r] \in Selections
  BY LiveSelection DEF LeaseInv, InProduction
<1>2. sel[r].key # NoKey
  BY DEF LeaseInv, SelectionsConsistent, InProduction
<1>. QED BY <1>1, <1>2 DEF LeaseInv, SelectionsConsistent, InProduction, Selections

(* A request stays trusted while its selection and its configuration stay, *)
(* if its channel becomes at most unknown and its candidate stays as it is.*)
LEMMA TrustedFrame ==
  ASSUME NEW r \in Requests, Trusted(r), sel'[r] = sel[r], loaded' = loaded,
         chan'[sel[r].channel] = chan[sel[r].channel] \/ chan'[sel[r].channel] = Unknown,
         circuit'[sel[r].key] = circuit[sel[r].key],
         sel[r].key \in misconfigured' => sel[r].key \in misconfigured
  PROVE  Trusted(r)'
BY DEF Trusted, Unknown, Blocked

(* The outcome of one exchange leaves every other one trusted: they are on *)
(* other channels, so they have other candidates too.                      *)
LEMMA TrustedBeside ==
  ASSUME LeaseInv, InFlightStaysTrusted, NEW q \in Requests, Live(q), Release(q),
         UNCHANGED loaded,
         UNCHANGED <<chan, circuit, misconfigured>> \/ \E o : RecordOutcome(q, o)
  PROVE  InFlightStaysTrusted'
<1>1. SUFFICES ASSUME NEW r \in Requests, InProduction(r)'
               PROVE  Trusted(r)'
  BY DEF InFlightStaysTrusted, InProduction, Trusted
<1>2. r # q /\ sel'[r] = sel[r] /\ InProduction(r)
  BY <1>1 DEF Release, LeaseInv, TypeOK, InProduction, Live
<1>3. Trusted(r)
  BY <1>2, TrustedMeans
<1>4. /\ sel[r].channel \in Channels /\ sel[r].key \in Candidates
      /\ ChannelOf[sel[r].key] = sel[r].channel
  BY <1>2, InProductionSelection
<1>5. sel[q].channel # sel[r].channel
  BY <1>2, <1>4 DEF LeaseInv, LeaseMatchesRequest, InProduction
<1>6. sel[q].key # sel[r].key
  BY <1>4, <1>5, SchedulerAssumption
  DEF LeaseInv, SelectionsConsistent, SchedulerAssumption
<1>7. CASE UNCHANGED <<chan, circuit, misconfigured>>
  BY <1>2, <1>3, <1>7, TrustedFrame
<1>8. ASSUME NEW o, RecordOutcome(q, o)
      PROVE  Trusted(r)'
  <2>1. /\ chan'[sel[r].channel] = chan[sel[r].channel]
        /\ circuit'[sel[r].key] = circuit[sel[r].key]
        /\ sel[r].key \in misconfigured' => sel[r].key \in misconfigured
    BY <1>4, <1>5, <1>6, <1>8, RecordOutcomeElsewhere DEF LeaseInv
  <2>. QED BY <1>2, <1>3, <2>1, TrustedFrame
<1>. QED BY <1>7, <1>8

(* A lease for a test or a synchronisation, and a control operation, leave *)
(* what requests in flight rely on.                                        *)
LEMMA TrustedUnmoved ==
  ASSUME LeaseInv, InFlightStaysTrusted,
         UNCHANGED <<loaded, circuit, misconfigured>>,
         \A c \in Channels : chan'[c] = chan[c] \/ chan'[c] = Unknown,
         \A r \in Requests : InProduction(r)' => sel'[r] = sel[r]
  PROVE  InFlightStaysTrusted'
<1>1. SUFFICES ASSUME NEW r \in Requests, InProduction(r)'
               PROVE  Trusted(r)'
  BY DEF InFlightStaysTrusted, InProduction, Trusted
<1>2. sel'[r] = sel[r] /\ InProduction(r)
  BY <1>1 DEF InProduction, Live
<1>3. Trusted(r) /\ sel[r].channel \in Channels
  BY <1>2, TrustedMeans, InProductionSelection
<1>. QED BY <1>2, <1>3, TrustedFrame

LEMMA TrustedReserve ==
  ASSUME LeaseInv, CooldownsAreCooling, InFlightStaysTrusted,
         NEW q \in Requests, NEW pool \in Pools, Reserve(q, pool)
  PROVE  InFlightStaysTrusted'
<1>1. PICK k \in Selectable(pool) :
        Acquire(q, [source |-> "production", channel |-> ChannelOf[k], key |-> k,
                    trial |-> CircuitStatus(circuit[k]) = "half-open"])
  BY DEF Reserve
<1>2. SUFFICES ASSUME NEW r \in Requests, InProduction(r)'
               PROVE  Trusted(r)'
  BY DEF InFlightStaysTrusted, InProduction, Trusted
<1>3. CASE r = q
  <2>1. /\ sel'[r].channel = ChannelOf[k] /\ sel'[r].key = k
        /\ sel'[r].trial = (CircuitStatus(circuit[k]) = "half-open")
    BY <1>1, <1>3 DEF Acquire, LeaseInv, TypeOK
  <2>2. Eligible(k) /\ ChannelOf[k] \in Channels
    BY SelectableCandidate
  <2>3. chan'[ChannelOf[k]].health \notin Blocked /\ chan'[ChannelOf[k]].cooldown = 0
    BY <2>2 DEF Reserve, CooldownsCleared, Expired, Eligible, CooldownsAreCooling, Unknown, Blocked
  <2>4. /\ loaded' = loaded /\ misconfigured' = misconfigured /\ circuit' = circuit
        /\ k \in loaded.live /\ k \notin misconfigured /\ CircuitStatus(circuit[k]) # "open"
    BY <2>2 DEF Reserve, Eligible
  <2>5. CircuitStatus(circuit[k])' = CircuitStatus(circuit[k])
    BY <2>4 DEF CircuitStatus
  <2>. QED BY <2>1, <2>3, <2>4, <2>5 DEF Trusted
<1>4. CASE r # q
  <2>1. sel'[r] = sel[r] /\ InProduction(r)
    BY <1>1, <1>2, <1>4 DEF Acquire, LeaseInv, TypeOK, InProduction, Live
  <2>2. Trusted(r) /\ sel[r].channel \in Channels
    BY <2>1, TrustedMeans, InProductionSelection
  <2>. QED BY <2>1, <2>2, TrustedFrame DEF Reserve, CooldownsCleared
<1>. QED BY <1>3, <1>4

LEMMA TrustedTime ==
  ASSUME LeaseInv, InFlightStaysTrusted, Time
  PROVE  InFlightStaysTrusted'
<1>1. SUFFICES ASSUME NEW r \in Requests, InProduction(r)'
               PROVE  Trusted(r)'
  BY DEF InFlightStaysTrusted, InProduction, Trusted
<1>2. sel' = sel /\ loaded' = loaded /\ misconfigured' = misconfigured /\ InProduction(r)
  BY <1>1 DEF Time, Tick, EvidenceExpires, InProduction, Live
<1>3. /\ Trusted(r) /\ sel[r].channel \in Channels /\ sel[r].key \in Candidates
  BY <1>2, TrustedMeans, InProductionSelection
<1>4. CASE Tick
  <2>1. chan'[sel[r].channel] = chan[sel[r].channel]
    BY <1>3, <1>4 DEF Tick, Trusted, LeaseInv, TypeOK
  <2>2. circuit[sel[r].key] \in Circuits /\ circuit'[sel[r].key] = TickCircuit(circuit[sel[r].key])
    BY <1>3, <1>4 DEF Tick, LeaseInv, TypeOK
  <2>3. CircuitStatus(circuit'[sel[r].key]) = CircuitStatus(circuit[sel[r].key])
    BY <1>3, <2>2, CircuitAssumption
    DEF Trusted, CircuitStatus, TickCircuit, Circuits, CircuitAssumption
  <2>. QED BY <1>2, <1>3, <2>1, <2>3 DEF Trusted
<1>5. ASSUME NEW k \in Candidates, EvidenceExpires(k)
      PROVE  Trusted(r)'
  <2>1. CircuitStatus(circuit'[sel[r].key]) \in {CircuitStatus(circuit[sel[r].key]), "closed"}
    BY <1>3, <1>5 DEF EvidenceExpires, CircuitStatus, LeaseInv, TypeOK, Circuits
  <2>. QED BY <1>2, <1>3, <1>5, <2>1 DEF Trusted, EvidenceExpires
<1>. QED BY <1>4, <1>5 DEF Time

LEMMA TrustedStep ==
  ASSUME LeaseInv, CooldownsAreCooling, InFlightStaysTrusted, [Next]_vars
  PROVE  InFlightStaysTrusted'
<1>1. CASE Traffic
  <2>1. ASSUME NEW pool \in Pools, ReserveRefused(pool)
        PROVE  InFlightStaysTrusted'
    BY <2>1, TrustedUnmoved DEF ReserveRefused, CooldownsCleared
  <2>2. ASSUME NEW r \in Requests, NEW o \in ProductionAnswers, Answered(r, o)
        PROVE  InFlightStaysTrusted'
    <3>1. Live(r)
      BY <2>2, LiveSelection DEF Answered, Sources, LeaseInv
    <3>. QED BY <2>2, <3>1, TrustedBeside DEF Answered
  <2>3. ASSUME NEW r \in Requests, Cancelled(r) \/ FinishTest(r) \/ FinishSync(r)
        PROVE  InFlightStaysTrusted'
    <3>1. Live(r)
      BY <2>3, LiveSelection DEF Cancelled, FinishTest, FinishSync, Sources, LeaseInv
    <3>. QED BY <2>3, <3>1, TrustedBeside DEF Cancelled, FinishTest, FinishSync
  <2>4. ASSUME NEW r \in Requests, NEW selection \in Selections, selection.source # "production",
               Acquire(r, selection), UNCHANGED <<loaded, chan, circuit, misconfigured>>
        PROVE  InFlightStaysTrusted'
    <3>1. \A q \in Requests : InProduction(q)' => sel'[q] = sel[q]
      BY <2>4 DEF Acquire, InProduction, LeaseInv, TypeOK
    <3>. QED BY <2>4, <3>1, TrustedUnmoved
  <2>5. ASSUME NEW r \in Requests, NEW k \in Candidates, StartTest(r, k)
        PROVE  InFlightStaysTrusted'
    <3>. DEFINE selection == [source |-> "manual-test", channel |-> ChannelOf[k],
                              key |-> k, trial |-> FALSE]
    <3>1. selection \in Selections /\ selection.source # "production" /\ Acquire(r, selection)
      BY <2>5, SchedulerAssumption DEF StartTest, Selections, Sources, SchedulerAssumption
    <3>. HIDE DEF selection
    <3>. QED BY <2>4, <2>5, <3>1 DEF StartTest
  <2>6. ASSUME NEW r \in Requests, NEW c \in Channels, StartSync(r, c)
        PROVE  InFlightStaysTrusted'
    <3>. DEFINE selection == [source |-> "model-sync", channel |-> c,
                              key |-> NoKey, trial |-> FALSE]
    <3>1. selection \in Selections /\ selection.source # "production" /\ Acquire(r, selection)
      BY <2>6 DEF StartSync, Selections, Sources
    <3>. HIDE DEF selection
    <3>. QED BY <2>4, <2>6, <3>1 DEF StartSync
  <2>. QED BY <1>1, <2>1, <2>2, <2>3, <2>5, <2>6, TrustedReserve DEF Traffic
<1>2. CASE Control
  <2>1. ASSUME NEW next \in Configs, Reload(next)
        PROVE  InFlightStaysTrusted'
    BY <2>1, IdleMeansNoSelection DEF Reload, InFlightStaysTrusted, Live
  <2>2. ASSUME UNCHANGED <<loaded, sel, circuit, misconfigured>>,
               \A c \in Channels : chan'[c] = chan[c] \/ chan'[c] = Unknown
        PROVE  InFlightStaysTrusted'
    BY <2>2, TrustedUnmoved
  <2>. QED BY <1>2, <2>1, <2>2
       DEF Control, DrainChannel, ResumeChannel, ResetChannelHealth, SuppressCandidate,
           ResumeCandidate, DrainAll, ResumeAll, Unmoved, LeaseInv, TypeOK
<1>3. CASE UNCHANGED vars
  BY <1>3, TrustedUnmoved DEF vars
<1>. QED BY <1>1, <1>2, <1>3, TrustedTime DEF Next

(* Nothing that runs beside an exchange takes away what admitted it.       *)
THEOREM AdmissionStays == Spec => []InFlightStaysTrusted
<1>1. Init => CooldownsAreCooling /\ InFlightStaysTrusted
  BY DEF Init, CooldownsAreCooling, InFlightStaysTrusted, Live, Unknown
<1>2. LeaseInv /\ CooldownsAreCooling /\ InFlightStaysTrusted /\ [Next]_vars
        => (CooldownsAreCooling /\ InFlightStaysTrusted)'
  BY CooldownsStep, TrustedStep
<1>. QED BY <1>1, <1>2, LeaseInit, LeaseStep, PTL DEF Spec

-----------------------------------------------------------------------------
(* What lifts a block, a fault or an open circuit.  A request in flight is *)
(* trusted, so its own outcome finds none of the three, but for the trial  *)
(* of a half-open circuit.                                                 *)
LEMMA ReleasedIsNotLive ==
  ASSUME LeaseInv, NEW r \in Requests, Release(r)
  PROVE  ~Live(r)'
BY DEF Release, LeaseInv, TypeOK, Live

LEMMA FaultsStayInProduction ==
  ASSUME LeaseInv, InFlightStaysTrusted, NEW r \in Requests,
         NEW o \in ProductionAnswers, Answered(r, o)
  PROVE  BlocksStay /\ FaultsStay /\ CircuitsStay
<1>1. InProduction(r)
  BY LiveSelection DEF Answered, Sources, LeaseInv, InProduction
<1>2. /\ Trusted(r) /\ ~Live(r)'
      /\ sel[r].channel \in Channels /\ sel[r].key \in Candidates
  BY <1>1, TrustedMeans, InProductionSelection, ReleasedIsNotLive DEF Answered
<1>3. /\ \A c \in Channels : c # sel[r].channel => chan'[c] = chan[c]
      /\ \A k \in Candidates : k # sel[r].key =>
           circuit'[k] = circuit[k] /\ (k \in misconfigured' <=> k \in misconfigured)
  BY RecordOutcomeElsewhere DEF Answered, LeaseInv
<1>4. BlocksStay
  BY <1>2, <1>3 DEF BlocksStay, Trusted
<1>5. FaultsStay
  BY <1>2, <1>3 DEF FaultsStay, Trusted, LeaseInv, TypeOK
<1>6. CircuitsStay
  <2>1. SUFFICES ASSUME NEW k \in Candidates, CircuitStatus(circuit[k]) # "closed",
                        CircuitStatus(circuit'[k]) = "closed"
                 PROVE  TrialEnds(r) /\ sel[r].key = k
    BY DEF CircuitsStay
  <2>2. k = sel[r].key
    BY <1>3, <2>1
  <2>3. CircuitStatus(circuit[k]) = "half-open"
    BY <1>2, <2>1, <2>2 DEF Trusted, CircuitStatus
  <2>. QED BY <1>1, <1>2, <2>2, <2>3 DEF Trusted, TrialEnds, InProduction
<1>. QED BY <1>4, <1>5, <1>6

LEMMA FaultsStayInTests ==
  ASSUME LeaseInv, NEW r \in Requests, FinishTest(r)
  PROVE  BlocksStay /\ FaultsStay /\ CircuitsStay
<1>1. TestEnds(r)
  BY LiveSelection, ReleasedIsNotLive DEF FinishTest, Sources, LeaseInv, TestEnds
<1>2. CASE UNCHANGED <<chan, circuit, misconfigured>>
  BY <1>2 DEF BlocksStay, FaultsStay, CircuitsStay
<1>3. ASSUME NEW o \in TestAnswers, RecordOutcome(r, o)
      PROVE  BlocksStay /\ FaultsStay /\ CircuitsStay
  <2>1. /\ \A c \in Channels : c # sel[r].channel => chan'[c] = chan[c]
        /\ \A k \in Candidates : k # sel[r].key =>
             circuit'[k] = circuit[k] /\ (k \in misconfigured' <=> k \in misconfigured)
    BY <1>3, RecordOutcomeElsewhere DEF LeaseInv
  <2>2. BlocksStay
    BY <1>1, <2>1 DEF BlocksStay
  <2>3. FaultsStay
    BY <1>1, <2>1 DEF FaultsStay, LeaseInv, TypeOK
  <2>4. CircuitsStay
    BY <1>1, <2>1 DEF CircuitsStay
  <2>. QED BY <2>2, <2>3, <2>4
<1>. QED BY <1>2, <1>3 DEF FinishTest

(* A reload keeps all three of what stays in the same release under the    *)
(* same key.                                                               *)
LEMMA FaultsStayInReload ==
  ASSUME LeaseInv, NEW next \in Configs, Reload(next)
  PROVE  BlocksStay /\ FaultsStay /\ CircuitsStay
<1>1. BlocksStay
  <2>1. SUFFICES ASSUME NEW c \in Channels, chan[c].health \in Blocked,
                        chan'[c].health \notin Blocked, ~OtherKey(c)
                 PROVE  FALSE
    BY DEF BlocksStay
  <2>2. Kept(next, c)
    BY <2>1 DEF Reload, OtherKey, Kept, Expired, Blocked
  <2>. QED BY <2>1, <2>2 DEF Reload, Blocked
<1>2. FaultsStay
  BY DEF FaultsStay, OtherRelease, Reload, LeaseInv, TypeOK
<1>3. CircuitsStay
  BY DEF CircuitsStay, OtherRelease, Reload, CircuitStatus
<1>. QED BY <1>1, <1>2, <1>3

LEMMA FaultsStayInTime ==
  ASSUME LeaseInv, Time
  PROVE  BlocksStay /\ FaultsStay /\ CircuitsStay
<1>1. CASE Tick
  <2>1. BlocksStay /\ FaultsStay
    BY <1>1 DEF Tick, BlocksStay, FaultsStay, LeaseInv, TypeOK
  <2>2. CircuitsStay
    BY <1>1 DEF Tick, CircuitsStay, CircuitStatus, TickCircuit, LeaseInv, TypeOK, Circuits
  <2>. QED BY <2>1, <2>2
<1>2. ASSUME NEW k \in Candidates, EvidenceExpires(k)
      PROVE  BlocksStay /\ FaultsStay /\ CircuitsStay
  <2>1. BlocksStay /\ FaultsStay
    BY <1>2 DEF EvidenceExpires, BlocksStay, FaultsStay
  <2>2. \A j \in Candidates : j # k => circuit'[j] = circuit[j]
    BY <1>2 DEF EvidenceExpires, LeaseInv, TypeOK
  <2>3. CircuitsStay
    BY <1>2, <2>2 DEF CircuitsStay
  <2>. QED BY <2>1, <2>3
<1>. QED BY <1>1, <1>2 DEF Time

LEMMA FaultsStayInStep ==
  ASSUME LeaseInv, InFlightStaysTrusted, [Next]_vars
  PROVE  BlocksStay /\ FaultsStay /\ CircuitsStay
<1>1. CASE UNCHANGED <<circuit, misconfigured>>
      /\ \A c \in Channels : chan'[c] = chan[c] \/ (Expired(c) /\ chan'[c] = Unknown)
  <2>1. BlocksStay
    BY <1>1 DEF BlocksStay, Expired, Blocked
  <2>. QED BY <1>1, <2>1 DEF FaultsStay, CircuitsStay
<1>2. CASE Traffic
  BY <1>1, <1>2, FaultsStayInProduction, FaultsStayInTests
  DEF Traffic, Reserve, ReserveRefused, Cancelled, StartTest, StartSync, FinishSync,
      CooldownsCleared
<1>3. ASSUME NEW c \in Channels, ResetChannelHealth(c)
      PROVE  BlocksStay /\ FaultsStay /\ CircuitsStay
  <2>1. BlocksStay
    BY <1>3 DEF ResetChannelHealth, BlocksStay, LeaseInv, TypeOK
  <2>. QED BY <1>3, <2>1 DEF ResetChannelHealth, Unmoved, FaultsStay, CircuitsStay
<1>4. CASE Control
  BY <1>1, <1>3, <1>4, FaultsStayInReload
  DEF Control, DrainChannel, ResumeChannel, SuppressCandidate, ResumeCandidate, DrainAll,
      ResumeAll, Unmoved
<1>5. CASE UNCHANGED vars
  BY <1>1, <1>5 DEF vars
<1>. QED BY <1>2, <1>4, <1>5, FaultsStayInTime DEF Next

(* Traffic never talks away a block, a fault or an open circuit; only the  *)
(* trial, a test, a reset, a new release, a new key or expiry does         *)
(* (recordOutcome of scheduler.mjs for every caller).                      *)
THEOREM FaultsStayKnown == Spec => FaultsStayUntilCleared
<1>1. Init => CooldownsAreCooling /\ InFlightStaysTrusted
  BY DEF Init, CooldownsAreCooling, InFlightStaysTrusted, Live, Unknown
<1>2. LeaseInv /\ CooldownsAreCooling /\ InFlightStaysTrusted /\ [Next]_vars
        => (CooldownsAreCooling /\ InFlightStaysTrusted)'
  BY CooldownsStep, TrustedStep
<1>3. LeaseInv /\ InFlightStaysTrusted /\ [Next]_vars
        => [BlocksStay /\ FaultsStay /\ CircuitsStay]_vars
  BY FaultsStayInStep
<1>. QED BY <1>1, <1>2, <1>3, LeaseInit, LeaseStep, PTL DEF Spec, FaultsStayUntilCleared
=============================================================================
