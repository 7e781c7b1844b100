----------------------------- MODULE Scheduler -----------------------------
(***************************************************************************)
(* Channel scheduling in the gateway process: src/scheduler.mjs with its   *)
(* three callers in src/control-gateway.mjs -- production requests,        *)
(* administrator tests and model synchronisation -- and the operations the *)
(* control jobs apply to a running scheduler.                              *)
(*                                                                         *)
(* JavaScript runs one callback at a time, so one action is one callback:  *)
(* everything between two awaits.                                          *)
(***************************************************************************)
EXTENDS Circuit, FiniteSets

CONSTANTS
  Channels,     (* channel ids                                             *)
  Candidates,   (* candidate keys: channel \0 upstream model \0 protocol   *)
  ChannelOf,    (* the channel of a candidate                              *)
  Pools,        (* what a resolved model can leave of its candidates after *)
                (* the access, kind and streaming filters: the operator    *)
                (* priority of each candidate left                         *)
  Configs,      (* validated configurations a reload may install           *)
  Requests,     (* slots for requests in flight                            *)
  Statuses,     (* classes of upstream status codes that can be answered   *)
  RetryAfters,  (* cooldowns, in ticks, a 429 can ask for                  *)
  Free,         (* no reservation on a channel                             *)
  NoKey         (* the candidate of a lease that is not for a candidate    *)

StatusClasses == {"2xx", "auth", "payment", "429", "4xx", "5xx", "other"}

ASSUME SchedulerAssumption ==
  /\ ChannelOf \in [Candidates -> Channels]
  /\ \A pool \in Pools : DOMAIN pool \subseteq Candidates /\ pool \in [DOMAIN pool -> Int]
  /\ Free \notin Requests
  /\ NoKey \notin Candidates
  /\ Statuses \subseteq StatusClasses
  /\ RetryAfters \subseteq Nat

(* A configuration as the scheduler sees it.  `keys' are all candidates of *)
(* the catalog, `live' those of enabled channels and models, `staged'      *)
(* those only a test may use; `digest' names the release it generates.     *)
ASSUME ConfigsAssumption ==
  \A g \in Configs :
    /\ g.channels \subseteq Channels
    /\ g.keys \subseteq {k \in Candidates : ChannelOf[k] \in g.channels}
    /\ g.live \subseteq g.keys
    /\ g.staged \subseteq g.keys

VARIABLES
  loaded,       \* the configuration of the running process
  active,       \* ChannelReservations: channel -> request holding its lease
  sel,          \* request -> its selection
  chan,         \* channelState
  circuit,      \* candidateState: evidence
  misconfigured,\* candidateState: candidates whose health is misconfigured
  draining,     \* drainingChannels
  suppressed,   \* suppressedCandidates
  halfOpen      \* halfOpenCandidates

vars == <<loaded, active, sel, chan, circuit, misconfigured, draining,
          suppressed, halfOpen>>

-----------------------------------------------------------------------------
(* Selections and health records.                                          *)

Sources == {"production", "manual-test", "model-sync"}
Selections ==
  [source : Sources, channel : Channels, key : Candidates \cup {NoKey}, trial : BOOLEAN]
NoSelection == [source |-> "none"]

Live(r) == sel[r] # NoSelection
Idle == \A c \in Channels : active[c] = Free

Blocked == {"auth-failed", "payment-blocked"}
Healths == {"unknown", "healthy", "degraded", "cooling"} \cup Blocked
Unknown == [health |-> "unknown", cooldown |-> 0]
Health(h) == [health |-> h, cooldown |-> 0]

(* Observations: an answer read to its end, one cut short after its status *)
(* line, no answer at all, and a test answer without usable content.       *)
Complete(s) == [status |-> s, kind |-> IF s = "2xx" THEN "success" ELSE "http-failure"]
CutShort(s) == [status |-> s, kind |-> "transport-failure"]
NoAnswer    == [status |-> "none", kind |-> "transport-failure"]
NoContent   == [status |-> "none", kind |-> "http-failure"]
ProductionAnswers ==
  {Complete(s) : s \in Statuses} \cup {CutShort(s) : s \in Statuses} \cup {NoAnswer}
TestAnswers ==
  {Complete(s) : s \in Statuses} \cup {NoAnswer, NoContent}
Transient(o) == o.kind = "transport-failure" \/ o.status = "5xx"

-----------------------------------------------------------------------------
(* Selection.                                                              *)

(* clearExpiredCooldowns: every reserve forgets the cooldowns that ended.  *)
Expired(c) == chan[c].health = "cooling" /\ chan[c].cooldown = 0
CooldownsCleared == [c \in Channels |-> IF Expired(c) THEN Unknown ELSE chan[c]]

(* Mutant: draining is checked for tests only.                             *)
EligibleWhileDraining(k) ==
  /\ k \in loaded.live \ (suppressed \cup misconfigured)
  /\ chan[ChannelOf[k]].health \notin Blocked
  /\ chan[ChannelOf[k]].health = "cooling" => chan[ChannelOf[k]].cooldown = 0
  /\ CircuitStatus(circuit[k]) # "open"
  /\ ~(CircuitStatus(circuit[k]) = "half-open" /\ k \in halfOpen)

(* Mutant: the cooldown of a rate-limited channel is ignored.              *)
EligibleWhileCooling(k) ==
  /\ k \in loaded.live \ (suppressed \cup misconfigured)
  /\ ChannelOf[k] \notin draining
  /\ chan[ChannelOf[k]].health \notin Blocked
  /\ CircuitStatus(circuit[k]) # "open"
  /\ ~(CircuitStatus(circuit[k]) = "half-open" /\ k \in halfOpen)

(* Mutant: a blocked channel is offered to requests again.                 *)
EligibleThoughBlocked(k) ==
  /\ k \in loaded.live \ (suppressed \cup misconfigured)
  /\ ChannelOf[k] \notin draining
  /\ chan[ChannelOf[k]].health = "cooling" => chan[ChannelOf[k]].cooldown = 0
  /\ CircuitStatus(circuit[k]) # "open"
  /\ ~(CircuitStatus(circuit[k]) = "half-open" /\ k \in halfOpen)

(* isEligible                                                              *)
Eligible(k) ==
  /\ k \in loaded.live
  /\ ChannelOf[k] \notin draining
  /\ k \notin suppressed
  /\ chan[ChannelOf[k]].health \notin Blocked
  /\ chan[ChannelOf[k]].health = "cooling" => chan[ChannelOf[k]].cooldown = 0
  /\ k \notin misconfigured
  /\ CircuitStatus(circuit[k]) # "open"
  /\ ~(CircuitStatus(circuit[k]) = "half-open" /\ k \in halfOpen)

HealthRank(h) == IF h = "healthy" THEN 0 ELSE IF h = "unknown" THEN 1 ELSE 2

(* Health rank, then operator priority; evidence and names break what ties *)
(* are left, so any of the tied candidates may come first.                 *)
Precedes(k, j, pool) ==
  LET rank(x) == HealthRank(CooldownsCleared[ChannelOf[x]].health)
  IN  \/ rank(k) < rank(j)
      \/ rank(k) = rank(j) /\ pool[k] > pool[j]

(* The loop over the ordered candidates takes the first with a free lease. *)
Available(pool) == {k \in DOMAIN pool : Eligible(k) /\ active[ChannelOf[k]] = Free}
Selectable(pool) ==
  {k \in Available(pool) : \A j \in Available(pool) : ~Precedes(j, k, pool)}

(* Mutant: a busy channel is handed out again.                             *)
AcquireBusy(r, selection) ==
  /\ ~Live(r)
  /\ active' = [active EXCEPT ![selection.channel] = r]
  /\ sel' = [sel EXCEPT ![r] = selection]

(* tryAcquire: a busy channel is refused, nothing waits for it.            *)
Acquire(r, selection) ==
  /\ ~Live(r)
  /\ active[selection.channel] = Free
  /\ active' = [active EXCEPT ![selection.channel] = r]
  /\ sel' = [sel EXCEPT ![r] = selection]

(* Release: the lease is given back only by the holder of its token.       *)
Release(r) ==
  /\ active' = [c \in Channels |-> IF active[c] = r THEN Free ELSE active[c]]
  /\ sel' = [sel EXCEPT ![r] = NoSelection]

-----------------------------------------------------------------------------
(* recordOutcome.                                                          *)

ChannelAfter(previous, o, retry) ==
  CASE o.status = "2xx"     -> Health("healthy")
    [] o.status = "auth"    -> Health("auth-failed")
    [] o.status = "payment" -> Health("payment-blocked")
    [] o.status = "429"     -> [health |-> "cooling", cooldown |-> retry]
    [] o.status = "4xx"     -> previous
    [] o.status = "5xx"     -> Health("degraded")
    [] OTHER                -> IF o.kind = "transport-failure"
                               THEN Health("degraded") ELSE previous

RecordOutcome(r, o) ==
  LET k == sel[r].key
      c == sel[r].channel
  IN  /\ \E retry \in RetryAfters :
           chan' = [chan EXCEPT ![c] = ChannelAfter(@, o, retry)]
      /\ circuit' = [circuit EXCEPT ![k] = ObserveCircuit(@, o.kind = "success", Transient(o))]
      /\ misconfigured' = CASE o.status = "2xx" -> misconfigured \ {k}
                            [] o.status = "4xx" -> misconfigured \cup {k}
                            [] OTHER            -> misconfigured
      /\ halfOpen' = halfOpen \ {k}

-----------------------------------------------------------------------------
(* Production requests.                                                    *)

Reserve(r, pool) ==
  /\ \E k \in Selectable(pool) :
       LET trial == CircuitStatus(circuit[k]) = "half-open"
       IN  /\ Acquire(r, [source |-> "production", channel |-> ChannelOf[k],
                          key |-> k, trial |-> trial])
           /\ halfOpen' = IF trial THEN halfOpen \cup {k} ELSE halfOpen
  /\ chan' = CooldownsCleared
  /\ UNCHANGED <<loaded, circuit, misconfigured, draining, suppressed>>

(* 503 no_eligible_candidates or 429 all_candidates_busy.                  *)
ReserveRefused(pool) ==
  /\ Available(pool) = {}
  /\ chan' = CooldownsCleared
  /\ UNCHANGED <<loaded, active, sel, circuit, misconfigured, draining, suppressed, halfOpen>>

(* finish(): the first terminal event of the upstream request.             *)
Answered(r, o) ==
  /\ sel[r].source = "production"
  /\ RecordOutcome(r, o)
  /\ Release(r)
  /\ UNCHANGED <<loaded, draining, suppressed>>

(* Mutant: a cancelled trial keeps its half-open token.                    *)
CancelledKeepingToken(r) ==
  /\ sel[r].source = "production"
  /\ Release(r)
  /\ UNCHANGED <<loaded, chan, circuit, misconfigured, draining, suppressed, halfOpen>>

(* finish('cancelled'): the client closes the connection first.            *)
Cancelled(r) ==
  /\ sel[r].source = "production"
  /\ Release(r)
  /\ halfOpen' = halfOpen \ {sel[r].key}
  /\ UNCHANGED <<loaded, chan, circuit, misconfigured, draining, suppressed>>

-----------------------------------------------------------------------------
(* Administrator tests and model synchronisation share the channel lease.  *)

StartTest(r, k) ==
  /\ k \in loaded.live \cup loaded.staged
  /\ ChannelOf[k] \notin draining
  /\ k \notin suppressed
  /\ ~(chan[ChannelOf[k]].health = "cooling" /\ chan[ChannelOf[k]].cooldown > 0)
  /\ Acquire(r, [source |-> "manual-test", channel |-> ChannelOf[k],
                 key |-> k, trial |-> FALSE])
  /\ UNCHANGED <<loaded, chan, circuit, misconfigured, draining, suppressed, halfOpen>>

(* The outcome counts only if the test used the configured protocol.       *)
FinishTest(r) ==
  /\ sel[r].source = "manual-test"
  /\ \/ \E o \in TestAnswers : RecordOutcome(r, o)
     \/ UNCHANGED <<chan, circuit, misconfigured, halfOpen>>
  /\ Release(r)
  /\ UNCHANGED <<loaded, draining, suppressed>>

(* withSchedulerChannelLease: the channel need not be loaded yet.          *)
StartSync(r, c) ==
  /\ Acquire(r, [source |-> "model-sync", channel |-> c, key |-> NoKey, trial |-> FALSE])
  /\ UNCHANGED <<loaded, chan, circuit, misconfigured, draining, suppressed, halfOpen>>

FinishSync(r) ==
  /\ sel[r].source = "model-sync"
  /\ Release(r)
  /\ UNCHANGED <<loaded, chan, circuit, misconfigured, draining, suppressed, halfOpen>>

-----------------------------------------------------------------------------
(* What control jobs do to the scheduler.                                  *)

Unmoved == UNCHANGED <<loaded, active, sel, circuit, misconfigured, halfOpen>>

DrainChannel(c) ==
  /\ c \in loaded.channels
  /\ draining' = draining \cup {c}
  /\ UNCHANGED <<chan, suppressed>> /\ Unmoved

ResumeChannel(c) ==
  /\ draining' = draining \ {c}
  /\ UNCHANGED <<chan, suppressed>> /\ Unmoved

DrainAll ==
  /\ draining' = draining \cup loaded.channels
  /\ UNCHANGED <<chan, suppressed>> /\ Unmoved

ResumeAll ==
  /\ draining' = {}
  /\ UNCHANGED <<chan, suppressed>> /\ Unmoved

SuppressCandidate(k) ==
  /\ k \in loaded.keys
  /\ suppressed' = suppressed \cup {k}
  /\ UNCHANGED <<chan, draining>> /\ Unmoved

ResumeCandidate(k) ==
  /\ k \in loaded.keys
  /\ suppressed' = suppressed \ {k}
  /\ UNCHANGED <<chan, draining>> /\ Unmoved

ResetChannelHealth(c) ==
  /\ c \in loaded.channels
  /\ chan' = [chan EXCEPT ![c] = Unknown]
  /\ UNCHANGED <<draining, suppressed>> /\ Unmoved

(* reloadConfig: controlState.reconfigure keeps the state of the same      *)
(* release, without what expired; a replaced key clears its channel.       *)
Kept(next, c) ==
  /\ next.digest = loaded.digest
  /\ c \in next.channels
  /\ c \in loaded.channels => next.secret[c] = loaded.secret[c]
  /\ ~Expired(c)

(* Mutant: routing is reloaded under requests in flight.                   *)
ReloadUnderLoad(next) ==
  /\ loaded' = next
  /\ chan' = [c \in Channels |-> IF Kept(next, c) THEN chan[c] ELSE Unknown]
  /\ circuit' = [k \in Candidates |->
       IF next.digest = loaded.digest /\ k \in next.keys THEN circuit[k] ELSE FreshCircuit]
  /\ misconfigured' = IF next.digest = loaded.digest THEN misconfigured \cap next.keys ELSE {}
  /\ draining' = {} /\ suppressed' = {} /\ halfOpen' = {}
  /\ UNCHANGED <<active, sel>>

Reload(next) ==
  /\ Idle
  /\ loaded' = next
  /\ \E old \in SUBSET {c \in Channels : chan[c].health \in {"healthy", "degraded"}} :
       chan' = [c \in Channels |-> IF Kept(next, c) /\ c \notin old THEN chan[c] ELSE Unknown]
  /\ circuit' = [k \in Candidates |->
       IF next.digest = loaded.digest /\ k \in next.keys /\ ~circuit[k].stale
       THEN circuit[k] ELSE FreshCircuit]
  /\ misconfigured' = IF next.digest = loaded.digest THEN misconfigured \cap next.keys ELSE {}
  /\ draining' = {} /\ suppressed' = {} /\ halfOpen' = {}
  /\ UNCHANGED <<active, sel>>

-----------------------------------------------------------------------------
(* Time.                                                                   *)

Tick ==
  /\ chan' = [c \in Channels |->
       [chan[c] EXCEPT !.cooldown = IF @ > 0 THEN @ - 1 ELSE 0]]
  /\ circuit' = [k \in Candidates |-> TickCircuit(circuit[k])]
  /\ UNCHANGED <<loaded, active, sel, misconfigured, draining, suppressed, halfOpen>>

(* EVIDENCE_TTL_MS pass without an outcome; every cooldown is shorter.     *)
EvidenceExpires(k) ==
  /\ circuit[k] # FreshCircuit
  /\ circuit[k].cooldown = 0
  /\ circuit' = [circuit EXCEPT ![k].stale = TRUE]
  /\ UNCHANGED <<loaded, active, sel, chan, misconfigured, draining, suppressed, halfOpen>>

-----------------------------------------------------------------------------
Init ==
  /\ loaded \in Configs
  /\ active = [c \in Channels |-> Free]
  /\ sel = [r \in Requests |-> NoSelection]
  /\ chan = [c \in Channels |-> Unknown]
  /\ circuit = [k \in Candidates |-> FreshCircuit]
  /\ misconfigured = {} /\ draining = {} /\ suppressed = {} /\ halfOpen = {}

Traffic ==
  \/ \E r \in Requests, pool \in Pools : Reserve(r, pool)
  \/ \E pool \in Pools : ReserveRefused(pool)
  \/ \E r \in Requests, o \in ProductionAnswers : Answered(r, o)
  \/ \E r \in Requests : Cancelled(r)
  \/ \E r \in Requests, k \in Candidates : StartTest(r, k)
  \/ \E r \in Requests : FinishTest(r)
  \/ \E r \in Requests, c \in Channels : StartSync(r, c)
  \/ \E r \in Requests : FinishSync(r)

Control ==
  \/ \E c \in Channels : DrainChannel(c) \/ ResumeChannel(c) \/ ResetChannelHealth(c)
  \/ \E k \in Candidates : SuppressCandidate(k) \/ ResumeCandidate(k)
  \/ DrainAll \/ ResumeAll
  \/ \E next \in Configs : Reload(next)

Time == Tick \/ \E k \in Candidates : EvidenceExpires(k)

Next == Traffic \/ Control \/ Time

Spec == Init /\ [][Next]_vars

(* Every upstream exchange ends: the request's idle timeout, its error and *)
(* close events and the client's close all reach finish(); tests and model *)
(* synchronisation carry their own deadlines and release in `finally'.     *)
(* Nothing obliges a client to send a request or the operator to resume.   *)
Ends(r) ==
  \/ \E o \in ProductionAnswers : Answered(r, o)
  \/ Cancelled(r)
  \/ FinishTest(r)
  \/ FinishSync(r)

FairSpec == Spec /\ \A r \in Requests : WF_vars(Ends(r))

-----------------------------------------------------------------------------
(* Properties.                                                             *)

(* Types of the whole state.                                               *)
TypeOK ==
  /\ loaded \in Configs
  /\ active \in [Channels -> Requests \cup {Free}]
  /\ sel \in [Requests -> Selections \cup {NoSelection}]
  /\ chan \in [Channels -> [health : Healths, cooldown : Nat]]
  /\ circuit \in [Candidates -> Circuits]
  /\ misconfigured \subseteq Candidates
  /\ draining \subseteq Channels
  /\ suppressed \subseteq Candidates
  /\ halfOpen \subseteq Candidates

(* A channel serves at most one exchange, whichever of the three callers   *)
(* holds it, and no lease outlives its request or is lost before it: the   *)
(* reservation map and the selections in flight say the same thing.        *)
LeaseMatchesRequest ==
  \A r \in Requests, c \in Channels :
    active[c] = r <=> Live(r) /\ sel[r].channel = c

(* A half-open token is never stranded: while it is taken, a production    *)
(* request that was admitted as the trial still holds the channel's lease; *)
(* and a trial in flight still has its token.                              *)
HalfOpenBackedByLease ==
  /\ \A k \in halfOpen :
       \E r \in Requests : active[ChannelOf[k]] = r /\ sel[r].key = k /\ sel[r].trial
  /\ \A r \in Requests : Live(r) /\ sel[r].trial => sel[r].key \in halfOpen

(* No outcome of an earlier configuration reaches the state of a later     *)
(* one: what is remembered, and every exchange that will be recorded,      *)
(* belongs to the loaded configuration.                                    *)
StateWithinConfig ==
  /\ \A c \in Channels : chan[c] # Unknown => c \in loaded.channels
  /\ \A k \in Candidates : circuit[k] # FreshCircuit => k \in loaded.keys
  /\ misconfigured \cup suppressed \cup halfOpen \subseteq loaded.keys
  /\ draining \subseteq loaded.channels
  /\ \A r \in Requests :
       Live(r) /\ sel[r].source # "model-sync" => sel[r].key \in loaded.keys

(* What admitted a production request still holds when its outcome is      *)
(* recorded: nothing that runs beside it blocks its channel, faults its    *)
(* candidate, opens its circuit or makes a second trial of it.             *)
InFlightStaysTrusted ==
  \A r \in Requests : Live(r) /\ sel[r].source = "production" =>
    LET k == sel[r].key IN
    /\ k \in loaded.live
    /\ chan[sel[r].channel].health \notin Blocked
    /\ chan[sel[r].channel].cooldown = 0
    /\ k \notin misconfigured
    /\ CircuitStatus(circuit[k]) # "open"
    /\ CircuitStatus(circuit[k]) = "half-open" => sel[r].trial

(* A block, a fault or an open circuit is not talked away by traffic: only *)
(* the trial of that circuit, a manual test, the administrator's reset, a  *)
(* new release or a replaced key lifts it, or time, which lets evidence    *)
(* expire.  An exchange that was admitted before the fault was found does  *)
(* not, however late it succeeds.                                          *)
TestEnds(r) == Live(r) /\ sel[r].source = "manual-test" /\ ~Live(r)'
TrialEnds(r) == Live(r) /\ sel[r].trial /\ ~Live(r)'
OtherRelease(k) == loaded'.digest # loaded.digest \/ k \notin loaded'.keys
OtherKey(c) ==
  \/ loaded'.digest # loaded.digest
  \/ c \notin loaded'.channels
  \/ loaded'.secret[c] # loaded.secret[c]

BlocksStay ==
  \A c \in Channels :
    chan[c].health \in Blocked /\ chan'[c].health \notin Blocked =>
      \/ ResetChannelHealth(c)
      \/ \E r \in Requests : TestEnds(r) /\ sel[r].channel = c
      \/ OtherKey(c)

FaultsStay ==
  \A k \in misconfigured \ misconfigured' :
    (\E r \in Requests : TestEnds(r) /\ sel[r].key = k) \/ OtherRelease(k)

CircuitsStay ==
  \A k \in Candidates :
    CircuitStatus(circuit[k]) # "closed" /\ CircuitStatus(circuit'[k]) = "closed" =>
      \/ \E r \in Requests : (TestEnds(r) \/ TrialEnds(r)) /\ sel[r].key = k
      \/ EvidenceExpires(k)
      \/ OtherRelease(k)

FaultsStayUntilCleared == [][BlocksStay /\ FaultsStay /\ CircuitsStay]_vars

(* A trial ends and gives its token back, however the upstream behaves.    *)
HalfOpenTrialEnds == \A k \in Candidates : k \in halfOpen ~> k \notin halfOpen

(* A channel that stays drained is left alone: in the end neither requests *)
(* nor tests run on it.                                                    *)
DrainQuiesces ==
  \A c \in Channels :
    <>[](c \in draining) =>
      <>[](\A r \in Requests : Live(r) /\ sel[r].channel = c => sel[r].source = "model-sync")
=============================================================================
