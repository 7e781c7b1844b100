---------------------------- MODULE ControlState ----------------------------
(***************************************************************************)
(* What the gateway remembers of its channels beyond its own life:         *)
(* src/control-state.mjs keeps a copy of the scheduler's records and       *)
(* writes it to runtime/control-state.json whenever the scheduler says     *)
(* they changed.  Every step is a step of Scheduler with what the copy     *)
(* and the file make of it, except reloads, which take the copy, and       *)
(* restarts, which take the file.                                          *)
(*                                                                         *)
(* The limit on remembered tests is left out.  How long ago a channel was  *)
(* seen healthy or degraded is left open, as in Scheduler.                 *)
(***************************************************************************)
EXTENDS Scheduler

CONSTANTS
  Missing,  (* there is no file                                            *)
  Damaged   (* the file does not parse                                     *)

(* What can be remembered of channels and candidates, and what            *)
(* control-state.json can hold.                                            *)
Records ==
  [chan : [Channels -> [health : Healths, cooldown : Nat]],
   circuit : [Candidates -> Circuits],
   misconfigured : SUBSET Candidates]

Contents ==
  [digest : {g.digest : g \in Configs}, records : Records, tests : SUBSET Candidates]

ASSUME StorageAssumption ==
  Missing # Damaged /\ Missing \notin Contents /\ Damaged \notin Contents

VARIABLES
  state,    \* state: a copy of the records, and the tests remembered
  file,     \* control-state.json
  storage   \* writable

store == <<state, file, storage>>
stateVars == <<vars, store>>

Nothing == [chan |-> [c \in Channels |-> Unknown],
            circuit |-> [k \in Candidates |-> FreshCircuit],
            misconfigured |-> {}]

-----------------------------------------------------------------------------
(* normalizeChannels and normalizeCandidates: what is known of the         *)
(* channels and candidates of a configuration and did not expire.          *)
Aged(records) == SUBSET {c \in Channels : records.chan[c].health \in {"healthy", "degraded"}}
Cooled(channel) == channel.health = "cooling" /\ channel.cooldown = 0

Normal(records, config, old) ==
  [chan |-> [c \in Channels |->
     IF c \in config.channels \ old /\ ~Cooled(records.chan[c]) THEN records.chan[c] ELSE Unknown],
   circuit |-> [k \in Candidates |->
     IF k \in config.keys /\ ~records.circuit[k].stale THEN records.circuit[k] ELSE FreshCircuit],
   misconfigured |-> records.misconfigured \cap config.keys]

Normalized(records, config) == {Normal(records, config, old) : old \in Aged(records)}

Content(digest, records, tests) ==
  [digest |-> digest, records |-> records, tests |-> tests]

(* persist, once or more in one callback: each time the file is replaced   *)
(* whole, until a write fails; from then on it is not written again.       *)
Persist(before, last) ==
  \/ storage = "persistent" /\ file' = last /\ UNCHANGED storage
  \/ storage = "persistent" /\ file' \in before \cup {file} /\ storage' = "memory-fallback"
  \/ storage = "memory-fallback" /\ UNCHANGED <<file, storage>>

Remember(records, tests, digest, before) ==
  /\ state' = [records |-> records, tests |-> tests]
  /\ Persist(before, Content(digest, records, tests))

Now == [chan |-> chan', circuit |-> circuit', misconfigured |-> misconfigured']

(* Mutant: the copy is not told.                                           *)
NotifiedNever == UNCHANGED store

(* replaceSchedulerState, from notifyStateChange.                          *)
Notified ==
  \E records \in Normalized(Now, loaded) : Remember(records, state.tests, loaded.digest, {})

(* A cooldown that is cleared, by time or by hand, is notified.            *)
NotifiedIfCleared == IF chan' = chan THEN UNCHANGED store ELSE Notified

-----------------------------------------------------------------------------
Reserving ==
  /\ \E pool \in Pools : ReserveRefused(pool) \/ \E r \in Requests : Reserve(r, pool)
  /\ NotifiedIfCleared

Answering == (\E r \in Requests, o \in ProductionAnswers : Answered(r, o)) /\ Notified

(* rememberTest, after the notification of an outcome that counts.         *)
Testing(r) ==
  LET tests == state.tests \cup {sel[r].key}
  IN  /\ FinishTest(r)
      /\ \/ \E records \in Normalized(Now, loaded) :
              Remember(records, tests, loaded.digest,
                       {Content(loaded.digest, records, state.tests)})
         \/ /\ Now = [chan |-> chan, circuit |-> circuit, misconfigured |-> misconfigured]
            /\ Remember(state.records, tests, loaded.digest, {})

Resetting == (\E c \in Channels : ResetChannelHealth(c)) /\ NotifiedIfCleared

(* What changes no record.                                                 *)
Unnoticed ==
  /\ \/ \E r \in Requests :
          \/ Cancelled(r) \/ FinishSync(r)
          \/ \E k \in Candidates : StartTest(r, k)
          \/ \E c \in Channels : StartSync(r, c)
     \/ \E c \in Channels : DrainChannel(c) \/ ResumeChannel(c)
     \/ \E k \in Candidates : SuppressCandidate(k) \/ ResumeCandidate(k)
     \/ DrainAll \/ ResumeAll
  /\ UNCHANGED store

(* The scheduler takes the copy over.                                      *)
Installed(config, records) ==
  /\ loaded' = config
  /\ chan' = records.chan /\ circuit' = records.circuit
  /\ misconfigured' = records.misconfigured
  /\ draining' = {} /\ suppressed' = {} /\ halfOpen' = {}

(* A replaced key clears its channel.                                      *)
Rekeyed(records, next) ==
  [records EXCEPT !.chan = [c \in Channels |->
     IF c \in loaded.channels /\ next.secret[c] # loaded.secret[c] THEN Unknown ELSE @[c]]]

(* Mutant: a reload of another release keeps the records.                  *)
CarriedOver(records, digest, config) == Normalized(records, config)

(* Records that another release left are not taken over.                   *)
Taken(records, digest, config) ==
  IF digest = config.digest THEN Normalized(records, config) ELSE {Nothing}

(* reconfigure, then reload of the scheduler.                              *)
ReloadFromCopy(next) ==
  /\ Idle
  /\ \E taken \in Taken(state.records, loaded.digest, next) :
       LET tests == state.tests \cap next.keys
       IN  /\ Installed(next, Rekeyed(taken, next))
           /\ Remember(Rekeyed(taken, next), tests, next.digest,
                       {Content(next.digest, taken, tests)})
  /\ UNCHANGED <<active, sel>>

(* The reload fails after that: restore takes the copy made before it.     *)
ReloadTakenBack(next) ==
  /\ Idle
  /\ \E taken \in Taken(state.records, loaded.digest, next),
        records \in Normalized(state.records, loaded) :
       /\ Installed(loaded, records)
       /\ Remember(records, state.tests, loaded.digest,
                   {Content(next.digest, taken, state.tests \cap next.keys)})
  /\ UNCHANGED <<active, sel>>

-----------------------------------------------------------------------------
(* The process dies and starts again; load reads the file.                 *)
Restart(next) ==
  /\ active' = [c \in Channels |-> Free] /\ sel' = [r \in Requests |-> NoSelection]
  /\ IF file \in {Missing, Damaged}
     THEN /\ Installed(next, Nothing)
          /\ state' = [records |-> Nothing, tests |-> {}]
          /\ storage' = IF file = Missing THEN "persistent" ELSE "memory-fallback"
          /\ UNCHANGED file
     ELSE \E records \in Taken(file.records, file.digest, next) :
            LET tests == file.tests \cap next.keys
                read  == Content(next.digest, records, tests)
            IN  /\ Installed(next, records)
                /\ state' = [records |-> records, tests |-> tests]
                /\ \/ file' = read /\ storage' = "persistent"
                   \/ file # read /\ UNCHANGED file /\ storage' = "memory-fallback"

(* Somebody writes to the file.                                            *)
Damage == file' = Damaged /\ UNCHANGED <<vars, state, storage>>

(* The copies hold instants, so they age as the records do; a file that is *)
(* no longer written may have older evidence, which expires earlier.       *)
Staled(e) == IF e = FreshCircuit THEN e ELSE [e EXCEPT !.stale = TRUE]
AgedBy(records, k) == [records EXCEPT !.circuit[k] = Staled(@)]
TickedChannel(channel) == [channel EXCEPT !.cooldown = IF @ > 0 THEN @ - 1 ELSE 0]
Ticked(records) ==
  [chan |-> [c \in Channels |-> TickedChannel(records.chan[c])],
   circuit |-> [k \in Candidates |-> TickCircuit(records.circuit[k])],
   misconfigured |-> records.misconfigured]

Readable == file \notin {Missing, Damaged}

Ticks ==
  /\ Tick
  /\ state' = [state EXCEPT !.records = Ticked(@)]
  /\ file' = IF Readable THEN [file EXCEPT !.records = Ticked(@)] ELSE file
  /\ UNCHANGED storage

Expires(k) ==
  /\ EvidenceExpires(k)
  /\ state' = [state EXCEPT !.records = AgedBy(@, k)]
  /\ file' = IF Readable THEN [file EXCEPT !.records = AgedBy(@, k)] ELSE file
  /\ UNCHANGED storage

ExpiresOnFile(k) ==
  /\ storage = "memory-fallback" /\ Readable
  /\ file.records.circuit[k].cooldown = 0
  /\ file' = [file EXCEPT !.records = AgedBy(@, k)]
  /\ UNCHANGED <<vars, state, storage>>

-----------------------------------------------------------------------------
StateInit ==
  /\ Init
  /\ state = [records |-> Nothing, tests |-> {}]
  /\ file = Missing /\ storage = "persistent"

StateNext ==
  \/ Reserving \/ Answering \/ Resetting \/ Unnoticed
  \/ \E r \in Requests : Testing(r)
  \/ \E next \in Configs : ReloadFromCopy(next) \/ ReloadTakenBack(next) \/ Restart(next)
  \/ Damage \/ Ticks
  \/ \E k \in Candidates : Expires(k) \/ ExpiresOnFile(k)

StateSpec == StateInit /\ [][StateNext]_stateVars

-----------------------------------------------------------------------------
(* Properties.                                                             *)

(* A copy of the records differs only in what time has taken.              *)
Follows(records) ==
  /\ \A c \in Channels :
       records.chan[c] # chan[c] =>
         records.chan[c] = Unknown /\ (chan[c].health \in {"healthy", "degraded"} \/ Cooled(chan[c]))
  /\ \A k \in Candidates :
       records.circuit[k] # circuit[k] => records.circuit[k] = FreshCircuit /\ circuit[k].stale
  /\ records.misconfigured = misconfigured

(* docs/control-state.md: blocks, cooldowns, faults and evidence survive   *)
(* a restart of the same release.  While the storage is persistent a crash *)
(* at any moment loses none: every change of the records has reached the   *)
(* file, under the digest that will be asked for.                          *)
CrashLosesNothing ==
  /\ Follows(state.records)
  /\ storage = "persistent" /\ file # Damaged =>
       IF file = Missing THEN Follows(Nothing)
       ELSE /\ file.digest = loaded.digest
            /\ file.records = state.records /\ file.tests = state.tests

(* Storage faults change nothing in the life of the scheduler: whatever    *)
(* the copy and the file are, every step but a restart is one of the       *)
(* scheduler by itself, and a reload keeps what Scheduler says it keeps.   *)
ImplementsScheduler == [][Next \/ \E next \in Configs : Restart(next)]_vars
=============================================================================
