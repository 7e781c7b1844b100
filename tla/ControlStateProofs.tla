------------------------- MODULE ControlStateProofs -------------------------
(***************************************************************************)
(* ControlState for all channels, candidates, configurations and requests. *)
(***************************************************************************)
EXTENDS ControlState, SchedulerProofs

(* Records in which only a cooling channel has a cooldown.                 *)
CoolRecords(records) ==
  \A c \in Channels : records.chan[c].health # "cooling" => records.chan[c].cooldown = 0

(* What the copy and the file can be.                                      *)
StoreOK ==
  /\ state \in [records : Records, tests : SUBSET Candidates]
  /\ file \in Contents \cup {Missing, Damaged}
  /\ storage \in {"persistent", "memory-fallback"}
  /\ Readable => CoolRecords(file.records)

(* The scheduler's invariants, which say what may be remembered, and what  *)
(* the copy and the file keep of it.                                       *)
StateInv ==
  /\ LeaseInv /\ StateWithinConfig /\ CooldownsAreCooling
  /\ StoreOK /\ CrashLosesNothing

-----------------------------------------------------------------------------
(* The operators of the copy.                                              *)

LEMMA NothingIsRecords ==
  /\ Unknown \in [health : Healths, cooldown : Nat] /\ FreshCircuit \in Circuits
  /\ Nothing \in Records /\ CoolRecords(Nothing)
<1>1. Unknown \in [health : Healths, cooldown : Nat]
  BY DEF Unknown, Healths
<1>2. FreshCircuit \in Circuits
  BY CircuitAssumption DEF FreshCircuit, Circuits, CircuitAssumption
<1>3. Nothing \in Records
  BY <1>1, <1>2 DEF Nothing, Records
<1>4. CoolRecords(Nothing)
  BY DEF Nothing, CoolRecords, Unknown
<1>. QED BY <1>1, <1>2, <1>3, <1>4

(* normalizeChannels and normalizeCandidates keep a record or drop it.     *)
LEMMA NormalIs ==
  ASSUME NEW records \in Records, NEW config, NEW old
  PROVE  LET n == Normal(records, config, old) IN
         /\ n \in Records
         /\ \A c \in Channels :
              n.chan[c] = IF c \in config.channels \ old /\ ~Cooled(records.chan[c])
                          THEN records.chan[c] ELSE Unknown
         /\ \A k \in Candidates :
              n.circuit[k] = IF k \in config.keys /\ ~records.circuit[k].stale
                             THEN records.circuit[k] ELSE FreshCircuit
         /\ n.misconfigured = records.misconfigured \cap config.keys
         /\ CoolRecords(records) => CoolRecords(n)
<1>. DEFINE n == Normal(records, config, old)
<1>1. n.chan = [c \in Channels |->
        IF c \in config.channels \ old /\ ~Cooled(records.chan[c]) THEN records.chan[c] ELSE Unknown]
  BY DEF Normal
<1>2. n.circuit = [k \in Candidates |->
        IF k \in config.keys /\ ~records.circuit[k].stale THEN records.circuit[k] ELSE FreshCircuit]
  BY DEF Normal
<1>3. n.misconfigured = records.misconfigured \cap config.keys
  BY DEF Normal
<1>4. n = [chan |-> n.chan, circuit |-> n.circuit, misconfigured |-> n.misconfigured]
  BY DEF Normal
<1>. HIDE DEF n
<1>5. n \in Records
  <2>1. n.chan \in [Channels -> [health : Healths, cooldown : Nat]]
    BY <1>1, NothingIsRecords DEF Records
  <2>2. n.circuit \in [Candidates -> Circuits]
    BY <1>2, NothingIsRecords DEF Records
  <2>3. n.misconfigured \in SUBSET Candidates
    BY <1>3 DEF Records
  <2>. QED BY <1>4, <2>1, <2>2, <2>3 DEF Records
<1>6. ASSUME CoolRecords(records) PROVE CoolRecords(n)
  BY <1>1, <1>6 DEF CoolRecords, Unknown
<1>. QED BY <1>1, <1>2, <1>3, <1>5, <1>6 DEF n

(* A replaced key clears its channel and nothing else.                     *)
LEMMA RekeyedIs ==
  ASSUME NEW records \in Records, NEW next
  PROVE  LET n == Rekeyed(records, next) IN
         /\ n \in Records
         /\ n.chan = [c \in Channels |->
              IF c \in loaded.channels /\ next.secret[c] # loaded.secret[c]
              THEN Unknown ELSE records.chan[c]]
         /\ n.circuit = records.circuit /\ n.misconfigured = records.misconfigured
         /\ CoolRecords(records) => CoolRecords(n)
<1>. DEFINE n == Rekeyed(records, next)
<1>1. /\ n.chan = [c \in Channels |->
              IF c \in loaded.channels /\ next.secret[c] # loaded.secret[c]
              THEN Unknown ELSE records.chan[c]]
      /\ n.circuit = records.circuit /\ n.misconfigured = records.misconfigured
  BY DEF Rekeyed, Records
<1>2. n \in Records
  BY NothingIsRecords DEF Rekeyed, Records
<1>. HIDE DEF n
<1>3. CoolRecords(records) => CoolRecords(n)
  BY <1>1 DEF CoolRecords, Unknown
<1>. QED BY <1>1, <1>2, <1>3 DEF n

-----------------------------------------------------------------------------
(* persist.                                                                *)

ContentIs(f, config, records, tests) ==
  /\ f \in Contents /\ f \notin {Missing, Damaged}
  /\ f.digest = config.digest /\ f.records = records /\ f.tests = tests

LEMMA ContentOf ==
  ASSUME NEW config \in Configs, NEW records \in Records, NEW tests \in SUBSET Candidates
  PROVE  ContentIs(Content(config.digest, records, tests), config, records, tests)
<1>1. Content(config.digest, records, tests) \in Contents
  BY DEF Content, Contents
<1>. QED BY <1>1, StorageAssumption DEF Content, ContentIs, StorageAssumption

(* What is remembered has reached the file, or the storage is known to be  *)
(* lost; and the file holds nothing that was not remembered.               *)
LEMMA RememberKeeps ==
  ASSUME StoreOK, NEW records \in Records, NEW tests \in SUBSET Candidates,
         NEW config \in Configs, NEW before \in SUBSET Contents,
         Remember(records, tests, config.digest, before), loaded' = config,
         CoolRecords(records), \A f \in before : CoolRecords(f.records),
         Follows(records)'
  PROVE  StoreOK' /\ CrashLosesNothing'
<1>. DEFINE last == Content(config.digest, records, tests)
<1>1. state' = [records |-> records, tests |-> tests] /\ Persist(before, last)
  BY DEF Remember
<1>2. ContentIs(last, config, records, tests)
  BY ContentOf
<1>. HIDE DEF last
<1>3. state'.records = records /\ state'.tests = tests
      /\ state' \in [records : Records, tests : SUBSET Candidates]
  BY <1>1
<1>4. /\ file' \in before \cup {file, last}
      /\ storage' \in {"persistent", "memory-fallback"}
      /\ storage' = "persistent" => file' = last
  BY <1>1 DEF Persist, StoreOK
<1>5. StoreOK'
  <2>1. file' \in Contents \cup {Missing, Damaged}
    BY <1>2, <1>4 DEF StoreOK, ContentIs
  <2>2. ASSUME Readable' PROVE CoolRecords(file'.records)
    <3>1. CASE file' \in before
      BY <3>1
    <3>2. CASE file' = file
      BY <2>2, <3>2 DEF Readable, StoreOK
    <3>3. CASE file' = last
      BY <1>2, <3>3 DEF ContentIs
    <3>. QED BY <1>4, <3>1, <3>2, <3>3
  <2>. QED BY <1>3, <1>4, <2>1, <2>2 DEF StoreOK, CoolRecords
<1>6. CrashLosesNothing'
  <2>1. Follows(state.records)'
    BY <1>3 DEF Follows
  <2>2. ASSUME storage' = "persistent"
        PROVE  /\ file' # Missing /\ file'.digest = loaded'.digest
               /\ file'.records = state'.records /\ file'.tests = state'.tests
    BY <1>2, <1>3, <1>4, <2>2 DEF ContentIs
  <2>. QED BY <2>1, <2>2 DEF CrashLosesNothing
<1>. QED BY <1>5, <1>6

(* Steps that move neither the records nor the copy.                       *)
LEMMA StoreUnmoved ==
  ASSUME StoreOK, CrashLosesNothing,
         UNCHANGED <<loaded, chan, circuit, misconfigured, state, file, storage>>
  PROVE  StoreOK' /\ CrashLosesNothing'
BY DEF StoreOK, Readable, CoolRecords, CrashLosesNothing, Follows, Cooled

(* notifyStateChange: what replaceSchedulerState drops from the copy is    *)
(* what time has taken, because the records stay within the configuration. *)
LEMMA NotifiedRecords ==
  ASSUME LeaseInv', StateWithinConfig', CooldownsAreCooling', UNCHANGED loaded,
         NEW records \in Normalized(Now, loaded)
  PROVE  records \in Records /\ CoolRecords(records) /\ Follows(records)'
<1>1. PICK old \in Aged(Now) : records = Normal(Now, loaded, old)
  BY DEF Normalized
<1>2. Now.chan = chan' /\ Now.circuit = circuit' /\ Now.misconfigured = misconfigured'
  BY DEF Now
<1>3. Now \in Records /\ CoolRecords(Now)
  <2>1. Now \in Records
    BY DEF Now, Records, LeaseInv, TypeOK
  <2>. QED BY <1>2, <2>1 DEF CooldownsAreCooling, CoolRecords
<1>4. /\ records \in Records /\ CoolRecords(records)
      /\ \A c \in Channels :
           records.chan[c] = IF c \in loaded.channels \ old /\ ~Cooled(chan'[c])
                             THEN chan'[c] ELSE Unknown
      /\ \A k \in Candidates :
           records.circuit[k] = IF k \in loaded.keys /\ ~circuit'[k].stale
                                THEN circuit'[k] ELSE FreshCircuit
      /\ records.misconfigured = misconfigured' \cap loaded.keys
  BY <1>1, <1>2, <1>3, NormalIs
<1>5. ASSUME NEW c \in Channels, records.chan[c] # chan'[c]
      PROVE  /\ records.chan[c] = Unknown
             /\ chan'[c].health \in {"healthy", "degraded"} \/ Cooled(chan'[c])
  <2>1. c \in loaded.channels
    BY <1>4, <1>5 DEF StateWithinConfig
  <2>. QED BY <1>1, <1>2, <1>4, <1>5, <2>1 DEF Aged
<1>6. ASSUME NEW k \in Candidates, records.circuit[k] # circuit'[k]
      PROVE  records.circuit[k] = FreshCircuit /\ circuit'[k].stale
  BY <1>4, <1>6 DEF StateWithinConfig
<1>7. records.misconfigured = misconfigured'
  BY <1>4 DEF StateWithinConfig
<1>. QED BY <1>4, <1>5, <1>6, <1>7 DEF Follows, Cooled

LEMMA NotifiedKeeps ==
  ASSUME StateInv, LeaseInv', StateWithinConfig', CooldownsAreCooling', UNCHANGED loaded,
         Notified
  PROVE  StoreOK' /\ CrashLosesNothing'
<1>1. PICK records \in Normalized(Now, loaded) :
        Remember(records, state.tests, loaded.digest, {})
  BY DEF Notified
<1>2. records \in Records /\ CoolRecords(records) /\ Follows(records)'
  BY NotifiedRecords
<1>3. state.tests \in SUBSET Candidates /\ loaded \in Configs
  BY DEF StateInv, StoreOK, LeaseInv, TypeOK
<1>. QED BY <1>1, <1>2, <1>3, RememberKeeps DEF StateInv

(* runAdminTest: the outcome is notified before the test is remembered, so *)
(* a write that fails can leave the file without the test only.            *)
LEMMA TestingKeeps ==
  ASSUME StateInv, LeaseInv', StateWithinConfig', CooldownsAreCooling',
         NEW r \in Requests, Testing(r)
  PROVE  StoreOK' /\ CrashLosesNothing'
<1>. DEFINE tests == state.tests \cup {sel[r].key}
<1>1. tests \in SUBSET Candidates /\ state.tests \in SUBSET Candidates
      /\ loaded \in Configs /\ loaded' = loaded
  <2>1. sel[r].source = "manual-test" /\ loaded' = loaded
    BY DEF Testing, FinishTest
  <2>2. sel[r].key \in Candidates
    <3>1. Live(r) /\ sel[r] \in Selections
      BY <2>1, LiveSelection DEF StateInv, LeaseInv, Sources
    <3>2. sel[r].key # NoKey
      BY <2>1, <3>1 DEF StateInv, LeaseInv, SelectionsConsistent
    <3>. QED BY <3>1, <3>2 DEF Selections
  <2>. QED BY <2>1, <2>2 DEF StateInv, StoreOK, LeaseInv, TypeOK
<1>2. ASSUME NEW records \in Normalized(Now, loaded),
             Remember(records, tests, loaded.digest,
                      {Content(loaded.digest, records, state.tests)})
      PROVE  StoreOK' /\ CrashLosesNothing'
  <2>. DEFINE before == {Content(loaded.digest, records, state.tests)}
  <2>. HIDE DEF tests
  <2>1. records \in Records /\ CoolRecords(records) /\ Follows(records)'
    BY <1>1, NotifiedRecords
  <2>2. before \in SUBSET Contents /\ \A f \in before : CoolRecords(f.records)
    BY <1>1, <2>1, ContentOf DEF ContentIs
  <2>. HIDE DEF before
  <2>3. Remember(records, tests, loaded.digest, before)
    BY <1>2 DEF before
  <2>. QED BY <1>1, <2>1, <2>2, <2>3, RememberKeeps DEF StateInv
<1>3. ASSUME Now = [chan |-> chan, circuit |-> circuit, misconfigured |-> misconfigured],
             Remember(state.records, tests, loaded.digest, {})
      PROVE  StoreOK' /\ CrashLosesNothing'
  <2>. HIDE DEF tests
  <2>1. chan' = chan /\ circuit' = circuit /\ misconfigured' = misconfigured
    BY <1>3 DEF Now
  <2>. SUFFICES ASSUME NEW records \in Records, records = state.records
                PROVE  StoreOK' /\ CrashLosesNothing'
    BY DEF StateInv, StoreOK
  <2>3. Follows(records)'
    BY <2>1 DEF StateInv, CrashLosesNothing, Follows, Cooled
  <2>4. CoolRecords(records)
    BY DEF StateInv, CrashLosesNothing, Follows, CoolRecords, CooldownsAreCooling, Unknown
  <2>5. Remember(records, tests, loaded.digest, {})
    BY <1>3
  <2>6. StoreOK /\ tests \in SUBSET Candidates /\ loaded \in Configs /\ loaded' = loaded
    BY <1>1 DEF StateInv
  <2>7. {} \in SUBSET Contents /\ \A f \in {} : CoolRecords(f.records)
    OBVIOUS
  <2>. QED BY ONLY <2>3, <2>4, <2>5, <2>6, <2>7, records \in Records, RememberKeeps
<1>. QED BY <1>2, <1>3 DEF Testing

-----------------------------------------------------------------------------
(* Reloads.                                                                *)

(* reconfigure, and load, take over records or nothing.                    *)
LEMMA TakenIs ==
  ASSUME NEW records \in Records, NEW digest, NEW config,
         NEW taken \in Taken(records, digest, config)
  PROVE  /\ taken \in Records
         /\ CoolRecords(records) => CoolRecords(taken)
<1>1. CASE digest = config.digest
  <2>1. PICK old : taken = Normal(records, config, old)
    BY <1>1 DEF Taken, Normalized
  <2>. QED BY <2>1, NormalIs
<1>2. CASE digest # config.digest
  BY <1>2, NothingIsRecords DEF Taken
<1>. QED BY <1>1, <1>2

(* The copy and the records differ only in what a reload forgets anyway,   *)
(* so taking over the copy is the scheduler's own reload.                  *)
LEMMA TakenReloads ==
  ASSUME NEW records \in Records, Follows(records), NEW next \in Configs,
         NEW taken \in Taken(records, loaded.digest, next),
         Idle, Installed(next, Rekeyed(taken, next)), UNCHANGED <<active, sel>>
  PROVE  Reload(next)
<1>. DEFINE recent == {c \in Channels : chan[c].health \in {"healthy", "degraded"}}
            old == {c \in recent : chan'[c] = Unknown}
<1>1. taken \in Records
  BY TakenIs
<1>2. /\ chan' = [c \in Channels |->
           IF c \in loaded.channels /\ next.secret[c] # loaded.secret[c]
           THEN Unknown ELSE taken.chan[c]]
      /\ circuit' = taken.circuit /\ misconfigured' = taken.misconfigured
      /\ loaded' = next /\ draining' = {} /\ suppressed' = {} /\ halfOpen' = {}
  BY <1>1, RekeyedIs DEF Installed
<1>3. CASE loaded.digest = next.digest
  <2>1. PICK gone \in Aged(records) : taken = Normal(records, next, gone)
    BY <1>3 DEF Taken, Normalized
  <2>2. /\ \A c \in Channels :
             taken.chan[c] = IF c \in next.channels \ gone /\ ~Cooled(records.chan[c])
                             THEN records.chan[c] ELSE Unknown
        /\ \A k \in Candidates :
             taken.circuit[k] = IF k \in next.keys /\ ~records.circuit[k].stale
                                THEN records.circuit[k] ELSE FreshCircuit
        /\ taken.misconfigured = records.misconfigured \cap next.keys
    BY <2>1, NormalIs
  <2>3. chan' = [c \in Channels |->
          IF Kept(next, c) /\ c \notin old THEN chan[c] ELSE Unknown]
    <3>1. ASSUME NEW c \in Channels
          PROVE  chan'[c] = IF Kept(next, c) /\ c \notin old THEN chan[c] ELSE Unknown
      <4>1. CASE Kept(next, c) /\ c \notin old
        <5>1. chan'[c] = taken.chan[c]
          BY <1>2, <4>1 DEF Kept
        <5>2. CASE c \in recent
          BY <1>2, <2>2, <4>1, <5>1, <5>2 DEF Follows
        <5>3. CASE c \notin recent
          <6>1. records.chan[c] = chan[c] /\ ~Cooled(chan[c])
            BY <4>1, <5>3 DEF Follows, Kept, Expired, Cooled
          <6>2. c \notin gone
            BY <5>3, <6>1 DEF Aged
          <6>. QED BY <2>2, <4>1, <5>1, <6>1, <6>2 DEF Kept
        <5>. QED BY <5>2, <5>3
      <4>2. CASE ~Kept(next, c)
        BY <1>2, <1>3, <2>2, <4>2 DEF Kept, Expired, Cooled, Follows
      <4>3. CASE c \in old
        BY <4>3
      <4>. QED BY <4>1, <4>2, <4>3
    <3>. HIDE DEF old
    <3>. QED BY <1>2, <3>1
  <2>4. circuit' = [k \in Candidates |->
          IF next.digest = loaded.digest /\ k \in next.keys /\ ~circuit[k].stale
          THEN circuit[k] ELSE FreshCircuit]
    <3>1. ASSUME NEW k \in Candidates
          PROVE  circuit'[k] = IF next.digest = loaded.digest /\ k \in next.keys
                                  /\ ~circuit[k].stale
                               THEN circuit[k] ELSE FreshCircuit
      BY <1>2, <1>3, <2>2 DEF Follows
    <3>2. circuit' = [k \in Candidates |-> circuit'[k]]
      BY <1>1, <1>2 DEF Records
    <3>. QED BY <3>1, <3>2
  <2>5. misconfigured' = IF next.digest = loaded.digest
                         THEN misconfigured \cap next.keys ELSE {}
    BY <1>2, <1>3, <2>2 DEF Follows
  <2>6. old \in SUBSET recent
    OBVIOUS
  <2>. HIDE DEF old
  <2>. QED BY <1>2, <2>3, <2>4, <2>5, <2>6 DEF Reload
<1>4. CASE loaded.digest # next.digest
  <2>1. taken = Nothing
    BY <1>4 DEF Taken
  <2>2. chan' = [c \in Channels |-> IF Kept(next, c) /\ c \notin {} THEN chan[c] ELSE Unknown]
    BY <1>2, <1>4, <2>1 DEF Nothing, Kept
  <2>3. circuit' = [k \in Candidates |->
          IF next.digest = loaded.digest /\ k \in next.keys /\ ~circuit[k].stale
          THEN circuit[k] ELSE FreshCircuit]
    BY <1>2, <1>4, <2>1 DEF Nothing
  <2>4. misconfigured' = IF next.digest = loaded.digest
                         THEN misconfigured \cap next.keys ELSE {}
    BY <1>2, <1>4, <2>1 DEF Nothing
  <2>5. {} \in SUBSET recent
    OBVIOUS
  <2>. QED BY <1>2, <2>2, <2>3, <2>4, <2>5 DEF Reload
<1>. QED BY <1>3, <1>4

(* Records that were installed and are remembered as they are differ in    *)
(* nothing.                                                                *)
LEMMA InstalledFollows ==
  ASSUME NEW records \in Records, NEW config, Installed(config, records)
  PROVE  Follows(records)'
BY DEF Installed, Follows

LEMMA ReloadFromCopyKeeps ==
  ASSUME StateInv, NEW next \in Configs, ReloadFromCopy(next)
  PROVE  StoreOK' /\ CrashLosesNothing' /\ Reload(next)
<1>1. PICK taken \in Taken(state.records, loaded.digest, next) :
        /\ Installed(next, Rekeyed(taken, next))
        /\ Remember(Rekeyed(taken, next), state.tests \cap next.keys, next.digest,
                    {Content(next.digest, taken, state.tests \cap next.keys)})
  BY DEF ReloadFromCopy
<1>. DEFINE tests == state.tests \cap next.keys
            before == {Content(next.digest, taken, tests)}
<1>2. /\ state.records \in Records /\ tests \in SUBSET Candidates
      /\ Follows(state.records) /\ CoolRecords(state.records)
  BY DEF StateInv, StoreOK, CrashLosesNothing, Follows, CoolRecords, CooldownsAreCooling, Unknown
<1>3. taken \in Records /\ CoolRecords(taken)
  BY <1>2, TakenIs
<1>4. Reload(next)
  BY <1>1, <1>2, TakenReloads DEF ReloadFromCopy
<1>5. before \in SUBSET Contents /\ \A f \in before : CoolRecords(f.records)
  BY <1>2, <1>3, ContentOf DEF ContentIs
<1>6. StoreOK' /\ CrashLosesNothing'
  <2>. SUFFICES ASSUME NEW records \in Records, records = Rekeyed(taken, next)
                PROVE  StoreOK' /\ CrashLosesNothing'
    BY <1>3, RekeyedIs
  <2>1. CoolRecords(records) /\ Follows(records)' /\ loaded' = next
    BY <1>1, <1>3, RekeyedIs, InstalledFollows DEF Installed
  <2>2. Remember(records, tests, next.digest, before)
    BY <1>1
  <2>3. StoreOK
    BY DEF StateInv
  <2>. QED BY ONLY <1>2, <1>5, <2>1, <2>2, <2>3, records \in Records, next \in Configs,
                   RememberKeeps
<1>. QED BY <1>4, <1>6

(* What the failed reload wrote first is a content of the file as well: if *)
(* the write that takes it back fails, the storage is known to be lost.    *)
LEMMA ReloadTakenBackKeeps ==
  ASSUME StateInv, NEW next \in Configs, ReloadTakenBack(next)
  PROVE  StoreOK' /\ CrashLosesNothing' /\ Reload(loaded)
<1>1. PICK taken \in Taken(state.records, loaded.digest, next),
           records \in Normalized(state.records, loaded) :
        /\ Installed(loaded, records)
        /\ Remember(records, state.tests, loaded.digest,
                    {Content(next.digest, taken, state.tests \cap next.keys)})
  BY DEF ReloadTakenBack
<1>. DEFINE before == {Content(next.digest, taken, state.tests \cap next.keys)}
<1>2. /\ state.records \in Records /\ state.tests \in SUBSET Candidates /\ loaded \in Configs
      /\ state.tests \cap next.keys \in SUBSET Candidates
      /\ Follows(state.records) /\ CoolRecords(state.records) /\ StoreOK
  BY DEF StateInv, StoreOK, CrashLosesNothing, Follows, CoolRecords, CooldownsAreCooling, Unknown,
         LeaseInv, TypeOK
<1>3. taken \in Records /\ CoolRecords(taken)
  BY <1>2, TakenIs
<1>4. records \in Taken(state.records, loaded.digest, loaded)
  BY <1>1 DEF Taken
<1>5. records \in Records /\ CoolRecords(records)
  BY <1>2, <1>4, TakenIs
<1>6. Reload(loaded)
  <2>1. Rekeyed(records, loaded).chan = records.chan
        /\ Rekeyed(records, loaded).circuit = records.circuit
        /\ Rekeyed(records, loaded).misconfigured = records.misconfigured
    BY <1>5, RekeyedIs DEF Records
  <2>2. Installed(loaded, Rekeyed(records, loaded))
    BY <1>1, <2>1 DEF Installed
  <2>. QED BY <1>2, <1>4, <2>2, TakenReloads DEF ReloadTakenBack
<1>7. before \in SUBSET Contents /\ \A f \in before : CoolRecords(f.records)
  BY <1>2, <1>3, ContentOf DEF ContentIs
<1>8. Follows(records)' /\ loaded' = loaded
  BY <1>1, <1>5, InstalledFollows DEF Installed
<1>9. Remember(records, state.tests, loaded.digest, before)
  BY <1>1
<1>10. StoreOK' /\ CrashLosesNothing'
  <2>. HIDE DEF before
  <2>. QED BY ONLY <1>2, <1>5, <1>7, <1>8, <1>9, RememberKeeps
<1>. QED BY <1>6, <1>10

-----------------------------------------------------------------------------
(* Restarts.                                                               *)

WithinRecords(records, config) ==
  /\ \A c \in Channels : records.chan[c] # Unknown => c \in config.channels
  /\ \A k \in Candidates : records.circuit[k] # FreshCircuit => k \in config.keys
  /\ records.misconfigured \subseteq config.keys

(* load: what is installed is remembered as it is, and is in the file if   *)
(* the file could be written.                                              *)
LEMMA RestartKeeps ==
  ASSUME StateInv, NEW next \in Configs, Restart(next)
  PROVE  /\ StoreOK' /\ CrashLosesNothing'
         /\ \E records \in Records :
              CoolRecords(records) /\ WithinRecords(records, next) /\ Installed(next, records)
<1>1. CASE file \in {Missing, Damaged}
  <2>1. /\ Installed(next, Nothing)
        /\ state' = [records |-> Nothing, tests |-> {}]
        /\ storage' = IF file = Missing THEN "persistent" ELSE "memory-fallback"
        /\ file' = file
    BY <1>1 DEF Restart
  <2>2. Follows(Nothing)'
    BY <2>1, NothingIsRecords, InstalledFollows
  <2>3. state'.records = Nothing
    BY <2>1
  <2>4. StoreOK'
    BY <1>1, <2>1, NothingIsRecords DEF StoreOK, Readable
  <2>5. CrashLosesNothing'
    BY <1>1, <2>1, <2>2, <2>3 DEF CrashLosesNothing
  <2>6. WithinRecords(Nothing, next)
    BY DEF WithinRecords, Nothing
  <2>. QED BY <2>1, <2>4, <2>5, <2>6, NothingIsRecords
<1>2. CASE file \notin {Missing, Damaged}
  <2>1. PICK records \in Taken(file.records, file.digest, next) :
          LET tests == file.tests \cap next.keys
              read  == Content(next.digest, records, tests)
          IN  /\ Installed(next, records)
              /\ state' = [records |-> records, tests |-> tests]
              /\ \/ file' = read /\ storage' = "persistent"
                 \/ file # read /\ UNCHANGED file /\ storage' = "memory-fallback"
    BY <1>2 DEF Restart
  <2>. DEFINE tests == file.tests \cap next.keys
              read == Content(next.digest, records, tests)
  <2>2. /\ file \in Contents /\ file.records \in Records
        /\ tests \in SUBSET Candidates /\ CoolRecords(file.records)
    BY <1>2 DEF StateInv, StoreOK, Contents, Readable
  <2>3. records \in Records /\ CoolRecords(records)
    BY <2>1, <2>2, TakenIs
  <2>4. ContentIs(read, next, records, tests)
    BY <2>2, <2>3, ContentOf
  <2>5. Follows(records)' /\ loaded' = next
    BY <2>1, <2>3, InstalledFollows DEF Installed
  <2>6. state' = [records |-> records, tests |-> tests]
    BY <2>1
  <2>7. \/ file' = read /\ storage' = "persistent"
        \/ UNCHANGED file /\ storage' = "memory-fallback"
    BY <2>1
  <2>. HIDE DEF tests, read
  <2>8. state'.records = records /\ state'.tests = tests
    BY <2>6
  <2>9. StoreOK'
    <3>1. state' \in [records : Records, tests : SUBSET Candidates]
      BY <2>2, <2>3, <2>6
    <3>2. file' \in Contents /\ CoolRecords(file'.records)
      BY <2>2, <2>3, <2>4, <2>7 DEF ContentIs
    <3>. QED BY <2>7, <3>1, <3>2 DEF StoreOK, CoolRecords
  <2>10. CrashLosesNothing'
    BY <2>4, <2>5, <2>7, <2>8 DEF CrashLosesNothing, ContentIs
  <2>11. WithinRecords(records, next)
    <3>1. CASE file.digest = next.digest
      <4>1. PICK old : records = Normal(file.records, next, old)
        BY <2>1, <3>1 DEF Taken, Normalized
      <4>. QED BY <2>2, <4>1, NormalIs DEF WithinRecords
    <3>2. CASE file.digest # next.digest
      BY <2>1, <3>2 DEF Taken, Nothing, WithinRecords
    <3>. QED BY <3>1, <3>2
  <2>12. Installed(next, records)
    BY <2>1
  <2>. QED BY <2>3, <2>9, <2>10, <2>11, <2>12
<1>. QED BY <1>1, <1>2

(* The scheduler that starts has no exchange in flight.                    *)
LEMMA RestartSchedules ==
  ASSUME StateInv, NEW next \in Configs, Restart(next)
  PROVE  /\ LeaseInv' /\ StateWithinConfig' /\ CooldownsAreCooling'
         /\ HalfOpenBackedByLease' /\ InFlightStaysTrusted'
<1>1. PICK records \in Records :
        CoolRecords(records) /\ WithinRecords(records, next) /\ Installed(next, records)
  BY RestartKeeps
<1>2. active' = [c \in Channels |-> Free] /\ sel' = [r \in Requests |-> NoSelection]
  BY DEF Restart
<1>3. /\ loaded' = next /\ chan' = records.chan /\ circuit' = records.circuit
      /\ misconfigured' = records.misconfigured
      /\ draining' = {} /\ suppressed' = {} /\ halfOpen' = {}
  BY <1>1 DEF Installed
<1>4. \A r \in Requests : ~Live(r)'
  BY <1>2 DEF Live
<1>5. LeaseInv'
  <2>1. TypeOK'
    BY <1>2, <1>3 DEF TypeOK, Records
  <2>2. LeaseMatchesRequest'
    BY <1>2, <1>4, SchedulerAssumption DEF LeaseMatchesRequest, SchedulerAssumption
  <2>. QED BY <1>4, <2>1, <2>2 DEF LeaseInv, SelectionsConsistent
<1>6. StateWithinConfig'
  BY <1>1, <1>3, <1>4 DEF StateWithinConfig, WithinRecords
<1>7. CooldownsAreCooling'
  BY <1>1, <1>3 DEF CooldownsAreCooling, CoolRecords
<1>8. HalfOpenBackedByLease' /\ InFlightStaysTrusted'
  BY <1>3, <1>4 DEF HalfOpenBackedByLease, InFlightStaysTrusted, Live
<1>. QED BY <1>5, <1>6, <1>7, <1>8

-----------------------------------------------------------------------------
(* Time.                                                                   *)

LEMMA TickedChannelIs ==
  ASSUME NEW channel \in [health : Healths, cooldown : Nat]
  PROVE  LET n == TickedChannel(channel) IN
         /\ n \in [health : Healths, cooldown : Nat]
         /\ n.health = channel.health
         /\ n.cooldown = IF channel.cooldown > 0 THEN channel.cooldown - 1 ELSE 0
BY DEF TickedChannel

LEMMA TickedIs ==
  ASSUME NEW records \in Records
  PROVE  LET n == Ticked(records) IN
         /\ n \in Records
         /\ \A c \in Channels : n.chan[c] = TickedChannel(records.chan[c])
         /\ \A k \in Candidates : n.circuit[k] = TickCircuit(records.circuit[k])
         /\ n.misconfigured = records.misconfigured
         /\ CoolRecords(records) => CoolRecords(n)
<1>. DEFINE n == Ticked(records)
<1>1. /\ n.chan = [c \in Channels |-> TickedChannel(records.chan[c])]
      /\ n.circuit = [k \in Candidates |-> TickCircuit(records.circuit[k])]
      /\ n.misconfigured = records.misconfigured
      /\ n = [chan |-> n.chan, circuit |-> n.circuit, misconfigured |-> n.misconfigured]
  BY DEF Ticked
<1>. HIDE DEF n
<1>2. n \in Records
  <2>1. n.chan \in [Channels -> [health : Healths, cooldown : Nat]]
    BY <1>1, TickedChannelIs DEF Records
  <2>2. n.circuit \in [Candidates -> Circuits]
    BY <1>1, TickCircuitType DEF Records
  <2>. QED BY <1>1, <2>1, <2>2 DEF Records
<1>3. ASSUME CoolRecords(records), NEW c \in Channels, n.chan[c].health # "cooling"
      PROVE  n.chan[c].cooldown = 0
  <2>1. records.chan[c] \in [health : Healths, cooldown : Nat]
    BY DEF Records
  <2>. QED BY <1>1, <1>3, <2>1, TickedChannelIs DEF CoolRecords
<1>. QED BY <1>1, <1>2, <1>3 DEF n, CoolRecords

LEMMA TickFollows ==
  ASSUME LeaseInv, NEW records \in Records, Follows(records), Tick
  PROVE  Follows(Ticked(records))'
<1>. DEFINE n == Ticked(records)
<1>1. /\ \A c \in Channels : n.chan[c] = TickedChannel(records.chan[c])
      /\ \A k \in Candidates : n.circuit[k] = TickCircuit(records.circuit[k])
      /\ n.misconfigured = records.misconfigured
  BY TickedIs
<1>2. /\ \A c \in Channels : chan'[c] = TickedChannel(chan[c])
      /\ \A k \in Candidates : circuit'[k] = TickCircuit(circuit[k])
      /\ misconfigured' = misconfigured
  BY DEF Tick, TickedChannel, LeaseInv, TypeOK
<1>. HIDE DEF n
<1>3. ASSUME NEW c \in Channels, n.chan[c] # chan'[c]
      PROVE  n.chan[c] = Unknown /\ (chan'[c].health \in {"healthy", "degraded"} \/ Cooled(chan'[c]))
  <2>1. records.chan[c] = Unknown
        /\ (chan[c].health \in {"healthy", "degraded"} \/ Cooled(chan[c]))
    BY <1>1, <1>2, <1>3 DEF Follows
  <2>2. TickedChannel(Unknown) = Unknown
    BY DEF TickedChannel, Unknown
  <2>3. n.chan[c] = Unknown
    BY <1>1, <2>1, <2>2
  <2>4. chan[c] \in [health : Healths, cooldown : Nat] /\ chan'[c] = TickedChannel(chan[c])
    BY <1>2 DEF LeaseInv, TypeOK
  <2>5. chan'[c].health = chan[c].health /\ (chan[c].cooldown = 0 => chan'[c].cooldown = 0)
    BY <2>4, TickedChannelIs
  <2>. QED BY <2>1, <2>3, <2>5 DEF Cooled
<1>4. ASSUME NEW k \in Candidates, n.circuit[k] # circuit'[k]
      PROVE  n.circuit[k] = FreshCircuit /\ circuit'[k].stale
  <2>1. records.circuit[k] = FreshCircuit /\ circuit[k].stale
    BY <1>1, <1>2, <1>4 DEF Follows
  <2>2. TickCircuit(FreshCircuit) = FreshCircuit
    BY DEF TickCircuit, FreshCircuit
  <2>. QED BY <1>1, <1>2, <2>1, <2>2 DEF TickCircuit, LeaseInv, TypeOK, Circuits
<1>5. n.misconfigured = misconfigured'
  BY <1>1, <1>2 DEF Follows
<1>6. Follows(n)'
  BY <1>3, <1>4, <1>5 DEF Follows, Cooled
<1>. QED BY <1>6 DEF n

(* Records whose state and file age alike stay what they were to each      *)
(* other.  What ages is given as an operator's values before and after.    *)
LEMMA AgingKeeps ==
  ASSUME StoreOK, CrashLosesNothing, loaded' = loaded, storage' = storage,
         NEW mine \in Records, NEW none, NEW kept,
         state' = [state EXCEPT !.records = mine],
         file' = IF Readable THEN [file EXCEPT !.records = kept] ELSE file,
         Readable => kept \in Records /\ CoolRecords(kept)
                     /\ (file.records = state.records => kept = mine),
         Follows(mine)', Follows(Nothing) => Follows(Nothing)'
  PROVE  StoreOK' /\ CrashLosesNothing'
<1>1. /\ state'.records = mine /\ state'.tests = state.tests
      /\ state' \in [records : Records, tests : SUBSET Candidates]
  BY DEF StoreOK
<1>2. ASSUME Readable
      PROVE  /\ file' \in Contents /\ file' \notin {Missing, Damaged}
             /\ file'.digest = file.digest /\ file'.tests = file.tests
             /\ file'.records = kept /\ CoolRecords(file'.records)
  <2>1. file \in Contents /\ file' = [file EXCEPT !.records = kept]
    BY <1>2 DEF StoreOK, Readable
  <2>2. file' \in Contents
    BY <1>2, <2>1 DEF Contents
  <2>3. file'.digest = file.digest /\ file'.tests = file.tests /\ file'.records = kept
    BY <2>1 DEF Contents
  <2>. QED BY <1>2, <2>2, <2>3, StorageAssumption DEF StorageAssumption
<1>3. ASSUME ~Readable PROVE file' = file /\ file \in {Missing, Damaged}
  BY <1>3 DEF Readable
<1>4. StoreOK'
  <2>1. file' \in Contents \cup {Missing, Damaged}
    BY <1>2, <1>3
  <2>2. Readable' => CoolRecords(file'.records)
    BY <1>2, <1>3 DEF Readable
  <2>. QED BY <1>1, <2>1, <2>2 DEF StoreOK, CoolRecords
<1>5. Follows(state.records)'
  BY <1>1 DEF Follows
<1>6. ASSUME storage' = "persistent", file' # Damaged, file' # Missing
      PROVE  /\ file'.digest = loaded'.digest
             /\ file'.records = state'.records /\ file'.tests = state'.tests
  <2>1. Readable
    BY <1>3, <1>6
  <2>2. /\ file.digest = loaded.digest
        /\ file.records = state.records /\ file.tests = state.tests
    BY <1>6, <2>1 DEF CrashLosesNothing, Readable
  <2>. QED BY <1>1, <1>2, <2>1, <2>2
<1>7. ASSUME storage' = "persistent", file' = Missing
      PROVE  Follows(Nothing)'
  <2>1. file = Missing
    BY <1>2, <1>3, <1>7
  <2>. QED BY <1>7, <2>1, StorageAssumption DEF CrashLosesNothing, StorageAssumption
<1>8. CrashLosesNothing'
  BY <1>5, <1>6, <1>7 DEF CrashLosesNothing
<1>. QED BY <1>4, <1>8

LEMMA TicksKeeps ==
  ASSUME StateInv, Ticks
  PROVE  StoreOK' /\ CrashLosesNothing'
<1>1. StoreOK /\ CrashLosesNothing /\ LeaseInv
  BY DEF StateInv
<1>2. state.records \in Records /\ Follows(state.records)
  BY <1>1 DEF StoreOK, CrashLosesNothing
<1>. SUFFICES ASSUME NEW records \in Records, records = state.records, Follows(records)
              PROVE  StoreOK' /\ CrashLosesNothing'
  BY <1>2 DEF Follows
<1>. DEFINE mine == Ticked(records)
            kept == Ticked(file.records)
<1>3. /\ Tick /\ state' = [state EXCEPT !.records = mine]
      /\ file' = IF Readable THEN [file EXCEPT !.records = kept] ELSE file
      /\ storage' = storage /\ loaded' = loaded
  BY DEF Ticks, Tick
<1>4. mine \in Records /\ Follows(mine)'
  BY <1>1, <1>3, TickedIs, TickFollows
<1>5. Readable => kept \in Records /\ CoolRecords(kept)
                  /\ (file.records = state.records => kept = mine)
  <2>1. Readable => file.records \in Records /\ CoolRecords(file.records)
    BY <1>1 DEF StoreOK, Readable, Contents
  <2>. QED BY <2>1, TickedIs
<1>6. Follows(Nothing) => Follows(Nothing)'
  <2>1. Follows(Nothing) => Follows(Ticked(Nothing))'
    BY <1>1, <1>3, TickFollows, NothingIsRecords
  <2>2. /\ \A c \in Channels : Ticked(Nothing).chan[c] = Nothing.chan[c]
        /\ \A k \in Candidates : Ticked(Nothing).circuit[k] = Nothing.circuit[k]
        /\ Ticked(Nothing).misconfigured = Nothing.misconfigured
    <3>1. TickedChannel(Unknown) = Unknown /\ TickCircuit(FreshCircuit) = FreshCircuit
      BY DEF TickedChannel, Unknown, TickCircuit, FreshCircuit
    <3>2. /\ \A c \in Channels : Nothing.chan[c] = Unknown
          /\ \A k \in Candidates : Nothing.circuit[k] = FreshCircuit
      BY DEF Nothing
    <3>. QED BY <3>1, <3>2, TickedIs, NothingIsRecords
  <2>. QED BY <2>1, <2>2 DEF Follows
<1>. HIDE DEF mine, kept
<1>. QED BY ONLY <1>1, <1>3, <1>4, <1>5, <1>6, AgingKeeps

LEMMA AgedByIs ==
  ASSUME NEW records \in Records, NEW k \in Candidates
  PROVE  LET n == AgedBy(records, k) IN
         /\ n \in Records
         /\ n.chan = records.chan /\ n.misconfigured = records.misconfigured
         /\ \A j \in Candidates :
              n.circuit[j] = IF j = k THEN Staled(records.circuit[k]) ELSE records.circuit[j]
         /\ CoolRecords(records) => CoolRecords(n)
<1>. DEFINE n == AgedBy(records, k)
<1>1. /\ n.chan = records.chan /\ n.misconfigured = records.misconfigured
      /\ n.circuit = [records.circuit EXCEPT ![k] = Staled(@)]
  BY DEF AgedBy, Records
<1>2. Staled(records.circuit[k]) \in Circuits
  <2>1. records.circuit[k] \in Circuits
    BY DEF Records
  <2>2. [records.circuit[k] EXCEPT !.stale = TRUE] \in Circuits
    BY <2>1 DEF Circuits
  <2>. QED BY <2>1, <2>2 DEF Staled
<1>3. n \in Records
  BY <1>2 DEF AgedBy, Records
<1>. HIDE DEF n
<1>4. \A j \in Candidates :
        n.circuit[j] = IF j = k THEN Staled(records.circuit[k]) ELSE records.circuit[j]
  BY <1>1 DEF Records
<1>5. CoolRecords(records) => CoolRecords(n)
  BY <1>1 DEF CoolRecords
<1>. QED BY <1>1, <1>3, <1>4, <1>5 DEF n

LEMMA ExpireFollows ==
  ASSUME LeaseInv, NEW records \in Records, Follows(records),
         NEW k \in Candidates, EvidenceExpires(k)
  PROVE  Follows(AgedBy(records, k))'
<1>. DEFINE n == AgedBy(records, k)
<1>1. /\ n.chan = records.chan /\ n.misconfigured = records.misconfigured
      /\ \A j \in Candidates :
           n.circuit[j] = IF j = k THEN Staled(records.circuit[k]) ELSE records.circuit[j]
  BY AgedByIs
<1>2. /\ chan' = chan /\ misconfigured' = misconfigured
      /\ circuit[k] # FreshCircuit /\ circuit[k] \in Circuits
      /\ circuit' = [circuit EXCEPT ![k] = [circuit[k] EXCEPT !.stale = TRUE]]
  BY DEF EvidenceExpires, LeaseInv, TypeOK
<1>. HIDE DEF n
<1>3. /\ circuit'[k] = Staled(circuit[k]) /\ circuit'[k].stale
      /\ \A j \in Candidates : j # k => circuit'[j] = circuit[j]
  BY <1>2 DEF Staled, LeaseInv, TypeOK, Circuits
<1>4. ASSUME NEW j \in Candidates, n.circuit[j] # circuit'[j]
      PROVE  n.circuit[j] = FreshCircuit /\ circuit'[j].stale
  <2>1. CASE j = k
    <3>1. records.circuit[k] = FreshCircuit
      BY <1>1, <1>3, <1>4, <2>1 DEF Follows
    <3>. QED BY <1>1, <1>3, <2>1, <3>1 DEF Staled
  <2>2. CASE j # k
    BY <1>1, <1>3, <1>4, <2>2 DEF Follows
  <2>. QED BY <2>1, <2>2
<1>5. Follows(n)'
  BY <1>1, <1>2, <1>4 DEF Follows, Cooled
<1>. QED BY <1>5 DEF n

LEMMA ExpiresKeeps ==
  ASSUME StateInv, NEW k \in Candidates, Expires(k)
  PROVE  StoreOK' /\ CrashLosesNothing'
<1>1. StoreOK /\ CrashLosesNothing /\ LeaseInv
  BY DEF StateInv
<1>2. state.records \in Records /\ Follows(state.records)
  BY <1>1 DEF StoreOK, CrashLosesNothing
<1>. SUFFICES ASSUME NEW records \in Records, records = state.records, Follows(records)
              PROVE  StoreOK' /\ CrashLosesNothing'
  BY <1>2 DEF Follows
<1>. DEFINE mine == AgedBy(records, k)
            kept == AgedBy(file.records, k)
<1>3. /\ EvidenceExpires(k) /\ state' = [state EXCEPT !.records = mine]
      /\ file' = IF Readable THEN [file EXCEPT !.records = kept] ELSE file
      /\ storage' = storage /\ loaded' = loaded
  BY DEF Expires, EvidenceExpires
<1>4. mine \in Records /\ Follows(mine)'
  BY <1>1, <1>3, AgedByIs, ExpireFollows
<1>5. Readable => kept \in Records /\ CoolRecords(kept)
                  /\ (file.records = state.records => kept = mine)
  <2>1. Readable => file.records \in Records /\ CoolRecords(file.records)
    BY <1>1 DEF StoreOK, Readable, Contents
  <2>. QED BY <2>1, AgedByIs
<1>6. Follows(Nothing) => Follows(Nothing)'
  <2>1. Follows(Nothing) => Follows(AgedBy(Nothing, k))'
    BY <1>1, <1>3, ExpireFollows, NothingIsRecords
  <2>2. /\ AgedBy(Nothing, k).chan = Nothing.chan
        /\ \A j \in Candidates : AgedBy(Nothing, k).circuit[j] = Nothing.circuit[j]
        /\ AgedBy(Nothing, k).misconfigured = Nothing.misconfigured
    <3>1. \A j \in Candidates : Nothing.circuit[j] = FreshCircuit
      BY DEF Nothing
    <3>2. Staled(FreshCircuit) = FreshCircuit
      BY DEF Staled
    <3>3. /\ AgedBy(Nothing, k).chan = Nothing.chan
          /\ AgedBy(Nothing, k).misconfigured = Nothing.misconfigured
          /\ \A j \in Candidates :
               AgedBy(Nothing, k).circuit[j] =
                 IF j = k THEN Staled(Nothing.circuit[k]) ELSE Nothing.circuit[j]
      BY AgedByIs, NothingIsRecords
    <3>. QED BY <3>1, <3>2, <3>3
  <2>. QED BY <2>1, <2>2 DEF Follows
<1>. HIDE DEF mine, kept
<1>. QED BY ONLY <1>1, <1>3, <1>4, <1>5, <1>6, AgingKeeps

(* What is no longer written and ages by itself is not asked for.          *)
LEMMA ExpiresOnFileKeeps ==
  ASSUME StateInv, NEW k \in Candidates, ExpiresOnFile(k)
  PROVE  StoreOK' /\ CrashLosesNothing'
<1>1. /\ file' = [file EXCEPT !.records = AgedBy(file.records, k)]
      /\ storage = "memory-fallback" /\ storage' = storage /\ Readable
      /\ UNCHANGED <<loaded, chan, circuit, misconfigured, state>>
  BY DEF ExpiresOnFile, vars
<1>2. file \in Contents /\ file.records \in Records /\ CoolRecords(file.records)
  BY <1>1 DEF StateInv, StoreOK, Readable, Contents
<1>. DEFINE kept == AgedBy(file.records, k)
<1>3. kept \in Records /\ CoolRecords(kept)
  BY <1>2, AgedByIs
<1>. HIDE DEF kept
<1>4. file' \in Contents /\ file'.records = kept
  BY <1>1, <1>2, <1>3 DEF Contents, kept
<1>5. StoreOK'
  BY <1>1, <1>3, <1>4 DEF StateInv, StoreOK, CoolRecords
<1>6. CrashLosesNothing'
  BY <1>1 DEF StateInv, CrashLosesNothing, Follows, Cooled
<1>. QED BY <1>5, <1>6

(* A file that somebody damages is lost, which the copy is not.            *)
LEMMA DamageKeeps ==
  ASSUME StateInv, Damage
  PROVE  StoreOK' /\ CrashLosesNothing'
<1>1. file' = Damaged /\ UNCHANGED <<loaded, chan, circuit, misconfigured, state, storage>>
  BY DEF Damage, vars
<1>2. StoreOK'
  BY <1>1 DEF StateInv, StoreOK, Readable
<1>3. CrashLosesNothing'
  BY <1>1 DEF StateInv, CrashLosesNothing, Follows, Cooled
<1>. QED BY <1>2, <1>3

-----------------------------------------------------------------------------
(* The scheduler beside the store.                                         *)

(* Every step is one of the scheduler by itself, or leaves it alone, or is *)
(* a restart.                                                              *)
LEMMA SchedulerSteps ==
  ASSUME StateInv, [StateNext]_stateVars
  PROVE  [Next]_vars \/ \E next \in Configs : Restart(next)
<1>1. CASE Reserving \/ Answering \/ Resetting \/ Unnoticed
  BY <1>1 DEF Reserving, Answering, Resetting, Unnoticed, Next, Traffic, Control
<1>2. ASSUME NEW r \in Requests, Testing(r)
      PROVE  Next
  BY <1>2 DEF Testing, Next, Traffic
<1>3. ASSUME NEW next \in Configs, ReloadFromCopy(next) \/ ReloadTakenBack(next)
      PROVE  Next
  <2>1. Reload(next) \/ Reload(loaded)
    BY <1>3, ReloadFromCopyKeeps, ReloadTakenBackKeeps
  <2>2. loaded \in Configs
    BY DEF StateInv, LeaseInv, TypeOK
  <2>. QED BY <2>1, <2>2 DEF Next, Control
<1>4. CASE Damage \/ \E k \in Candidates : ExpiresOnFile(k)
  BY <1>4 DEF Damage, ExpiresOnFile
<1>5. CASE Ticks \/ \E k \in Candidates : Expires(k)
  BY <1>5 DEF Ticks, Expires, Next, Time
<1>6. CASE UNCHANGED stateVars
  BY <1>6 DEF stateVars
<1>. QED BY <1>1, <1>2, <1>3, <1>4, <1>5, <1>6 DEF StateNext

(* What the store keeps through the steps that notify it.                  *)
LEMMA StoreStep ==
  ASSUME StateInv, LeaseInv', StateWithinConfig', CooldownsAreCooling', [StateNext]_stateVars
  PROVE  StoreOK' /\ CrashLosesNothing'
<1>1. ASSUME NotifiedIfCleared, UNCHANGED <<loaded, circuit, misconfigured>>
      PROVE  StoreOK' /\ CrashLosesNothing'
  <2>1. CASE chan' = chan
    BY <1>1, <2>1, StoreUnmoved DEF NotifiedIfCleared, store, StateInv
  <2>2. CASE chan' # chan
    BY <1>1, <2>2, NotifiedKeeps DEF NotifiedIfCleared
  <2>. QED BY <2>1, <2>2
<1>2. CASE Reserving
  BY <1>1, <1>2 DEF Reserving, ReserveRefused, Reserve
<1>3. CASE Resetting
  BY <1>1, <1>3 DEF Resetting, ResetChannelHealth, Unmoved
<1>4. CASE Answering
  BY <1>4, NotifiedKeeps DEF Answering, Answered
<1>5. CASE Unnoticed
  <2>1. UNCHANGED <<loaded, chan, circuit, misconfigured, state, file, storage>>
    BY <1>5 DEF Unnoticed, store, Cancelled, FinishSync, StartTest, StartSync, DrainChannel,
                ResumeChannel, SuppressCandidate, ResumeCandidate, DrainAll, ResumeAll, Unmoved
  <2>. QED BY <2>1, StoreUnmoved DEF StateInv
<1>6. CASE UNCHANGED stateVars
  BY <1>6, StoreUnmoved DEF StateInv, stateVars, vars, store
<1>. QED
  BY <1>2, <1>3, <1>4, <1>5, <1>6, TestingKeeps, ReloadFromCopyKeeps, ReloadTakenBackKeeps,
     RestartKeeps, DamageKeeps, TicksKeeps, ExpiresKeeps, ExpiresOnFileKeeps DEF StateNext

LEMMA StateInitInv == StateInit => StateInv /\ HalfOpenBackedByLease /\ InFlightStaysTrusted
<1>. SUFFICES ASSUME StateInit
              PROVE  StateInv /\ HalfOpenBackedByLease /\ InFlightStaysTrusted
  OBVIOUS
<1>1. LeaseInv /\ StateWithinConfig /\ CooldownsAreCooling
  BY LeaseInit DEF StateInit, Init, StateWithinConfig, CooldownsAreCooling, Live, Unknown
<1>2. HalfOpenBackedByLease /\ InFlightStaysTrusted
  BY DEF StateInit, Init, HalfOpenBackedByLease, InFlightStaysTrusted, Live
<1>3. StoreOK
  <2>1. state = [records |-> Nothing, tests |-> {}] /\ file = Missing /\ storage = "persistent"
    BY DEF StateInit
  <2>. QED BY <2>1, NothingIsRecords DEF StoreOK, Readable
<1>4. Follows(Nothing)
  BY DEF StateInit, Init, Follows, Nothing
<1>5. state.records = Nothing /\ file = Missing
  BY DEF StateInit
<1>6. CrashLosesNothing
  BY <1>4, <1>5 DEF CrashLosesNothing
<1>. QED BY <1>1, <1>2, <1>3, <1>6 DEF StateInv

LEMMA StateStep ==
  ASSUME StateInv, [StateNext]_stateVars
  PROVE  StateInv'
<1>1. LeaseInv' /\ StateWithinConfig' /\ CooldownsAreCooling'
  <2>1. CASE [Next]_vars
    BY <2>1, LeaseStep, WithinStep, CooldownsStep DEF StateInv
  <2>2. CASE \E next \in Configs : Restart(next)
    BY <2>2, RestartSchedules
  <2>. QED BY <2>1, <2>2, SchedulerSteps
<1>. QED BY <1>1, StoreStep DEF StateInv

-----------------------------------------------------------------------------
(* While the storage is persistent, a crash at any moment loses no block,  *)
(* cooldown, fault or evidence: the copy and the file follow the records   *)
(* through every notification, reload, restart, failed write and the       *)
(* passing of time.                                                        *)
THEOREM NothingLost == StateSpec => []CrashLosesNothing
<1>1. StateInv => CrashLosesNothing
  BY DEF StateInv
<1>2. StateInit => StateInv
  BY StateInitInv
<1>. QED BY <1>1, <1>2, StateStep, PTL DEF StateSpec

(* The scheduler with its store implements the scheduler: a reload that    *)
(* takes over the copy, or is taken back, is one Scheduler allows.         *)
THEOREM StateImplementsScheduler == StateSpec => ImplementsScheduler
<1>1. StateInit => StateInv
  BY StateInitInv
<1>2. StateInv /\ [StateNext]_stateVars
        => [Next \/ \E next \in Configs : Restart(next)]_vars
  BY SchedulerSteps
<1>. QED BY <1>1, <1>2, StateStep, PTL DEF StateSpec, ImplementsScheduler

(* What the scheduler keeps survives its restarts, from whatever file was  *)
(* found: exclusion, tokens, the bounds of the configuration and trust.    *)
THEOREM SchedulerSurvives ==
  StateSpec => [](/\ TypeOK /\ LeaseMatchesRequest /\ HalfOpenBackedByLease
                  /\ StateWithinConfig /\ InFlightStaysTrusted)
<1>. DEFINE Survivor == StateInv /\ HalfOpenBackedByLease /\ InFlightStaysTrusted
<1>1. StateInit => Survivor
  BY StateInitInv
<1>2. Survivor /\ [StateNext]_stateVars => Survivor'
  <2>. SUFFICES ASSUME Survivor, [StateNext]_stateVars PROVE Survivor'
    OBVIOUS
  <2>1. HalfOpenBackedByLease' /\ InFlightStaysTrusted'
    <3>1. CASE [Next]_vars
      BY <3>1, TokenStep, TrustedStep DEF StateInv
    <3>2. CASE \E next \in Configs : Restart(next)
      BY <3>2, RestartSchedules
    <3>. QED BY <3>1, <3>2, SchedulerSteps
  <2>. QED BY <2>1, StateStep
<1>3. Survivor => /\ TypeOK /\ LeaseMatchesRequest /\ HalfOpenBackedByLease
               /\ StateWithinConfig /\ InFlightStaysTrusted
  BY DEF StateInv, LeaseInv
<1>. HIDE DEF Survivor
<1>. QED BY <1>1, <1>2, <1>3, PTL DEF StateSpec
=============================================================================
