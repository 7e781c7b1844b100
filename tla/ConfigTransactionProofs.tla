---------------------- MODULE ConfigTransactionProofs ----------------------
(***************************************************************************)
(* ConfigTransaction implements AtomicConfig, for every set of             *)
(* configurations.                                                         *)
(***************************************************************************)
EXTENDS ConfigTransaction, TLAPS

(* What each point of the program may rely on.                             *)
Writing ==
  pc \in {"write", "rewrite"} =>
    /\ Intact
    /\ written < 4
    /\ goal \in Snapshots
    /\ \A i \in 1 .. 4 : i <= written => disk[WriteOrder[i]] = goal[WriteOrder[i]]

Writes ==
  /\ pc = "rewrite" => goal = backup.snapshot
  /\ pc \in {"validate", "revision"} => Intact /\ goal = disk /\ goal \in Snapshots
  /\ pc = "revision" => disk \in Valid

(* The recovery snapshot is damaged only once the files are valid.         *)
Committing ==
  /\ backup # None => backup.snapshot \in Valid
  /\ pc = "commit" => backup # None /\ goal = disk /\ disk \in Valid
  /\ ~Intact => disk \in Valid
  /\ pc = "boot" => backup = None

TransactionInv == TypeOK /\ Writing /\ Writes /\ Committing

LEMMA DiskIsGoal ==
  ASSUME NEW d \in [Files -> Contents], NEW g \in [Files -> Contents],
         \A i \in 1 .. 4 : d[WriteOrder[i]] = g[WriteOrder[i]]
  PROVE  d = g
<1>1. \A f \in Files : \E i \in 1 .. 4 : f = WriteOrder[i]
  BY DEF Files, WriteOrder
<1>. QED BY <1>1

LEMMA BackupIsIntact ==
  ASSUME NEW s \in Snapshots
  PROVE  /\ Backup(s) \in Backups /\ Backup(s) # None
         /\ Backup(s).snapshot = s
         /\ Backup(s).left = Entries(s)
<1>1. Backup(s) \in Backups
  BY DEF Backup, Backups, Entries
<1>. QED BY <1>1, SnapshotsAssumption DEF Backup, SnapshotsAssumption

-----------------------------------------------------------------------------
LEMMA InvInit == Init => TransactionInv
BY SnapshotsAssumption
DEF Init, TransactionInv, TypeOK, Writing, Writes, Committing, Intact, SnapshotsAssumption

LEMMA InvStep == TransactionInv /\ [Next]_vars => TransactionInv'
<1>. SUFFICES ASSUME TransactionInv, [Next]_vars PROVE TransactionInv'
  OBVIOUS
<1>. USE SnapshotsAssumption DEF SnapshotsAssumption
<1>1. ASSUME NEW next \in Snapshots, Begin(next)
      PROVE  TransactionInv'
  <2>1. disk \in Valid /\ disk \in Snapshots
    BY <1>1 DEF Begin, TransactionInv, Committing, Intact
  <2>2. backup' \in Backups /\ Intact' /\ backup'.snapshot = disk
    BY <1>1, <2>1, BackupIsIntact DEF Begin, Intact
  <2>. QED BY <1>1, <2>1, <2>2
       DEF Begin, TransactionInv, TypeOK, Writing, Writes, Committing
<1>2. CASE WriteFile
  <2>. DEFINE file == WriteOrder[written + 1]
  <2>1. written \in 0 .. 3 /\ goal \in Snapshots /\ Intact
    BY <1>2 DEF WriteFile, TransactionInv, TypeOK, Writing
  <2>2. file \in Files /\ Len(WriteOrder) = 4
    BY <2>1 DEF Files, WriteOrder
  <2>3. disk' \in [Files -> Contents]
    BY <1>2, <2>1, <2>2 DEF WriteFile, TransactionInv, TypeOK
  <2>4. ASSUME NEW i \in 1 .. 4, i <= written'
        PROVE  disk'[WriteOrder[i]] = goal[WriteOrder[i]]
    <3>1. WriteOrder[i] \in Files
      BY DEF Files, WriteOrder
    <3>2. CASE i = written + 1
      BY <1>2, <2>2, <3>1, <3>2 DEF WriteFile, TransactionInv, TypeOK
    <3>3. CASE i <= written
      BY <1>2, <2>1, <2>2, <3>1, <3>3
      DEF WriteFile, TransactionInv, TypeOK, Writing, WriteOrder
    <3>. QED BY <1>2, <2>1, <2>4, <3>2, <3>3 DEF WriteFile
  <2>5. Intact' /\ goal' = goal /\ backup' = backup
    BY <1>2, <2>1 DEF WriteFile, Intact
  <2>6. CASE written' < 4
    <3>1. pc' = pc /\ written' \in 0 .. 4 /\ pc \in {"write", "rewrite"}
      BY <1>2, <2>1, <2>2, <2>6 DEF WriteFile
    <3>2. UNCHANGED <<backup, goal, pending, revisions>>
      BY <1>2 DEF WriteFile
    <3>3. TypeOK'
      BY <2>3, <3>1, <3>2 DEF TransactionInv, TypeOK
    <3>4. Writing'
      BY <2>1, <2>4, <2>5, <2>6 DEF Writing
    <3>5. Writes'
      BY <3>1, <3>2 DEF TransactionInv, Writes
    <3>6. Committing'
      BY <2>5, <3>1, <3>2 DEF TransactionInv, Committing
    <3>. QED BY <3>3, <3>4, <3>5, <3>6 DEF TransactionInv
  <2>7. CASE ~(written' < 4)
    <3>1. written' = 4
      BY <1>2, <2>1, <2>7 DEF WriteFile
    <3>2. disk' = goal
      BY <2>1, <2>3, <2>4, <3>1, DiskIsGoal
    <3>3. /\ pc = "write" => pc' = "validate"
          /\ pc = "rewrite" => pc' = "commit"
          /\ pc \in {"write", "rewrite"}
          /\ UNCHANGED <<backup, goal, pending, revisions>>
      BY <1>2, <2>2, <3>1 DEF WriteFile
    <3>4. TypeOK'
      BY <2>3, <3>1, <3>3 DEF TransactionInv, TypeOK
    <3>5. Writing' /\ Writes'
      BY <2>1, <2>5, <3>2, <3>3 DEF Writing, Writes
    <3>6. Committing'
      BY <2>1, <2>5, <3>2, <3>3 DEF TransactionInv, Writes, Committing, Intact
    <3>. QED BY <3>4, <3>5, <3>6 DEF TransactionInv
  <2>. QED BY <2>6, <2>7
<1>3. CASE Validate \/ CreateRevision
  BY <1>3
  DEF Validate, CreateRevision, TransactionInv, TypeOK, Writing, Writes, Committing, Intact
<1>4. ASSUME NEW entry \in Files \cup {"manifest"}, RemoveEntry(entry)
      PROVE  TransactionInv'
  <2>1. backup \in Backups /\ disk \in Valid /\ backup' \in Backups
        /\ backup'.snapshot = backup.snapshot
    BY <1>4 DEF RemoveEntry, TransactionInv, TypeOK, Committing, Backups
  <2>. QED BY <1>4, <2>1
       DEF RemoveEntry, TransactionInv, TypeOK, Writing, Writes, Committing
<1>5. CASE RemoveDirectory
  BY <1>5
  DEF RemoveDirectory, Done, TransactionInv, TypeOK, Writing, Writes, Committing, Intact
<1>6. CASE RestoreAfterFailure \/ Recover
  BY <1>6
  DEF RestoreAfterFailure, Recover, Rollback, TransactionInv, TypeOK, Writing, Writes,
      Committing, Intact, Backups
<1>7. CASE RollbackFails
  BY <1>7
  DEF RollbackFails, Failed, TransactionInv, TypeOK, Writing, Writes, Committing, Intact
<1>8. CASE StepFails
  BY <1>8
  DEF StepFails, Failed, TransactionInv, TypeOK, Writing, Writes, Committing, Intact
<1>9. CASE Crash \/ Start \/ Boot
  BY <1>9
  DEF Crash, Start, Boot, TransactionInv, TypeOK, Writing, Writes, Committing, Intact
<1>10. CASE UNCHANGED vars
  BY <1>10 DEF vars, TransactionInv, TypeOK, Writing, Writes, Committing, Intact
<1>. QED BY <1>1, <1>2, <1>3, <1>4, <1>5, <1>6, <1>7, <1>8, <1>9, <1>10 DEF Next

LEMMA InvHolds == Spec => []TransactionInv
BY InvInit, InvStep, PTL DEF Spec

-----------------------------------------------------------------------------
(* Whatever crashes and fails, the configuration that the next load reads  *)
(* is a valid one: config-transactions.mjs implements AtomicConfig.        *)
LEMMA DurableValid == TransactionInv => Durable \in Valid
BY SnapshotsAssumption
DEF TransactionInv, TypeOK, Committing, Durable, Intact, SnapshotsAssumption

THEOREM ImplementsAtomicConfig == Spec => AtomicConfiguration
<1>1. Init => Atomic!Init
  BY InvInit, DurableValid DEF Atomic!Init
<1>2. (Durable \in Valid)' => [Atomic!Replace]_Durable
  BY DEF Atomic!Replace
<1>. QED BY <1>1, <1>2, InvHolds, DurableValid, PTL DEF Spec, AtomicConfiguration, Atomic!Spec

-----------------------------------------------------------------------------
(* Revisions are written before the configuration they describe can become *)
(* the durable one, and pendingManifest follows the files.                 *)
Recorded ==
  /\ backup # None => backup.snapshot \in revisions
  /\ ~Intact => disk \in revisions
  /\ pc = "commit" => goal \in revisions

Pending ==
  /\ pending # None => pending = IF backup = None THEN disk ELSE backup.snapshot
  /\ pc = "idle" => pending # None
  /\ pc \in {"start", "boot", "down"} => pending = None

LEMMA RecordedStep ==
  ASSUME TransactionInv, Recorded, [Next]_vars
  PROVE  Recorded'
<1>. USE SnapshotsAssumption DEF SnapshotsAssumption
<1>1. ASSUME NEW next \in Snapshots, Begin(next)
      PROVE  Recorded'
  <2>1. disk \in Snapshots /\ disk \in revisions
    BY <1>1 DEF Begin, TransactionInv, Committing, Recorded, Intact
  <2>2. Intact' /\ backup'.snapshot = disk
    BY <1>1, <2>1, BackupIsIntact DEF Begin, Intact
  <2>. QED BY <1>1, <2>1, <2>2 DEF Begin, Recorded
<1>2. CASE WriteFile
  <2>1. Intact /\ Intact' /\ UNCHANGED <<backup, revisions>>
    BY <1>2 DEF WriteFile, TransactionInv, Writing, Intact
  <2>2. pc' = "commit" => goal' = backup.snapshot
    BY <1>2 DEF WriteFile, TransactionInv, Writes
  <2>. QED BY <2>1, <2>2 DEF Recorded, Intact
<1>3. CASE Validate \/ CreateRevision
  BY <1>3 DEF Validate, CreateRevision, Recorded, TransactionInv, Writes, Intact
<1>4. ASSUME NEW entry \in Files \cup {"manifest"}, RemoveEntry(entry)
      PROVE  Recorded'
  <2>1. backup'.snapshot = backup.snapshot /\ goal = disk
    BY <1>4 DEF RemoveEntry, TransactionInv, TypeOK, Committing, Backups
  <2>. QED BY <1>4, <2>1 DEF RemoveEntry, Recorded, TransactionInv, Committing
<1>5. CASE RemoveDirectory
  BY <1>5 DEF RemoveDirectory, Done, Recorded, TransactionInv, Committing, Intact
<1>6. CASE RestoreAfterFailure \/ Recover
  BY <1>6 DEF RestoreAfterFailure, Recover, Rollback, Recorded, Intact
<1>7. CASE RollbackFails \/ StepFails
  BY <1>7 DEF RollbackFails, StepFails, Failed, Recorded, Intact
<1>8. CASE Crash \/ Start \/ Boot
  BY <1>8 DEF Crash, Start, Boot, Recorded, Intact
<1>9. CASE UNCHANGED vars
  BY <1>9 DEF vars, Recorded, Intact
<1>. QED BY <1>1, <1>2, <1>3, <1>4, <1>5, <1>6, <1>7, <1>8, <1>9 DEF Next

LEMMA PendingStep ==
  ASSUME TransactionInv, Pending, [Next]_vars
  PROVE  Pending'
<1>. USE SnapshotsAssumption DEF SnapshotsAssumption
<1>1. ASSUME NEW next \in Snapshots, Begin(next)
      PROVE  Pending'
  <2>1. disk \in Snapshots
    BY <1>1 DEF Begin, TransactionInv, Committing, Intact
  <2>2. backup' # None /\ backup'.snapshot = disk
    BY <1>1, <2>1, BackupIsIntact DEF Begin
  <2>. QED BY <1>1, <2>2 DEF Begin, Pending
<1>2. CASE WriteFile
  BY <1>2 DEF WriteFile, Pending, TransactionInv, Writing, Intact
<1>3. CASE Validate \/ CreateRevision
  BY <1>3 DEF Validate, CreateRevision, Pending
<1>4. ASSUME NEW entry \in Files \cup {"manifest"}, RemoveEntry(entry)
      PROVE  Pending'
  <2>1. backup # None /\ backup' # None /\ backup'.snapshot = backup.snapshot
    BY <1>4 DEF RemoveEntry, TransactionInv, TypeOK, Committing, Backups
  <2>. QED BY <1>4, <2>1 DEF RemoveEntry, Pending
<1>5. CASE RemoveDirectory
  BY <1>5 DEF RemoveDirectory, Done, Pending, TransactionInv, TypeOK, Committing
<1>6. CASE RestoreAfterFailure \/ Recover
  BY <1>6 DEF RestoreAfterFailure, Recover, Rollback, Pending
<1>7. CASE RollbackFails \/ StepFails
  BY <1>7 DEF RollbackFails, StepFails, Failed, Pending
<1>8. CASE Crash \/ Start \/ Boot
  BY <1>8 DEF Crash, Start, Boot, Pending, TransactionInv, Committing
<1>9. CASE UNCHANGED vars
  BY <1>9 DEF vars, Pending
<1>. QED BY <1>1, <1>2, <1>3, <1>4, <1>5, <1>6, <1>7, <1>8, <1>9 DEF Next

(* Types of a transaction: what is in the recovery directory is always part *)
(* of one snapshot, also after any crash or failure.                       *)
THEOREM TransactionTyped == Spec => []TypeOK
<1>1. TransactionInv => TypeOK
  BY DEF TransactionInv
<1>. QED BY <1>1, InvHolds, PTL

(* Every configuration that a load can read has a revision.                *)
THEOREM DurableRecorded == Spec => []DurableIsRecorded
<1>1. Init => Recorded
  BY DEF Init, Recorded, Intact
<1>2. TransactionInv /\ Recorded => DurableIsRecorded
  BY DEF Recorded, DurableIsRecorded, Durable, Intact
<1>3. TransactionInv /\ Recorded /\ [Next]_vars => Recorded'
  BY RecordedStep
<1>. QED BY <1>1, <1>2, <1>3, InvHolds, PTL DEF Spec

(* Between operations pendingManifest describes the files.                 *)
THEOREM PendingDurable == Spec => []PendingIsDurable
<1>1. Init => Pending
  BY SnapshotsAssumption DEF Init, Pending, SnapshotsAssumption
<1>2. Pending => PendingIsDurable
  BY DEF Pending, PendingIsDurable
<1>3. TransactionInv /\ Pending /\ [Next]_vars => Pending'
  BY PendingStep
<1>. QED BY <1>1, <1>2, <1>3, InvHolds, PTL DEF Spec
=============================================================================
