------------------------- MODULE ConfigTransaction -------------------------
(***************************************************************************)
(* Writing the private configuration: the four files under config/, the    *)
(* recovery snapshot in runtime/config-transaction and the revisions, as   *)
(* src/config-transactions.mjs and `mutate' of src/config-manager.mjs      *)
(* write them.  One action is one effect on the file system, because the   *)
(* process can die, and every call can fail, between any two of them.      *)
(***************************************************************************)
EXTENDS Naturals, Sequences

CONSTANTS
  Contents,    (* what a file can hold                                     *)
  Snapshots,   (* contents of the four files a mutation can ask for        *)
  Valid,       (* those that loadConfig accepts                            *)
  Absent,      (* content of an optional file that does not exist          *)
  None         (* no recovery snapshot, no goal, no revision               *)

Files == {"providers", "clients", "env", "routes"}

(* A recovery snapshot and the entries that are left of its directory.     *)
Backups == [snapshot : Snapshots, left : SUBSET (Files \cup {"manifest"})]

ASSUME SnapshotsAssumption ==
  /\ Snapshots \subseteq [Files -> Contents]
  /\ Absent \in Contents
  /\ Valid \subseteq Snapshots
  /\ None \notin Snapshots \cup Backups

VARIABLES
  disk,        \* file -> content
  backup,      \* the recovery snapshot with what is left of its directory
  pc,          \* what the process does next; "down" when it is not running
  goal,        \* the snapshot being written
  written,     \* how many files of it are written
  pending,     \* content of pendingManifest
  revisions    \* contents of the revisions on disk

vars == <<disk, backup, pc, goal, written, pending, revisions>>

-----------------------------------------------------------------------------
(* The recovery snapshot.                                                  *)

Entries(s) == {"manifest"} \cup {f \in Files : s[f] # Absent}
Backup(s) == [snapshot |-> s, left |-> Entries(s)]
Intact == backup # None /\ backup.left = Entries(backup.snapshot)

(* writeConfigSnapshot: the optional files first, then env, then routes.   *)
WriteOrder == <<"providers", "clients", "env", "routes">>

(* Where control goes when an operation ends: a starting process has no    *)
(* pendingManifest yet.                                                    *)
Done == IF pending = None THEN "boot" ELSE "idle"
Failed == IF pending = None THEN "down" ELSE "idle"

-----------------------------------------------------------------------------
(* mutate, prepareRollback, restoreRollback.                               *)

(* The snapshot is written aside and renamed, so it appears as a whole.    *)
Begin(next) ==
  /\ pc = "idle" /\ backup = None
  /\ next # disk
  /\ backup' = Backup(disk)
  /\ goal' = next /\ written' = 0
  /\ pc' = "write"
  /\ UNCHANGED <<disk, pending, revisions>>

(* One file: written aside and renamed, or removed.                        *)
WriteFile ==
  LET file == WriteOrder[written + 1] IN
  /\ pc \in {"write", "rewrite"}
  /\ disk' = [disk EXCEPT ![file] = goal[file]]
  /\ written' = written + 1
  /\ pc' = IF written' < Len(WriteOrder) THEN pc
           ELSE IF pc = "write" THEN "validate" ELSE "commit"
  /\ UNCHANGED <<backup, goal, pending, revisions>>

(* Mutant: the recovery snapshot is dropped before the revision exists.    *)
ValidateOnly ==
  /\ pc = "validate"
  /\ pc' = IF disk \in Valid THEN "commit" ELSE "restore"
  /\ UNCHANGED <<disk, backup, goal, written, pending, revisions>>

(* loadConfig on the files as they are now on disk.                        *)
Validate ==
  /\ pc = "validate"
  /\ pc' = IF disk \in Valid THEN "revision" ELSE "restore"
  /\ UNCHANGED <<disk, backup, goal, written, pending, revisions>>

(* A revision directory is written aside and renamed.  restoreRollback     *)
(* creates none: the snapshot it puts back is a revision already.          *)
CreateRevision ==
  /\ pc = "revision"
  /\ revisions' = revisions \cup {goal}
  /\ pc' = "commit"
  /\ UNCHANGED <<disk, backup, goal, written, pending>>

(* rmSync(directory, recursive): entry by entry, in no particular order.   *)
RemoveEntry(entry) ==
  /\ pc = "commit"
  /\ entry \in backup.left
  /\ backup' = [backup EXCEPT !.left = @ \ {entry}]
  /\ UNCHANGED <<disk, pc, goal, written, pending, revisions>>

(* Mutant: pendingManifest is not advanced.                                *)
RemoveDirectoryOnly ==
  /\ pc = "commit" /\ backup.left = {}
  /\ backup' = None
  /\ pc' = Done
  /\ goal' = None
  /\ UNCHANGED <<disk, written, pending, revisions>>

(* Then the directory.  A mutation makes its revision the pending one.     *)
RemoveDirectory ==
  /\ pc = "commit" /\ backup.left = {}
  /\ backup' = None
  /\ pc' = Done
  /\ pending' = IF pending = None \/ goal = backup.snapshot THEN pending ELSE goal
  /\ goal' = None
  /\ UNCHANGED <<disk, written, revisions>>

-----------------------------------------------------------------------------
(* Recovery: rollbackConfigTransaction after a failure, and                *)
(* recoverConfigTransaction at every load and before every mutation.       *)

(* Mutant: recovery drops the snapshot without writing it back.            *)
RollbackWithoutRewrite ==
  /\ Intact
  /\ goal' = backup.snapshot /\ written' = 0
  /\ pc' = "commit"
  /\ UNCHANGED <<disk, backup, pending, revisions>>

(* The snapshot must be complete: a missing entry is an exception.         *)
Rollback ==
  /\ Intact
  /\ goal' = backup.snapshot /\ written' = 0
  /\ pc' = "rewrite"
  /\ UNCHANGED <<disk, backup, pending, revisions>>

RestoreAfterFailure == pc = "restore" /\ Rollback
Recover == pc \in {"idle", "start"} /\ Rollback

(* configuration_restore_failed, or a start that fails: the snapshot is    *)
(* damaged or cannot be read.                                              *)
RollbackFails ==
  /\ pc \in {"restore", "start"}
  /\ pc' = Failed /\ goal' = None
  /\ UNCHANGED <<disk, backup, written, pending, revisions>>

(* A file operation fails while a mutation writes, validates or commits;   *)
(* a failure during recovery itself is not retried.                        *)
StepFails ==
  /\ \/ pc \in {"write", "validate", "revision"} /\ pc' = "restore"
     \/ pc = "commit" /\ goal # backup.snapshot /\ pc' = "restore"
     \/ pc = "rewrite" /\ pc' = Failed
     \/ pc = "commit" /\ goal = backup.snapshot /\ pc' = Failed
  /\ goal' = IF pc' = "restore" THEN goal ELSE None
  /\ UNCHANGED <<disk, backup, written, pending, revisions>>

-----------------------------------------------------------------------------
(* The process.                                                            *)

Crash ==
  /\ pc # "down"
  /\ pc' = "down"
  /\ goal' = None /\ pending' = None
  /\ UNCHANGED <<disk, backup, written, revisions>>

Start ==
  /\ pc = "down"
  /\ pc' = IF backup = None THEN "boot" ELSE "start"
  /\ UNCHANGED <<disk, backup, goal, written, pending, revisions>>

(* loadConfig, then initialRevision: the revision of what is on disk.      *)
Boot ==
  /\ pc = "boot"
  /\ disk \in Valid
  /\ pending' = disk
  /\ revisions' = revisions \cup {disk}
  /\ pc' = "idle"
  /\ UNCHANGED <<disk, backup, goal, written>>

-----------------------------------------------------------------------------
Init ==
  /\ disk \in Valid
  /\ backup = None /\ goal = None /\ written = 0
  /\ pc = "idle"
  /\ pending = disk /\ revisions = {disk}

Next ==
  \/ \E next \in Snapshots : Begin(next)
  \/ WriteFile \/ Validate \/ CreateRevision
  \/ \E entry \in Files \cup {"manifest"} : RemoveEntry(entry)
  \/ RemoveDirectory
  \/ RestoreAfterFailure \/ Recover \/ RollbackFails \/ StepFails
  \/ Crash \/ Start \/ Boot

Spec == Init /\ [][Next]_vars

-----------------------------------------------------------------------------
(* Properties.                                                             *)

TypeOK ==
  /\ disk \in [Files -> Contents]
  /\ backup \in Backups \cup {None}
  /\ pc \in {"idle", "write", "validate", "revision", "commit", "restore", "rewrite",
             "down", "start", "boot"}
  /\ goal \in Snapshots \cup {None}
  /\ written \in 0 .. 4
  /\ pending \in Valid \cup {None}
  /\ revisions \subseteq Snapshots

(* What the next load reads: the complete recovery snapshot if there is    *)
(* one, and otherwise the files.                                           *)
Durable == IF Intact THEN backup.snapshot ELSE disk

(* Across crashes and failed calls the four files change as one value,     *)
(* from one valid configuration to another.                                *)
Atomic == INSTANCE AtomicConfig WITH config <- Durable
AtomicConfiguration == Atomic!Spec

(* There is a revision of every configuration that a load can read, so     *)
(* that a rollback can always name it.                                     *)
DurableIsRecorded == Durable \in revisions

(* Between operations, whatever failed before, the pending revision that   *)
(* the manager reports is the one on disk.                                 *)
PendingIsDurable == pc = "idle" /\ backup = None => pending = disk

(* README.md, line 125: after the process exits in the middle of a write,  *)
(* the next load recovers.                                                 *)
RecoveryPossible == pc = "start" => Intact
=============================================================================
