----------------------------- MODULE Revisions -----------------------------
(***************************************************************************)
(* The history of the private configuration (src/config-revisions.mjs),    *)
(* the generated releases (src/generate.mjs) and what the manager of       *)
(* src/config-manager.mjs remembers of both, under jobs that edit,         *)
(* synchronise, apply, roll back and prune, edits made by hand, crashes    *)
(* and the commands of scripts/gateway.mjs that another process runs.      *)
(*                                                                         *)
(* One action is one callback: what runs between two waits for something   *)
(* outside the process.  How the files change atomically is module         *)
(* ConfigTransaction, how the children are exchanged RuntimeApply; which   *)
(* job may run is left to ControlPlane.  Age is left open: the clock may   *)
(* be set back, so any revisions and releases can be the newest.           *)
(***************************************************************************)
EXTENDS ControlJobs, FiniteSets

CONSTANTS
  Contents,    (* valid values of the private configuration                *)
  Releases,    (* release digests                                          *)
  ReleaseOf,   (* the release a configuration generates                    *)
  Revs,        (* revision ids; their number bounds the history            *)
  Keeps,       (* numbers of revisions an administrator may keep           *)
  KeepExtra,   (* DEFAULT_EXTRA_RELEASES                                   *)
  None

Manifests == [content : Contents, release : Releases \cup {None}]
WaysBack == [revision : Revs, content : Contents]
ASSUME RevisionsAssumption ==
  /\ ReleaseOf \in [Contents -> Releases]
  /\ Keeps \subseteq Nat \ {0}
  /\ KeepExtra \in Nat
  /\ None \notin Contents \cup Releases \cup Revs \cup Manifests \cup WaysBack

VARIABLES
  disk,      \* the private configuration in the files
  history,   \* revision -> its manifest and snapshot, if it reads
  damaged,   \* revision directories that do not read
  releases,  \* release directories with a manifest
  pointer,   \* active.json
  phase,     \* of the gateway process
  child,     \* the release its children run, or are brought back to
  serving,   \* the configuration it routes with
  pending,   \* pendingManifest, by its id
  loaded,    \* loadedRevision
  task,      \* what each job holds across its awaits
  edited,    \* history variable: the files were edited by hand meanwhile
  strayed    \* history variable: ... while they were applied, or an apply
             \*   that failed could not be taken back

store  == <<history, damaged>>
built  == <<releases, pointer>>
parent == <<child, serving, loaded, strayed>>
revVars == <<disk, store, built, phase, parent, pending, task, edited>>

NoTask == [step |-> "none"]
NoTasks == [j \in Jobs |-> NoTask]
Pointers == [active : Releases \cup {None}, previous : Releases \cup {None}]
Undos == WaysBack \cup {None}
Tasks ==
  {NoTask} \cup [step : {"sync"}, from : Revs]
           \cup [step : {"apply"}, content : Contents, undo : Undos]
           \cup [step : {"undo"}, previous : Contents, undo : Undos]

Recorded(c) == [content |-> c, release |-> None]
ValidIn(h) == {r \in Revs : h[r] # None}
Valid == ValidIn(history)
Up == phase = "up"
Busy == task # NoTasks \/ phase = "starting"
Set(j, value) == task' = [task EXCEPT ![j] = value]
Done(j) == Set(j, NoTask) /\ edited' = FALSE

-----------------------------------------------------------------------------
(* Revisions.                                                              *)

UnusedIn(h) == Revs \ (ValidIn(h) \cup damaged)
With(h, r, c) == [h EXCEPT ![r] = Recorded(c)]

(* Mutant: edits by hand go unnoticed.                                     *)
RefreshedNever == {[current |-> pending, history |-> history] : r \in Valid \cap {pending}}

(* refreshCurrentRevision: files that differ from the pending revision     *)
(* become a revision of their own, whose parent is read first.             *)
Stale == history[pending].content # disk
Refreshed ==
  CASE ~Up \/ pending \notin Valid -> {}
    [] Up /\ pending \in Valid /\ ~Stale -> {[current |-> pending, history |-> history]}
    [] Up /\ pending \in Valid /\ Stale ->
         {[current |-> r, history |-> With(history, r, disk)] : r \in UnusedIn(history)}

Becomes(h, r) == history' = h /\ pending' = r
RefreshNow == \E now \in Refreshed : Becomes(now.history, now.current)

(* linkRelease                                                             *)
Linked(h, r, release) == [h EXCEPT ![r] = [@ EXCEPT !.release = release]]

-----------------------------------------------------------------------------
(* Releases.                                                               *)

LinksIn(h) == {h[r].release : r \in ValidIn(h)} \ {None}
Least(m, n) == IF m < n THEN m ELSE n

(* Mutant: the history protects no release.                                *)
PrunedToPointers(present, ptr, h) ==
  {(present \cap {ptr.active, ptr.previous}) \cup extra : extra \in
     {e \in SUBSET (present \ {ptr.active, ptr.previous}) :
        Cardinality(e) = Least(KeepExtra, Cardinality(present \ {ptr.active, ptr.previous}))}}

(* pruneReleases: what the pointers and the valid revisions name stays,    *)
(* and beside it KeepExtra other directories.                              *)
Pruned(present, ptr, h) ==
  LET named == {ptr.active, ptr.previous} \cup LinksIn(h)
      others == present \ named
  IN  {(present \cap named) \cup extra : extra \in
         {e \in SUBSET others : Cardinality(e) = Least(KeepExtra, Cardinality(others))}}

(* ... and some of the others too, when one of them cannot be removed.     *)
PartlyPruned(present, ptr, h) ==
  {left \in SUBSET present : \E kept \in Pruned(present, ptr, h) : kept \subseteq left}

(* activateRelease                                                         *)
Activated(release) ==
  IF pointer.active = release THEN pointer
  ELSE [active |-> release, previous |-> pointer.active]

ActivateRelease(release, h) ==
  pointer' = Activated(release) /\ releases' \in Pruned(releases, pointer', h)

(* ... which may fail before active.json is replaced, or in the pruning.   *)
ActivateFails(release, h) ==
  \/ UNCHANGED built
  \/ pointer' = Activated(release) /\ releases' \in PartlyPruned(releases, pointer', h)

(* generateRelease, then activateRelease.                                  *)
ActivateNew(release, h) ==
  /\ pointer' = Activated(release)
  /\ releases' \in Pruned(releases \cup {release}, pointer', h)

-----------------------------------------------------------------------------
(* What happens beside the jobs.                                           *)

RevisionsInit ==
  /\ disk \in Contents
  /\ history = [r \in Revs |-> None] /\ damaged = {}
  /\ releases = {} /\ pointer = [active |-> None, previous |-> None]
  /\ phase = "down"
  /\ child = None /\ serving = None /\ loaded = None /\ strayed = FALSE
  /\ pending = None
  /\ task = NoTasks
  /\ edited = FALSE

(* The files are edited by hand, at any time.                              *)
External(c) ==
  /\ c # disk
  /\ disk' = c
  /\ edited' = (edited \/ Busy)
  /\ UNCHANGED <<store, built, phase, parent, pending, task>>

(* A page that shows the status, the storage or a diff refreshes.          *)
Refresh ==
  /\ Up /\ Stale
  /\ RefreshNow
  /\ UNCHANGED <<disk, damaged, built, phase, parent, task, edited>>

(* The commands activate and rollback of scripts/gateway.mjs.              *)
ActivateCommand ==
  /\ ActivateNew(ReleaseOf[disk], history)
  /\ UNCHANGED <<disk, store, phase, parent, pending, task, edited>>

RollbackCommand ==
  /\ pointer.previous \in releases
  /\ pointer' = [active |-> pointer.previous, previous |-> None]
  /\ UNCHANGED <<disk, store, releases, phase, parent, pending, task, edited>>

(* start() generates and activates, then waits for the children ...        *)
Start ==
  /\ phase = "down"
  /\ phase' = "starting"
  /\ ActivateNew(ReleaseOf[disk], history)
  /\ serving' = disk /\ child' = ReleaseOf[disk]
  /\ edited' = FALSE
  /\ UNCHANGED <<disk, store, pending, loaded, task, strayed>>

(* ... and creates the gateway: initialRevision takes a revision of the    *)
(* same files, or records them, and links it to the release it runs.       *)
Ready ==
  /\ phase = "starting"
  /\ child \in releases
  /\ LET same == {r \in Valid : history[r].content = disk}
         initial == IF same = {} THEN UnusedIn(history) ELSE same
         recorded(r) == IF same = {} THEN With(history, r, disk) ELSE history
     IN  \E r \in initial :
           /\ history' = Linked(recorded(r), r, child)
           /\ pending' = r /\ loaded' = r
  /\ phase' = "up"
  /\ strayed' = edited /\ edited' = FALSE
  /\ UNCHANGED <<disk, damaged, built, child, serving, task>>

Died ==
  /\ phase' = "down" /\ task' = NoTasks /\ edited' = FALSE
  /\ pending' = None /\ loaded' = None /\ child' = None /\ serving' = None
  /\ strayed' = FALSE

Crash ==
  /\ phase # "down"
  /\ Died
  /\ UNCHANGED <<disk, store, built>>

-----------------------------------------------------------------------------
(* Jobs of one callback.                                                   *)

(* mutate: a changed configuration becomes the pending revision ...        *)
Edit(j, c) ==
  /\ task[j] = NoTask
  /\ \E now \in Refreshed :
       \/ c = disk /\ Becomes(now.history, now.current)
       \/ c # disk /\ \E r \in UnusedIn(now.history) : Becomes(With(now.history, r, c), r)
  /\ disk' = c
  /\ UNCHANGED <<damaged, built, phase, parent, task, edited>>

(* ... or its journal cannot be removed: the files are put back, but the   *)
(* revision stays.                                                         *)
EditUndone(j, c) ==
  /\ task[j] = NoTask
  /\ \E now \in Refreshed : \E r \in UnusedIn(now.history) :
       Becomes(With(now.history, r, c), now.current)
  /\ UNCHANGED <<disk, damaged, built, phase, parent, task, edited>>

(* An edit, a rollback or an apply that is refused changes nothing, or     *)
(* has at most refreshed.                                                  *)
Refused(j) ==
  /\ task[j] = NoTask /\ Up
  /\ UNCHANGED <<history, pending>> \/ RefreshNow
  /\ UNCHANGED <<disk, damaged, built, phase, parent, task, edited>>

(* Mutant: only the pending revision is protected.                         *)
ProtectedPending(current) == {current}

(* pruneRevisions: the loaded and the current revision are protected.      *)
Protected(current) == {loaded, current}

(* The newest `keep' revisions that read stay, and the protected ones; a   *)
(* directory that does not read always goes.                               *)
Retained(keep, now) ==
  LET valid == ValidIn(now.history)
  IN  {newest \cup Protected(now.current) : newest \in
         {n \in SUBSET valid : Cardinality(n) = Least(keep, Cardinality(valid))}}
Only(h, retained) == [r \in Revs |-> IF r \in retained THEN h[r] ELSE None]

Prune(j, keep) ==
  /\ task[j] = NoTask
  /\ \E now \in Refreshed : \E retained \in Retained(keep, now) :
       Becomes(Only(now.history, retained), now.current)
  /\ damaged' = {}
  /\ UNCHANGED <<disk, built, phase, parent, task, edited>>

(* A directory cannot be removed: those before it are gone, and of that    *)
(* one any part may be.                                                    *)
PruneFails(j, keep) ==
  /\ task[j] = NoTask
  /\ \E now \in Refreshed : \E retained \in Retained(keep, now) :
       LET removable == (ValidIn(now.history) \cup damaged) \ retained
       IN  \E gone \in SUBSET removable : \E bad \in removable \ gone :
             /\ Becomes(Only(now.history, Revs \ (gone \cup {bad})), now.current)
             /\ damaged' = (damaged \ gone) \cup {bad}
  /\ UNCHANGED <<disk, built, phase, parent, task, edited>>

-----------------------------------------------------------------------------
(* syncModels: the files are read, the upstream catalogs awaited, and what *)
(* was read is written back with other routes.                             *)

SyncBegin(j) ==
  /\ task[j] = NoTask
  /\ \E now \in Refreshed :
       /\ Becomes(now.history, now.current)
       /\ Set(j, [step |-> "sync", from |-> now.current])
  /\ edited' = FALSE
  /\ UNCHANGED <<disk, damaged, built, phase, parent>>

SyncEnd(j, c) ==
  LET from == task[j].from
  IN  /\ task[j].step = "sync"
      /\ IF c = history[from].content
         THEN UNCHANGED <<disk, history, pending>>
         ELSE /\ from \in Valid
              /\ \E r \in UnusedIn(history) : Becomes(With(history, r, c), r)
              /\ disk' = c
      /\ Done(j)
      /\ UNCHANGED <<damaged, built, phase, parent>>

SyncFails(j) ==
  /\ task[j].step = "sync"
  /\ Done(j)
  /\ UNCHANGED <<disk, store, built, phase, parent, pending>>

-----------------------------------------------------------------------------
(* apply and rollback.                                                     *)

(* The release is generated before the children are drained.               *)
Generate(j, c, undo) ==
  /\ releases' = releases \cup {ReleaseOf[c]}
  /\ Set(j, [step |-> "apply", content |-> c, undo |-> undo]) /\ edited' = FALSE
  /\ UNCHANGED <<damaged, pointer, phase, parent>>

ApplyBegin(j) ==
  /\ task[j] = NoTask /\ Up
  /\ Generate(j, disk, None)
  /\ UNCHANGED <<disk, history, pending>>

(* prepareRollback: the target becomes the configuration, under a revision *)
(* of its own, and is generated in the same callback.                      *)
RollbackBegin(j, target) ==
  /\ task[j] = NoTask
  /\ target \in Valid /\ history[target].content # disk
  /\ disk' = history[target].content
  /\ \E now \in Refreshed : \E r \in UnusedIn(now.history) :
       /\ Becomes(With(now.history, r, disk'), r)
       /\ Generate(j, disk', [revision |-> now.current, content |-> disk])

(* The release is the one the children run, which then stay: only the      *)
(* routes change.  Without children nothing is applied.                    *)
SameRelease(j) ==
  task[j].step = "apply" /\ child # None /\ ReleaseOf[task[j].content] = child
Exchanges(j) ==
  task[j].step = "apply" /\ child # None /\ ReleaseOf[task[j].content] # child

(* Mutant: the pending revision is marked, whatever the files are.         *)
MarkAppliedPending(digest) ==
  /\ digest \in releases'
  /\ Becomes(Linked(history, pending, digest), pending)
  /\ loaded' = pending

(* markApplied: the revision of the files as they are now is the loaded    *)
(* one, and is linked to the release.                                      *)
MarkApplied(digest) ==
  /\ digest \in releases'
  /\ \E now \in Refreshed :
       /\ Becomes(Linked(now.history, now.current, digest), now.current)
       /\ loaded' = now.current

(* What it leaves when it fails, and loadedRevision is put back: the files *)
(* have a revision, linked or not, or not even that.                       *)
Unmarked(digest) ==
  {[current |-> pending, history |-> history]} \cup Refreshed
    \cup {[now EXCEPT !.history = Linked(@, now.current, digest)] :
             now \in {n \in Refreshed : digest \in releases}}

(* restoreRollback, which may fail and then leaves the target.             *)
Restored(undo, current) ==
  \/ undo # None /\ disk' = undo.content /\ pending' = undo.revision
  \/ disk' = disk /\ pending' = current

(* commit(), or the same without an exchange.                              *)
ApplySucceeds(j) ==
  LET c == task[j].content digest == ReleaseOf[c]
  IN  /\ \/ SameRelease(j) /\ UNCHANGED built
         \/ Exchanges(j) /\ ActivateRelease(digest, history)
      /\ serving' = c /\ child' = digest
      /\ MarkApplied(digest)
      /\ strayed' = edited
      /\ Done(j)
      /\ UNCHANGED <<disk, damaged, phase>>

(* There are no children, or the traffic does not drain, or the new ones   *)
(* do not get ready or cannot be routed to.  Then the old ones come back   *)
(* and their release is activated ...                                      *)
ApplyFails(j) ==
  /\ task[j].step = "apply"
  /\ UNCHANGED built \/ (Exchanges(j) /\ ActivateRelease(child, history))
  /\ Restored(task[j].undo, pending)
  /\ Done(j)
  /\ UNCHANGED <<store, phase, parent>>

(* ... unless one of that fails, and nothing is supervised any more.       *)
ApplyStrands(j) ==
  /\ Exchanges(j)
  /\ child' = None
  /\ ActivateFails(child, history)
  /\ Restored(task[j].undo, pending)
  /\ Done(j)
  /\ UNCHANGED <<store, phase, serving, loaded, strayed>>

(* The children stay, marking their release fails, and the previous routes *)
(* are loaded again.                                                       *)
ReloadFails(j) ==
  /\ SameRelease(j)
  /\ \E left \in Unmarked(child) :
       history' = left.history /\ Restored(task[j].undo, left.current)
  /\ Done(j)
  /\ UNCHANGED <<damaged, built, phase, parent>>

(* The commit fails half-way, in the activation or after it, and the old   *)
(* children are started again ...                                          *)
CommitFails(j) ==
  LET c == task[j].content digest == ReleaseOf[c]
  IN  /\ Exchanges(j)
      /\ \/ ActivateFails(digest, history) /\ Becomes(history, pending)
         \/ /\ ActivateRelease(digest, history)
            /\ \E left \in Unmarked(digest) : Becomes(left.history, left.current)
      /\ serving' = c
      /\ strayed' = (strayed \/ edited)
      /\ Set(j, [step |-> "undo", previous |-> serving, undo |-> task[j].undo])
      /\ UNCHANGED <<disk, damaged, phase, child, loaded, edited>>

(* Mutant: the previous release runs again with the new routes.            *)
UndoneChildrenOnly(j) ==
  /\ task[j].step = "undo"
  /\ ActivateRelease(child, history)
  /\ Restored(task[j].undo, pending)
  /\ Done(j)
  /\ UNCHANGED <<store, phase, serving, child, loaded, strayed>>

(* ... with their routes and their release active ...                      *)
Undo(j) ==
  /\ task[j].step = "undo"
  /\ serving' = task[j].previous
  /\ ActivateRelease(child, history)
  /\ Restored(task[j].undo, pending)
  /\ Done(j)
  /\ UNCHANGED <<store, phase, child, loaded, strayed>>

(* ... or they do not start, or their routes cannot be loaded, or their    *)
(* release cannot be activated: nothing is supervised.                     *)
UndoFails(j) ==
  /\ task[j].step = "undo"
  /\ \/ UNCHANGED <<serving, built>>
     \/ serving' = task[j].previous /\ ActivateFails(child, history)
  /\ child' = None
  /\ Restored(task[j].undo, pending)
  /\ strayed' = TRUE
  /\ Done(j)
  /\ UNCHANGED <<store, phase, loaded>>

(* The process dies in a commit, the new release active but not linked.    *)
CrashCommitting(j) ==
  /\ Exchanges(j)
  /\ pointer' = Activated(ReleaseOf[task[j].content])
  /\ releases' \in PartlyPruned(releases, pointer', history)
  /\ Died
  /\ UNCHANGED <<disk, store>>
=============================================================================
