---------------------------- MODULE ControlPlane ----------------------------
(***************************************************************************)
(* The control jobs at work on the private configuration: the queue of     *)
(* ControlJobs decides which job runs, Revisions what its callbacks do.    *)
(* src/control-gateway.mjs puts every change of the configuration through  *)
(* the queue; reading it, editing the files by hand and the commands of    *)
(* scripts/gateway.mjs pass it by.                                         *)
(***************************************************************************)
EXTENDS Revisions

vars == <<queue, revVars>>

Init == QueueInit /\ RevisionsInit

Submit(j) == phase = "up" /\ Run(j) /\ UNCHANGED revVars
Answered(j) == Settle(j) /\ UNCHANGED revVars

(* The first callback of a task, when more follow.                         *)
Begins(j) ==
  /\ Works(j)
  /\ SyncBegin(j) \/ ApplyBegin(j) \/ CommitFails(j) \/ \E r \in Revs : RollbackBegin(j, r)

(* The only callback of a task, or the last.                               *)
Edits(j) == \E c \in Contents : Edit(j, c) \/ EditUndone(j, c)
Prunes(j) == \E keep \in Keeps : Prune(j, keep) \/ PruneFails(j, keep)
Syncs(j) == SyncFails(j) \/ \E c \in Contents : SyncEnd(j, c)
Applies(j) ==
  ApplySucceeds(j) \/ ApplyFails(j) \/ ApplyStrands(j) \/ ReloadFails(j) \/ Undo(j) \/ UndoFails(j)

Ends(j) ==
  /\ TaskEnds(j)
  /\ Edits(j) \/ Prunes(j) \/ Syncs(j) \/ Applies(j) \/ Refused(j)

Job(j) == Begins(j) \/ Ends(j)

ProcessDies == (Crash \/ \E j \in Jobs : CrashCommitting(j)) /\ Lost

Beside ==
  /\ \/ \E c \in Contents : External(c)
     \/ Refresh \/ ActivateCommand \/ RollbackCommand \/ Start \/ Ready
  /\ UNCHANGED queue

Next ==
  \/ \E j \in Jobs : Submit(j) \/ Job(j) \/ Answered(j)
  \/ ProcessDies
  \/ Beside

Spec == Init /\ [][Next]_vars

-----------------------------------------------------------------------------
(* What the jobs do to the runtime, as the promise of an apply sees it.    *)

WhileUp(value) == IF Up THEN value ELSE None
BackOf(undo) == IF undo = None THEN None ELSE undo.content
AttemptOf(t) ==
  CASE t.step \in {"none", "sync"} -> [step |-> "none"]
    [] t.step = "apply" -> [step |-> "apply", to |-> t.content, back |-> BackOf(t.undo)]
    [] t.step = "undo" -> [step |-> "undo", to |-> t.previous, back |-> BackOf(t.undo)]

AttemptShown == AttemptOf(IF running \in Jobs THEN task[running] ELSE NoTask)

Shown == INSTANCE Switchover WITH
  Configs <- Contents, link <- pointer.active,
  release <- WhileUp(child), routes <- WhileUp(serving), loaded <- WhileUp(history[loaded].content),
  attempt <- AttemptShown

-----------------------------------------------------------------------------
(* Types of the variables.                                                 *)
TypeOK ==
  /\ QueueTypeOK
  /\ disk \in Contents /\ serving \in Contents \cup {None}
  /\ history \in [Revs -> Manifests \cup {None}]
  /\ damaged \subseteq Revs
  /\ releases \subseteq Releases /\ pointer \in Pointers
  /\ phase \in {"down", "starting", "up"}
  /\ child \in Releases \cup {None}
  /\ pending \in Revs \cup {None} /\ loaded \in Revs \cup {None}
  /\ task \in [Jobs -> Tasks]
  /\ edited \in BOOLEAN /\ strayed \in BOOLEAN

(* What the running process and its job will read again is never pruned    *)
(* away: the loaded and the pending revision, the parent a synchronisation *)
(* holds across its fetches, and what a rollback goes back to, which still *)
(* says what was on disk (the protectedRevisions of pruneRevisions, and    *)
(* pruning being a job like the others).                                   *)
HistoryIntact ==
  Up => /\ {loaded, pending} \subseteq Valid
        /\ \A j \in Jobs :
             /\ task[j].step = "sync" => task[j].from \in Valid
             /\ task[j].step \in {"apply", "undo"} =>
                  LET undo == task[j].undo
                  IN  undo # None => /\ undo.revision \in Valid
                                     /\ history[undo.revision].content = undo.content

(* No release that a revision names is removed, and the loaded revision    *)
(* names the one the children run; so it outlives the activations and      *)
(* rollbacks that other processes write to active.json (pruneReleases).    *)
RunningReleaseKept ==
  /\ LinksIn(history) \subseteq releases
  /\ Up /\ child # None /\ ~strayed => history[loaded].release = child

(* docs/configuration.md: the status shows what the process loaded.  What  *)
(* loadedRevision records is what is routed with, except while a failed    *)
(* commit is taken back.                                                   *)
LoadedIsServed ==
  Up /\ ~strayed /\ (\A j \in Jobs : task[j].step # "undo")
    => history[loaded].content = serving

(* No job overwrites a configuration that has no revision, unless it was   *)
(* edited by hand while that job awaited something.                        *)
OverwritesAreRecorded ==
  [][disk' # disk => \/ \E c \in Contents : External(c)
                     \/ edited
                     \/ \E r \in ValidIn(history') : history'[r].content = disk]_vars

(* Whatever is edited, pruned, synchronised or killed meanwhile, an apply  *)
(* exchanges release, routes and loaded configuration in one step, or      *)
(* takes back what it did of it, or ends without supervised children.      *)
ImplementsSwitchover == Shown!Spec
=============================================================================
