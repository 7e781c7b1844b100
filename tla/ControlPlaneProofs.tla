------------------------- MODULE ControlPlaneProofs -------------------------
(***************************************************************************)
(* What holds of ControlPlane for every set of jobs, configurations,       *)
(* revisions and releases, every limit and every number kept.              *)
(***************************************************************************)
EXTENDS ControlPlane, TLAPS

(* The queue by itself.  The status of a job says where it is: in the      *)
(* queue once, or taken, and nothing waits when nothing is taken.          *)
QueueInv ==
  /\ QueueTypeOK
  /\ running = NoJob => waiting = <<>>
  /\ Len(waiting) <= MaxQueued
  /\ \A j \in Jobs : job[j] \in {"running", "finished"} <=> j = running
  /\ \A i \in 1..Len(waiting) : job[waiting[i]] = "queued"
  /\ \A i, k \in 1..Len(waiting) : waiting[i] = waiting[k] => i = k

-----------------------------------------------------------------------------
LEMMA QueueInvInit == QueueInit => QueueInv
BY ControlJobsAssumption DEF ControlJobsAssumption, QueueInit, QueueInv, QueueTypeOK, Statuses

LEMMA RunKeepsInv ==
  ASSUME QueueInv, NEW j \in Jobs, Run(j)
  PROVE  QueueInv'
<1>. USE ControlJobsAssumption DEF ControlJobsAssumption, QueueInv, QueueTypeOK, Statuses, Run, Pump
<1>1. CASE running # NoJob
  <2>1. waiting' = Append(waiting, j) /\ running' = running
        /\ job' = [job EXCEPT ![j] = "queued"]
    BY <1>1
  <2>2. \A i \in 1..Len(waiting) : waiting[i] \in Jobs /\ waiting[i] # j
    OBVIOUS
  <2>3. Len(waiting') = Len(waiting) + 1 /\ waiting'[Len(waiting) + 1] = j
        /\ \A i \in 1..Len(waiting) : waiting'[i] = waiting[i]
    BY <2>1
  <2>. QED BY <1>1, <2>1, <2>2, <2>3
<1>2. CASE running = NoJob
  <2>0. Append(waiting, j) = <<j>> /\ <<j>> # <<>> /\ Head(<<j>>) = j /\ Tail(<<j>>) = <<>>
    BY <1>2
  <2>1. waiting' = <<>> /\ running' = j /\ job' = [job EXCEPT ![j] = "running"]
    BY <1>2, <2>0
  <2>. QED BY <1>2, <2>1
<1>. QED BY <1>1, <1>2

LEMMA SettleKeepsInv ==
  ASSUME QueueInv, NEW j \in Jobs, Settle(j)
  PROVE  QueueInv'
<1>. USE ControlJobsAssumption DEF ControlJobsAssumption, QueueInv, QueueTypeOK, Statuses, Settle, Pump
<1>0. running = j
  OBVIOUS
<1>1. CASE waiting = <<>>
  BY <1>0, <1>1
<1>2. CASE waiting # <<>>
  <2>1. /\ waiting' = Tail(waiting) /\ running' = waiting[1]
        /\ job' = [job EXCEPT ![j] = "settled", ![waiting[1]] = "running"]
    BY <1>2
  <2>2. \A i \in 1..Len(waiting) : waiting[i] \in Jobs /\ waiting[i] # j
    BY <1>0
  <2>3. /\ Len(waiting') = Len(waiting) - 1 /\ waiting' \in Seq(Jobs)
        /\ \A i \in 1..Len(waiting') : waiting'[i] = waiting[i + 1] /\ waiting'[i] # waiting[1]
    BY <1>2, <2>1
  <2>. QED BY <1>0, <1>2, <2>1, <2>2, <2>3
<1>. QED BY <1>1, <1>2

LEMMA QueueNextKeepsInv == QueueInv /\ [QueueNext]_queue => QueueInv'
<1>. SUFFICES ASSUME QueueInv, [QueueNext]_queue PROVE QueueInv'
  OBVIOUS
<1>1. ASSUME NEW j \in Jobs, TaskEnds(j) PROVE QueueInv'
  BY <1>1 DEF QueueInv, QueueTypeOK, Statuses, TaskEnds
<1>2. CASE Lost
  BY <1>2, ControlJobsAssumption
  DEF ControlJobsAssumption, QueueInv, QueueTypeOK, Statuses, Lost
<1>3. CASE UNCHANGED queue
  BY <1>3 DEF QueueInv, QueueTypeOK, queue
<1>. QED BY <1>1, <1>2, <1>3, RunKeepsInv, SettleKeepsInv DEF QueueNext

(* The queue accepts, serves and answers as the line does: no job overtakes *)
(* another, two never run at once and no more than maxQueued wait.         *)
THEOREM QueueIsJobLine == QueueSpec => ImplementsJobLine
<1>1. QueueInit => Line!LineInit
  BY DEF QueueInit, Line!LineInit
<1>2. QueueInv /\ [QueueNext]_queue => [Line!LineNext]_(Line!lineVars)
  <2>. SUFFICES ASSUME QueueInv, QueueNext PROVE [Line!LineNext]_(Line!lineVars)
    BY DEF queue, Line!lineVars
  <2>. DEFINE line == (IF running = NoJob THEN <<>> ELSE <<running>>) \o waiting
              served == running # NoJob /\ job[running] = "finished"
  <2>. USE ControlJobsAssumption DEF ControlJobsAssumption, QueueInv, QueueTypeOK
  <2>0. /\ running = NoJob => line = <<>>
        /\ running # NoJob => /\ line \in Seq(Jobs) /\ Len(line) = Len(waiting) + 1
                              /\ line[1] = running /\ Tail(line) = waiting
                              /\ \A i \in 1..Len(waiting) : line[i + 1] = waiting[i]
    OBVIOUS
  <2>1. ASSUME NEW j \in Jobs, Run(j) PROVE Line!Accept(j)
    <3>1. CASE running = NoJob
      <4>0. Append(waiting, j) = <<j>> /\ <<j>> # <<>> /\ Head(<<j>>) = j /\ Tail(<<j>>) = <<>>
        BY <3>1
      <4>1. waiting' = <<>> /\ running' = j /\ job' = [job EXCEPT ![j] = "running"]
        BY <2>1, <3>1, <4>0 DEF Run, Pump
      <4>2. job'[j] = "running" /\ j # NoJob /\ <<j>> \o <<>> = <<j>>
        BY <4>1
      <4>3. line' = <<j>> /\ ~served' /\ ~served
        BY <3>1, <4>1, <4>2
      <4>4. line = <<>> /\ Append(line, j) = <<j>> /\ Len(line) = 0
        BY <2>0, <3>1
      <4>5. Len(line) < MaxQueued + 1 /\ \A i \in 1..Len(line) : line[i] # j
        BY <4>4
      <4>6. UNCHANGED served
        BY <4>3, Zenon
      <4>. QED BY <4>3, <4>4, <4>5, <4>6, Zenon DEF Line!Accept
    <3>2. CASE running # NoJob
      <4>1. waiting' = Append(waiting, j) /\ running' = running /\ served' = served
        BY <2>1, <3>2 DEF Run, Pump
      <4>2. line' = Append(line, j)
        BY <3>2, <4>1
      <4>3. \A i \in 1..Len(line) : line[i] # j
        BY <2>0, <2>1, <3>2 DEF Run
      <4>4. Len(line) < MaxQueued + 1
        BY <2>0, <2>1, <3>2 DEF Run
      <4>. QED BY <4>1, <4>2, <4>3, <4>4 DEF Line!Accept
    <3>. QED BY <3>1, <3>2
  <2>2. ASSUME NEW j \in Jobs, TaskEnds(j) PROVE Line!Serve
    <3>1. running = j /\ ~served /\ served' /\ line' = line
      BY <2>2 DEF TaskEnds
    <3>. QED BY <2>0, <3>1 DEF Line!Serve
  <2>3. ASSUME NEW j \in Jobs, Settle(j) PROVE Line!Answer
    <3>1. running = j /\ served
      BY <2>3 DEF Settle
    <3>2. line' = waiting /\ served' = FALSE
      <4>1. CASE waiting = <<>>
        BY <2>3, <4>1 DEF Settle, Pump
      <4>2. CASE waiting # <<>>
        <5>1. /\ waiting' = Tail(waiting) /\ running' = waiting[1] /\ running' \in Jobs
              /\ job'[running'] = "running"
          BY <2>3, <4>2 DEF Settle, Pump
        <5>2. <<waiting[1]>> \o Tail(waiting) = waiting
          BY <4>2
        <5>. QED BY <5>1, <5>2
      <4>. QED BY <4>1, <4>2
    <3>. QED BY <2>0, <3>1, <3>2 DEF Line!Answer
  <2>4. ASSUME Lost PROVE Line!Vanish
    <3>1. line' = <<>> \o <<>> /\ ~served'
      BY <2>4 DEF Lost
    <3>2. <<>> \o <<>> = <<>>
      OBVIOUS
    <3>3. line' = <<>> /\ served' = FALSE
      BY <3>1, <3>2
    <3>. QED BY <3>3, Zenon DEF Line!Vanish
  <2>. QED BY <2>1, <2>2, <2>3, <2>4 DEF QueueNext, Line!LineNext
<1>. QED
  BY <1>1, <1>2, QueueInvInit, QueueNextKeepsInv, PTL
  DEF QueueSpec, ImplementsJobLine, Line!LineSpec

-----------------------------------------------------------------------------
(* The jobs and what they do.                                              *)

(* Tasks belong to the job that runs in the process that is up.            *)
Ruled ==
  /\ ~Up => task = NoTasks
  /\ phase # "down" => serving \in Contents
  /\ phase = "starting" => child = ReleaseOf[serving] /\ (~edited => serving = disk)
  /\ \A j \in Jobs : task[j] # NoTask => job[j] = "running"

(* What a task read still holds, unless the files were edited by hand.     *)
Held(j) ==
  /\ task[j].step = "sync" /\ ~edited => history[task[j].from].content = disk
  /\ task[j].step = "undo" => child # None
  /\ task[j].step = "apply" /\ ~edited => task[j].content = disk
  /\ task[j].step \in {"apply", "undo"} /\ task[j].undo # None /\ ~edited
       => history[pending].content = disk
  /\ task[j].step = "undo" /\ ~strayed =>
       history[loaded].content = task[j].previous /\ ReleaseOf[task[j].previous] = child

(* What is loaded is routed with, and run by the children.                 *)
Undoing == \E j \in Jobs : task[j].step = "undo"
Served ==
  Up /\ ~strayed /\ ~Undoing =>
    /\ history[loaded].content = serving
    /\ child # None => ReleaseOf[serving] = child

PlaneInv ==
  /\ QueueInv /\ TypeOK /\ Ruled
  /\ HistoryIntact /\ RunningReleaseKept
  /\ \A j \in Jobs : Held(j)
  /\ Served

-----------------------------------------------------------------------------
(* Operators of the model.                                                 *)

Histories == [Revs -> Manifests \cup {None}]

(* h is the history with more revisions, none of them linked.              *)
GrownTo(h) ==
  /\ h \in Histories
  /\ \A r \in Revs : history[r] # None => h[r] = history[r]
  /\ \A r \in Revs : history[r] = None /\ h[r] # None => h[r].release = None

LEMMA ManifestFacts ==
  ASSUME NEW m \in Manifests
  PROVE  m # None /\ m.content \in Contents /\ m.release \in Releases \cup {None}
BY RevisionsAssumption DEF RevisionsAssumption, Manifests

LEMMA RecordedFacts ==
  ASSUME NEW c \in Contents
  PROVE  /\ Recorded(c) \in Manifests /\ Recorded(c) # None
         /\ Recorded(c).content = c /\ Recorded(c).release = None
BY RevisionsAssumption DEF RevisionsAssumption, Recorded, Manifests

(* A refresh leaves a current revision that says what is on disk.          *)
LEMMA RefreshedFacts ==
  ASSUME TypeOK, NEW now \in Refreshed
  PROVE  /\ Up /\ pending \in Valid
         /\ GrownTo(now.history)
         /\ now.current \in Revs /\ now.history[now.current] # None
         /\ now.history[now.current].content = disk
<1>1. Up /\ pending \in Valid
  BY DEF Refreshed
<1>2. CASE ~Stale
  <2>1. now = [current |-> pending, history |-> history]
    BY <1>1, <1>2 DEF Refreshed
  <2>. QED BY <1>1, <1>2, <2>1 DEF TypeOK, Stale, GrownTo, Histories, Valid, ValidIn
<1>3. CASE Stale
  <2>1. PICK r \in UnusedIn(history) :
          now = [current |-> r, history |-> With(history, r, disk)]
    BY <1>1, <1>3 DEF Refreshed
  <2>2. r \in Revs /\ history[r] = None
    BY DEF UnusedIn, ValidIn
  <2>. QED BY <1>1, <2>1, <2>2, RecordedFacts DEF TypeOK, GrownTo, Histories, With
<1>. QED BY <1>1, <1>2, <1>3

(* A further revision, as create makes it.                                 *)
LEMMA WithFacts ==
  ASSUME TypeOK, NEW h, GrownTo(h), NEW c \in Contents, NEW r \in UnusedIn(h)
  PROVE  /\ GrownTo(With(h, r, c)) /\ r \in Revs
         /\ With(h, r, c)[r] # None /\ With(h, r, c)[r].content = c
         /\ \A q \in Revs : h[q] # None => With(h, r, c)[q] = h[q]
<1>1. r \in Revs /\ h[r] = None
  BY DEF UnusedIn, ValidIn
<1>. QED BY <1>1, RecordedFacts DEF GrownTo, Histories, With

LEMMA LinksFacts ==
  ASSUME NEW h, NEW S
  PROVE  LinksIn(h) \subseteq S <=>
           \A r \in Revs : h[r] # None /\ h[r].release # None => h[r].release \in S
BY DEF LinksIn, ValidIn

LEMMA GrownKeepsLinks ==
  ASSUME NEW h, GrownTo(h), NEW S, LinksIn(history) \subseteq S
  PROVE  LinksIn(h) \subseteq S
BY LinksFacts DEF GrownTo

(* pruneReleases keeps every release that a pointer or a revision names.   *)
LEMMA PrunedFacts ==
  ASSUME NEW present, NEW ptr, NEW h, NEW left \in Pruned(present, ptr, h)
  PROVE  /\ left \subseteq present
         /\ \A d \in present : d = ptr.active \/ d \in LinksIn(h) => d \in left
BY DEF Pruned

LEMMA ActivatedFacts ==
  ASSUME TypeOK, NEW release \in Releases
  PROVE  Activated(release) \in Pointers /\ Activated(release).active = release
BY DEF TypeOK, Pointers, Activated

(* The fields of what a job holds, and the ways to hold it.                *)
LEMMA TaskFacts ==
  ASSUME TypeOK, NEW j \in Jobs
  PROVE  /\ task[j].step = "sync" => task[j].from \in Revs
         /\ task[j].step = "apply" => task[j].content \in Contents /\ task[j].undo \in Undos
         /\ task[j].step = "undo" => task[j].previous \in Contents /\ task[j].undo \in Undos
         /\ task[j].step = "none" => task[j] = NoTask
         /\ task[j].step \in {"none", "sync", "apply", "undo"}
BY DEF TypeOK, Tasks, NoTask

LEMMA TaskMade ==
  /\ NoTask \in Tasks /\ NoTask.step = "none"
  /\ \A r \in Revs : [step |-> "sync", from |-> r] \in Tasks
  /\ \A c \in Contents, u \in Undos : [step |-> "apply", content |-> c, undo |-> u] \in Tasks
  /\ \A c \in Contents, u \in Undos : [step |-> "undo", previous |-> c, undo |-> u] \in Tasks
BY DEF Tasks, NoTask

LEMMA UndoFacts ==
  ASSUME NEW u \in Undos, u # None
  PROVE  u.revision \in Revs /\ u.content \in Contents
BY DEF Undos, WaysBack

(* One job at a time: beside a job that runs no other holds anything.      *)
LEMMA Alone ==
  ASSUME PlaneInv, NEW j \in Jobs, job[j] = "running"
  PROVE  /\ \A k \in Jobs : k # j => task[k] = NoTask
         /\ Up \/ task = NoTasks
BY DEF PlaneInv, QueueInv, Ruled

(* After the last callback of a task nothing is held.                      *)
LEMMA EndKeepsInv ==
  ASSUME PlaneInv, QueueInv', TypeOK', phase' = phase, serving' \in Contents, Up,
         task' = NoTasks, {loaded', pending'} \subseteq ValidIn(history'),
         RunningReleaseKept', Served'
  PROVE  PlaneInv'
<1>1. \A j \in Jobs : task'[j] = NoTask /\ task'[j].step = "none"
  BY TaskMade DEF NoTasks
<1>. QED BY <1>1 DEF PlaneInv, Ruled, HistoryIntact, Held, Up, Valid

(* What is served stays as it is, and recorded as it was.                  *)
LoadedStays ==
  /\ UNCHANGED <<phase, parent>>
  /\ Up => history'[loaded].content = history[loaded].content

LEMMA GrowthKeepsLoaded ==
  ASSUME PlaneInv, UNCHANGED <<phase, parent>>, GrownTo(history')
  PROVE  LoadedStays
BY DEF PlaneInv, HistoryIntact, Valid, ValidIn, GrownTo, LoadedStays

(* What is loaded and run is not touched by a step that only adds          *)
(* revisions.                                                              *)
LEMMA GrowthKeepsServed ==
  ASSUME PlaneInv, TypeOK', UNCHANGED <<phase, parent>>, GrownTo(history'),
         releases \subseteq releases' \/ LinksIn(history) \subseteq releases',
         Undoing' <=> Undoing
  PROVE  RunningReleaseKept' /\ Served'
<1>1. Up => loaded \in Revs /\ history[loaded] # None
  BY DEF PlaneInv, HistoryIntact, Valid, ValidIn
<1>2. LinksIn(history) \subseteq releases'
  BY DEF PlaneInv, RunningReleaseKept
<1>3. LinksIn(history') \subseteq releases'
  BY <1>2, GrownKeepsLinks
<1>4. Up => history'[loaded] = history[loaded]
  BY <1>1 DEF GrownTo
<1>. QED BY <1>1, <1>3, <1>4 DEF PlaneInv, RunningReleaseKept, Served, Up, parent

-----------------------------------------------------------------------------
(* Jobs of one callback.                                                   *)

LEMMA EditKeepsInv ==
  ASSUME PlaneInv, QueueInv', NEW j \in Jobs, job[j] = "running", NEW c \in Contents,
         Edit(j, c) \/ EditUndone(j, c)
  PROVE  PlaneInv' /\ LoadedStays
<1>1. PICK now \in Refreshed :
        \/ Becomes(now.history, now.current)
        \/ \E r \in UnusedIn(now.history) : pending' \in {r, now.current}
              /\ history' = With(now.history, r, c)
  BY DEF Edit, EditUndone, Becomes
<1>2. TypeOK /\ Up /\ GrownTo(now.history) /\ now.current \in Revs
      /\ now.history[now.current] # None
  BY RefreshedFacts DEF PlaneInv
<1>3. GrownTo(history') /\ pending' \in Revs /\ history'[pending'] # None
  BY <1>1, <1>2, WithFacts DEF Becomes
<1>4. UNCHANGED <<damaged, built, phase, parent, task, edited>> /\ disk' \in Contents
      /\ task = NoTasks
  BY Alone, <1>2 DEF Edit, EditUndone, PlaneInv, TypeOK, NoTasks
<1>5. TypeOK'
  BY <1>2, <1>3, <1>4 DEF TypeOK, QueueInv, built, parent, GrownTo, Histories
<1>6. RunningReleaseKept' /\ Served'
  BY <1>3, <1>4, <1>5, GrowthKeepsServed DEF built, Undoing
<1>7. {loaded', pending'} \subseteq ValidIn(history')
  BY <1>2, <1>3, <1>4 DEF PlaneInv, HistoryIntact, Valid, ValidIn, GrownTo, parent
<1>8. LoadedStays
  BY <1>3, <1>4, GrowthKeepsLoaded
<1>. QED BY <1>8, <1>2, <1>4, <1>5, <1>6, <1>7, EndKeepsInv DEF PlaneInv, Ruled, parent, Up

LEMMA RefusedKeepsInv ==
  ASSUME PlaneInv, QueueInv', NEW j \in Jobs, job[j] = "running", Refused(j)
  PROVE  PlaneInv' /\ LoadedStays
<1>1. Up /\ pending \in Valid /\ loaded \in Valid /\ TypeOK
  BY DEF PlaneInv, HistoryIntact, Refused
<1>2. GrownTo(history') /\ pending' \in Revs /\ history'[pending'] # None
  <2>1. CASE UNCHANGED <<history, pending>>
    BY <1>1, <2>1 DEF TypeOK, GrownTo, Histories, Valid, ValidIn
  <2>2. CASE RefreshNow
    BY <1>1, <2>2, RefreshedFacts DEF RefreshNow, Becomes
  <2>. QED BY <2>1, <2>2 DEF Refused
<1>3. UNCHANGED <<disk, damaged, built, phase, parent, task, edited>> /\ task = NoTasks
  BY Alone, <1>1 DEF Refused, PlaneInv, TypeOK, NoTasks
<1>4. TypeOK'
  BY <1>1, <1>2, <1>3 DEF TypeOK, QueueInv, built, parent, GrownTo, Histories
<1>5. RunningReleaseKept' /\ Served'
  BY <1>2, <1>3, <1>4, GrowthKeepsServed DEF built, Undoing
<1>6. {loaded', pending'} \subseteq ValidIn(history')
  BY <1>1, <1>2, <1>3 DEF Valid, ValidIn, GrownTo, parent
<1>7. LoadedStays
  BY <1>2, <1>3, GrowthKeepsLoaded
<1>. QED BY <1>7, <1>1, <1>3, <1>4, <1>5, <1>6, EndKeepsInv DEF PlaneInv, Ruled, parent, Up

LEMMA OnlyKeepsLinks ==
  ASSUME NEW h, NEW kept, NEW S, LinksIn(h) \subseteq S
  PROVE  LinksIn(Only(h, kept)) \subseteq S
BY LinksFacts DEF Only

(* Pruning leaves the two revisions that the process refers to.            *)
LEMMA PruneKeepsInv ==
  ASSUME PlaneInv, QueueInv', NEW j \in Jobs, job[j] = "running", NEW keep \in Keeps,
         Prune(j, keep) \/ PruneFails(j, keep)
  PROVE  PlaneInv' /\ LoadedStays
<1>1. PICK now \in Refreshed : \E kept \in SUBSET Revs : \E retained \in Retained(keep, now) :
        retained \cap Revs \subseteq kept /\ Becomes(Only(now.history, kept), now.current)
  <2>1. CASE Prune(j, keep)
    <3>1. PICK now \in Refreshed : \E retained \in Retained(keep, now) :
            Becomes(Only(now.history, retained), now.current)
      BY <2>1 DEF Prune
    <3>2. ASSUME NEW retained PROVE Only(now.history, retained) = Only(now.history, retained \cap Revs)
      BY DEF Only
    <3>. QED BY <3>1, <3>2
  <2>2. CASE PruneFails(j, keep)
    BY <2>2 DEF PruneFails
  <2>. QED BY <2>1, <2>2
<1>11. PICK kept \in SUBSET Revs : \E retained \in Retained(keep, now) :
        retained \cap Revs \subseteq kept /\ Becomes(Only(now.history, kept), now.current)
  BY <1>1
<1>2. TypeOK /\ Up /\ GrownTo(now.history) /\ now.current \in Revs
      /\ now.history[now.current] # None
  BY RefreshedFacts DEF PlaneInv
<1>3. loaded \in Revs /\ history[loaded] # None /\ now.history[loaded] = history[loaded]
  BY <1>2 DEF PlaneInv, HistoryIntact, Valid, ValidIn, GrownTo
<1>4. {loaded, now.current} \subseteq kept
  BY <1>11, <1>2, <1>3 DEF Retained, Protected
<1>5. /\ history' \in Histories /\ pending' = now.current
      /\ history'[loaded] = history[loaded] /\ history'[pending'] # None
  BY <1>11, <1>2, <1>3, <1>4 DEF Becomes, Only, GrownTo, Histories
<1>6. UNCHANGED <<disk, built, phase, parent, task, edited>> /\ task = NoTasks
      /\ damaged' \subseteq Revs
  BY Alone, <1>2 DEF Prune, PruneFails, PlaneInv, TypeOK, NoTasks, ValidIn
<1>7. TypeOK'
  BY <1>2, <1>5, <1>6 DEF TypeOK, QueueInv, built, parent, Histories
<1>8. LinksIn(history') \subseteq releases'
  BY <1>11, <1>2, <1>6, GrownKeepsLinks, OnlyKeepsLinks
  DEF PlaneInv, RunningReleaseKept, Becomes, built
<1>9. RunningReleaseKept' /\ Served'
  BY <1>5, <1>6, <1>8 DEF PlaneInv, RunningReleaseKept, Served, Undoing, Up, parent
<1>10. {loaded', pending'} \subseteq ValidIn(history')
  BY <1>2, <1>3, <1>5, <1>6 DEF ValidIn, parent
<1>12. LoadedStays
  BY <1>5, <1>6 DEF LoadedStays
<1>. QED BY <1>12, <1>2, <1>6, <1>7, <1>9, <1>10, EndKeepsInv DEF PlaneInv, Ruled, parent, Up

-----------------------------------------------------------------------------
(* Jobs that wait: synchronisation, apply and rollback.                    *)

(* While job j holds something, no other does.                             *)
LEMMA BeginKeepsInv ==
  ASSUME PlaneInv, NEW j \in Jobs, job[j] = "running", UNCHANGED queue, UNCHANGED phase, Up,
         NEW t \in Tasks, task' = [task EXCEPT ![j] = t],
         TypeOK', serving' \in Contents, Held(j)',
         {loaded', pending'} \subseteq ValidIn(history'),
         t.step = "sync" => t.from \in ValidIn(history'),
         t.step \in {"apply", "undo"} /\ t.undo # None =>
           t.undo.revision \in ValidIn(history')
             /\ history'[t.undo.revision].content = t.undo.content,
         RunningReleaseKept', Served'
  PROVE  PlaneInv'
<1>1. task'[j] = t /\ \A k \in Jobs : k # j => task'[k] = NoTask /\ task'[k].step = "none"
  BY Alone, TaskMade DEF PlaneInv, TypeOK
<1>2. \A k \in Jobs : Held(k)'
  BY <1>1 DEF Held
<1>3. HistoryIntact'
  BY <1>1 DEF HistoryIntact, Valid, Up
<1>4. Ruled'
  BY <1>1 DEF Ruled, queue, Up
<1>5. QueueInv'
  BY DEF PlaneInv, QueueInv, QueueTypeOK, queue
<1>. QED BY <1>2, <1>3, <1>4, <1>5 DEF PlaneInv

LEMMA SyncBeginKeepsInv ==
  ASSUME PlaneInv, NEW j \in Jobs, Works(j), SyncBegin(j)
  PROVE  PlaneInv' /\ LoadedStays
<1>1. PICK now \in Refreshed :
        /\ Becomes(now.history, now.current)
        /\ task' = [task EXCEPT ![j] = [step |-> "sync", from |-> now.current]]
  BY DEF SyncBegin, Set
<1>. DEFINE t == [step |-> "sync", from |-> now.current]
<1>2. TypeOK /\ Up /\ GrownTo(history') /\ pending' = now.current /\ pending' \in Revs
      /\ history'[pending'] # None /\ history'[pending'].content = disk
  BY <1>1, RefreshedFacts DEF PlaneInv, Becomes
<1>3. UNCHANGED <<disk, damaged, built, phase, parent, queue>> /\ ~edited' /\ edited' \in BOOLEAN
      /\ job[j] = "running"
  BY DEF SyncBegin, Works
<1>4. t \in Tasks /\ t.step = "sync" /\ t.from = now.current
  BY <1>2, TaskMade
<1>5. TypeOK'
  BY <1>1, <1>2, <1>3, <1>4 DEF TypeOK, QueueTypeOK, queue, built, parent, GrownTo, Histories
<1>6. Undoing' <=> Undoing
  BY <1>1, <1>2, <1>3, <1>4, Alone, TaskMade DEF Undoing, TypeOK, SyncBegin
<1>7. RunningReleaseKept' /\ Served'
  BY <1>2, <1>3, <1>5, <1>6, GrowthKeepsServed DEF built
<1>8. Held(j)'
  BY <1>1, <1>2, <1>3, <1>4 DEF Held, TypeOK
<1>9. {loaded', pending'} \subseteq ValidIn(history') /\ serving' \in Contents
  BY <1>2, <1>3 DEF PlaneInv, HistoryIntact, Ruled, Up, Valid, ValidIn, GrownTo, parent
<1>10. LoadedStays
  BY <1>2, <1>3, GrowthKeepsLoaded
<1>. QED BY <1>10, <1>1, <1>2, <1>3, <1>4, <1>5, <1>7, <1>8, <1>9, BeginKeepsInv

(* What remains when job j is done.                                        *)
LEMMA DoneFacts ==
  ASSUME PlaneInv, NEW j \in Jobs, job[j] = "running", Done(j)
  PROVE  task' = NoTasks /\ edited' = FALSE
<1>1. \A k \in Jobs : task'[k] = NoTask
  BY Alone DEF PlaneInv, TypeOK, Done, Set
<1>. QED BY <1>1 DEF PlaneInv, TypeOK, Done, Set, NoTasks

LEMMA NoTasksTyped == NoTasks \in [Jobs -> Tasks] /\ \A j \in Jobs : NoTasks[j].step = "none"
BY TaskMade DEF NoTasks

LEMMA SyncKeepsInv ==
  ASSUME PlaneInv, QueueInv', NEW j \in Jobs, job[j] = "running", Syncs(j)
  PROVE  PlaneInv' /\ LoadedStays
<1>1. /\ UNCHANGED <<damaged, built, phase, parent>> /\ task' = NoTasks /\ edited' = FALSE
      /\ task[j].step = "sync" /\ TypeOK
  BY DoneFacts DEF Syncs, SyncEnd, SyncFails, PlaneInv, store
<1>2. Up /\ loaded \in Valid /\ pending \in Valid
  BY <1>1, Alone, NoTasksTyped DEF PlaneInv, HistoryIntact
<1>3. disk' \in Contents /\ GrownTo(history') /\ pending' \in Revs /\ history'[pending'] # None
  <2>1. GrownTo(history)
    BY <1>1 DEF TypeOK, GrownTo, Histories
  <2>2. CASE UNCHANGED <<disk, history, pending>>
    BY <1>1, <1>2, <2>1, <2>2 DEF TypeOK, Valid, ValidIn
  <2>3. ASSUME NEW c \in Contents, NEW r \in UnusedIn(history),
               Becomes(With(history, r, c), r), disk' = c
        PROVE  disk' \in Contents /\ GrownTo(history') /\ pending' \in Revs /\ history'[pending'] # None
    BY <1>1, <2>1, <2>3, WithFacts DEF Becomes
  <2>. QED BY <2>2, <2>3 DEF Syncs, SyncEnd, SyncFails, store
<1>4. TypeOK'
  BY <1>1, <1>3, NoTasksTyped DEF TypeOK, QueueInv, built, parent, GrownTo, Histories
<1>5. Undoing' <=> Undoing
  BY <1>1, Alone, TaskMade, NoTasksTyped DEF Undoing
<1>6. RunningReleaseKept' /\ Served'
  BY <1>1, <1>3, <1>4, <1>5, GrowthKeepsServed DEF built
<1>7. {loaded', pending'} \subseteq ValidIn(history') /\ serving' \in Contents
  BY <1>1, <1>2, <1>3 DEF PlaneInv, Ruled, Up, Valid, ValidIn, GrownTo, parent
<1>8. LoadedStays
  BY <1>1, <1>3, GrowthKeepsLoaded
<1>. QED BY <1>8, <1>1, <1>2, <1>4, <1>6, <1>7, EndKeepsInv

(* Both ways to begin an apply generate the release of what is on disk.    *)
LEMMA GenerateKeepsInv ==
  ASSUME PlaneInv, NEW j \in Jobs, Works(j), task[j] = NoTask, Up,
         NEW u \in Undos, Generate(j, disk', u), disk' \in Contents,
         GrownTo(history'), pending' \in Revs, history'[pending'] # None,
         u # None => /\ history'[pending'].content = disk'
                     /\ history'[u.revision] # None
                     /\ history'[u.revision].content = u.content
  PROVE  PlaneInv' /\ LoadedStays
<1>. DEFINE t == [step |-> "apply", content |-> disk', undo |-> u]
<1>1. /\ UNCHANGED <<damaged, pointer, phase, parent, queue>> /\ edited' = FALSE
      /\ releases' = releases \cup {ReleaseOf[disk']} /\ task' = [task EXCEPT ![j] = t]
      /\ job[j] = "running" /\ TypeOK
  BY DEF Generate, Set, Works, PlaneInv
<1>2. t \in Tasks /\ t.step = "apply" /\ t.content = disk' /\ t.undo = u
  BY TaskMade
<1>. HIDE DEF t
<1>3. TypeOK'
  <2>1. ReleaseOf[disk'] \in Releases
    BY RevisionsAssumption DEF RevisionsAssumption
  <2>. QED BY <1>1, <1>2, <2>1 DEF TypeOK, QueueTypeOK, queue, parent, GrownTo, Histories
<1>4. Undoing' <=> Undoing
  BY <1>1, <1>2, Alone, TaskMade DEF Undoing, TypeOK
<1>5. RunningReleaseKept' /\ Served'
  BY <1>1, <1>3, <1>4, GrowthKeepsServed
<1>6. Held(j)'
  BY <1>1, <1>2 DEF Held, TypeOK, parent
<1>7. {loaded', pending'} \subseteq ValidIn(history') /\ serving' \in Contents
  BY <1>1 DEF PlaneInv, HistoryIntact, Ruled, Up, Valid, ValidIn, GrownTo, parent
<1>8. u # None => u.revision \in ValidIn(history')
  BY UndoFacts DEF ValidIn
<1>9. LoadedStays
  BY <1>1, GrowthKeepsLoaded
<1>. QED BY <1>9, <1>1, <1>2, <1>3, <1>5, <1>6, <1>7, <1>8, BeginKeepsInv

LEMMA ApplyBeginKeepsInv ==
  ASSUME PlaneInv, NEW j \in Jobs, Works(j), ApplyBegin(j)
  PROVE  PlaneInv' /\ LoadedStays
<1>1. TypeOK /\ Up /\ task[j] = NoTask /\ UNCHANGED <<disk, history, pending>>
      /\ Generate(j, disk', None)
  BY DEF ApplyBegin, PlaneInv, Generate
<1>2. GrownTo(history') /\ pending' \in Revs /\ history'[pending'] # None /\ disk' \in Contents
  BY <1>1 DEF PlaneInv, HistoryIntact, TypeOK, Valid, ValidIn, GrownTo, Histories
<1>. QED BY <1>1, <1>2, GenerateKeepsInv DEF Undos

LEMMA RollbackBeginKeepsInv ==
  ASSUME PlaneInv, NEW j \in Jobs, Works(j), NEW target \in Revs, RollbackBegin(j, target)
  PROVE  PlaneInv' /\ LoadedStays
<1>1. TypeOK /\ task[j] = NoTask /\ disk' = history[target].content /\ disk' \in Contents
  BY ManifestFacts DEF RollbackBegin, PlaneInv, TypeOK, Valid, ValidIn
<1>2. PICK now \in Refreshed : \E r \in UnusedIn(now.history) :
        /\ Becomes(With(now.history, r, disk'), r)
        /\ Generate(j, disk', [revision |-> now.current, content |-> disk])
  BY DEF RollbackBegin
<1>3. /\ Up /\ GrownTo(now.history) /\ now.current \in Revs
      /\ now.history[now.current] # None /\ now.history[now.current].content = disk
  BY <1>1, RefreshedFacts
<1>4. PICK r \in UnusedIn(now.history) :
        /\ Becomes(With(now.history, r, disk'), r)
        /\ Generate(j, disk', [revision |-> now.current, content |-> disk])
  BY <1>2
<1>5. /\ GrownTo(history') /\ pending' \in Revs /\ history'[pending'] # None
      /\ history'[pending'].content = disk' /\ history'[now.current] = now.history[now.current]
  BY <1>1, <1>3, <1>4, WithFacts DEF Becomes
<1>. DEFINE u == [revision |-> now.current, content |-> disk]
<1>6. u \in Undos /\ u.revision = now.current /\ u.content = disk
  BY <1>1, <1>3 DEF Undos, WaysBack, TypeOK
<1>7. history'[u.revision] # None /\ history'[u.revision].content = u.content
  BY <1>3, <1>5, <1>6
<1>8. Generate(j, disk', u)
  BY <1>4
<1>. HIDE DEF u
<1>. QED BY <1>1, <1>3, <1>5, <1>6, <1>7, <1>8, GenerateKeepsInv

(* What job j that applies or undoes can rely on.                          *)
LEMMA ApplyFacts ==
  ASSUME PlaneInv, NEW j \in Jobs, job[j] = "running", task[j].step \in {"apply", "undo"}
  PROVE  /\ TypeOK /\ Up /\ task[j] # NoTask /\ task[j].undo \in Undos
         /\ GrownTo(history) /\ serving \in Contents
         /\ loaded \in Revs /\ pending \in Revs /\ history[loaded] # None /\ history[pending] # None
         /\ LinksIn(history) \subseteq releases
         /\ task[j].undo # None =>
              /\ task[j].undo.revision \in Revs /\ task[j].undo.content \in Contents
              /\ history[task[j].undo.revision] # None
         /\ task[j].step = "apply" =>
              task[j].content \in Contents /\ ReleaseOf[task[j].content] \in Releases
         /\ task[j].step = "apply" => ~Undoing
<1>1. TypeOK /\ task[j] # NoTask /\ Up
  BY Alone, TaskMade, NoTasksTyped DEF PlaneInv
<1>2. task[j].step = "apply" => ~Undoing
  BY Alone, TaskMade DEF Undoing
<1>3. GrownTo(history) /\ serving \in Contents
  BY <1>1 DEF PlaneInv, Ruled, TypeOK, GrownTo, Histories, Up
<1>. QED BY <1>1, <1>2, <1>3, TaskFacts, UndoFacts, RevisionsAssumption
         DEF PlaneInv, HistoryIntact, RunningReleaseKept, Valid, ValidIn, RevisionsAssumption

(* Activation prunes releases, but none that the history names, whether or *)
(* not it comes to its end.                                                *)
LEMMA ActivationFacts ==
  ASSUME TypeOK, LinksIn(history) \subseteq releases, NEW release \in Releases,
         ActivateRelease(release, history) \/ ActivateFails(release, history)
  PROVE  /\ pointer' \in Pointers /\ releases' \subseteq Releases /\ LinksIn(history) \subseteq releases'
         /\ release \in releases => release \in releases'
<1>1. CASE UNCHANGED built
  BY <1>1 DEF built, TypeOK
<1>2. ASSUME pointer' = Activated(release), NEW kept \in Pruned(releases, pointer', history),
             kept \subseteq releases', releases' \subseteq releases
      PROVE  /\ pointer' \in Pointers /\ releases' \subseteq Releases
             /\ LinksIn(history) \subseteq releases'
             /\ release \in releases => release \in releases'
  BY <1>2, ActivatedFacts, PrunedFacts DEF TypeOK
<1>. QED BY <1>1, <1>2, PrunedFacts DEF ActivateRelease, ActivateFails, PartlyPruned

LEMMA RestoredFacts ==
  ASSUME TypeOK, NEW u \in Undos, NEW current \in Revs, Restored(u, current),
         history'[current] # None,
         u # None => u.revision \in Revs /\ u.content \in Contents /\ history'[u.revision] # None
  PROVE  disk' \in Contents /\ pending' \in Revs /\ history'[pending'] # None
BY DEF Restored, TypeOK

(* Linking keeps every revision and its content.                           *)
LEMMA LinkedFacts ==
  ASSUME NEW h \in Histories, NEW r \in Revs, h[r] # None, NEW d \in Releases
  PROVE  /\ Linked(h, r, d) \in Histories
         /\ Linked(h, r, d)[r] # None /\ Linked(h, r, d)[r].release = d
         /\ Linked(h, r, d)[r].content = h[r].content
         /\ \A q \in Revs : h[q] # None => Linked(h, r, d)[q] # None
                                         /\ Linked(h, r, d)[q].content = h[q].content
         /\ \A q \in Revs : q # r => Linked(h, r, d)[q] = h[q]
<1>1. h[r] \in Manifests
  BY DEF Histories
<1>2. [h[r] EXCEPT !.release = d] \in Manifests /\ [h[r] EXCEPT !.release = d].release = d
      /\ [h[r] EXCEPT !.release = d].content = h[r].content
  BY <1>1 DEF Manifests
<1>3. [h[r] EXCEPT !.release = d] # None
  BY <1>2, ManifestFacts
<1>4. Linked(h, r, d) = [h EXCEPT ![r] = [h[r] EXCEPT !.release = d]]
  BY DEF Linked
<1>5. /\ Linked(h, r, d) \in Histories /\ Linked(h, r, d)[r] = [h[r] EXCEPT !.release = d]
      /\ \A q \in Revs : q # r => Linked(h, r, d)[q] = h[q]
  BY <1>2, <1>4 DEF Histories
<1>. QED BY <1>2, <1>3, <1>5

LEMMA LinkedKeepsLinks ==
  ASSUME NEW h \in Histories, NEW r \in Revs, h[r] # None, NEW d \in Releases,
         NEW S, LinksIn(h) \subseteq S, d \in S
  PROVE  LinksIn(Linked(h, r, d)) \subseteq S
<1>1. ASSUME NEW q \in Revs, Linked(h, r, d)[q] # None, Linked(h, r, d)[q].release # None
      PROVE  Linked(h, r, d)[q].release \in S
  <2>1. CASE q = r
    BY <2>1, LinkedFacts
  <2>2. CASE q # r
    <3>1. Linked(h, r, d)[q] = h[q]
      BY <2>2, LinkedFacts
    <3>. QED BY <1>1, <3>1, LinksFacts
  <2>. QED BY <2>1, <2>2
<1>. QED BY <1>1, LinksFacts

(* markApplied, when it succeeds and when it does not.                     *)
LEMMA MarkAppliedFacts ==
  ASSUME TypeOK, NEW d \in Releases, MarkApplied(d), LinksIn(history) \subseteq releases'
  PROVE  /\ history' \in Histories /\ pending' = loaded' /\ loaded' \in Revs
         /\ history'[loaded'] # None /\ history'[loaded'].content = disk
         /\ history'[loaded'].release = d /\ LinksIn(history') \subseteq releases'
<1>1. PICK now \in Refreshed : /\ Becomes(Linked(now.history, now.current, d), now.current)
                               /\ loaded' = now.current /\ d \in releases'
  BY DEF MarkApplied
<1>2. /\ GrownTo(now.history) /\ now.current \in Revs /\ now.history[now.current] # None
      /\ now.history[now.current].content = disk /\ now.history \in Histories
  BY RefreshedFacts DEF GrownTo
<1>3. LinksIn(now.history) \subseteq releases'
  BY <1>2, GrownKeepsLinks
<1>4. LinksIn(history') \subseteq releases'
  BY <1>1, <1>2, <1>3, LinkedKeepsLinks DEF Becomes
<1>. QED BY <1>1, <1>2, <1>4, LinkedFacts DEF Becomes

LEMMA UnmarkedFacts ==
  ASSUME TypeOK, NEW d \in Releases, NEW left \in Unmarked(d), NEW kept,
         LinksIn(history) \subseteq kept, d \in releases => d \in kept,
         loaded \in Revs, history[loaded] # None, pending \in Revs, history[pending] # None
  PROVE  /\ left.history \in Histories
         /\ left.current \in Revs /\ left.history[left.current] # None
         /\ \A q \in Revs : history[q] # None =>
              left.history[q] # None /\ left.history[q].content = history[q].content
         /\ \/ left.history[loaded].release = history[loaded].release
            \/ left.history[loaded].release = d /\ history[loaded].content = disk
         /\ history[pending].content = disk => left.history[left.current].content = disk
         /\ LinksIn(left.history) \subseteq kept
<1>1. CASE left = [current |-> pending, history |-> history]
  BY <1>1 DEF TypeOK, Histories
<1>2. ASSUME NEW now \in Refreshed,
             \/ left = now
             \/ d \in releases /\ left = [now EXCEPT !.history = Linked(@, now.current, d)]
      PROVE  /\ left.history \in Histories
             /\ left.current \in Revs /\ left.history[left.current] # None
             /\ \A q \in Revs : history[q] # None =>
                  left.history[q] # None /\ left.history[q].content = history[q].content
             /\ \/ left.history[loaded].release = history[loaded].release
                \/ left.history[loaded].release = d /\ history[loaded].content = disk
             /\ left.history[left.current].content = disk
             /\ LinksIn(left.history) \subseteq kept
  <2>1. /\ GrownTo(now.history) /\ now.current \in Revs /\ now.history[now.current] # None
        /\ now.history[now.current].content = disk /\ now.history \in Histories
    BY RefreshedFacts DEF GrownTo
  <2>2. LinksIn(now.history) \subseteq kept
    BY <2>1, GrownKeepsLinks
  <2>3. \A q \in Revs : history[q] # None => now.history[q] = history[q]
    BY <2>1 DEF GrownTo
  <2>4. CASE left = now
    BY <2>1, <2>2, <2>3, <2>4
  <2>5. CASE d \in releases /\ left = [now EXCEPT !.history = Linked(@, now.current, d)]
    <3>1. left.current = now.current /\ left.history = Linked(now.history, now.current, d)
      <4>1. now \in [current : {now.current}, history : {now.history}]
        BY DEF Refreshed
      <4>. QED BY <2>5, <4>1
    <3>2. LinksIn(left.history) \subseteq kept
      BY <2>1, <2>2, <2>5, <3>1, LinkedKeepsLinks
    <3>3. /\ left.history \in Histories /\ left.history[now.current] # None
          /\ left.history[now.current].release = d /\ left.history[now.current].content = disk
          /\ \A q \in Revs : now.history[q] # None => left.history[q] # None
               /\ left.history[q].content = now.history[q].content
          /\ \A q \in Revs : q # now.current => left.history[q] = now.history[q]
      BY <2>1, <3>1, LinkedFacts
    <3>4. \/ left.history[loaded].release = history[loaded].release
          \/ left.history[loaded].release = d /\ history[loaded].content = disk
      BY <2>1, <2>3, <3>3
    <3>. QED BY <2>1, <2>3, <3>1, <3>2, <3>3, <3>4
  <2>. QED BY <1>2, <2>4, <2>5
<1>. QED BY <1>1, <1>2 DEF Unmarked

LEMMA ApplySucceedsKeepsInv ==
  ASSUME PlaneInv, QueueInv', NEW j \in Jobs, job[j] = "running", ApplySucceeds(j)
  PROVE  PlaneInv' /\ history'[loaded'].content = disk
<1>. DEFINE c == task[j].content
            digest == ReleaseOf[c]
<1>1. /\ TypeOK /\ Up /\ c \in Contents /\ digest \in Releases /\ LinksIn(history) \subseteq releases
      /\ ~edited => c = disk
  <2>1. task[j].step = "apply"
    BY DEF ApplySucceeds, SameRelease, Exchanges
  <2>. QED BY <2>1, ApplyFacts DEF PlaneInv, Held
<1>2. /\ serving' = c /\ child' = digest /\ strayed' = edited /\ UNCHANGED <<disk, damaged, phase>>
      /\ task' = NoTasks /\ edited' = FALSE /\ MarkApplied(digest)
  BY DoneFacts DEF ApplySucceeds
<1>3. pointer' \in Pointers /\ releases' \subseteq Releases /\ LinksIn(history) \subseteq releases'
  BY <1>1, ActivationFacts DEF ApplySucceeds, built, TypeOK
<1>4. /\ history' \in Histories /\ pending' = loaded' /\ loaded' \in Revs
      /\ history'[loaded'] # None /\ history'[loaded'].content = disk
      /\ history'[loaded'].release = digest /\ LinksIn(history') \subseteq releases'
  BY <1>1, <1>2, <1>3, MarkAppliedFacts
<1>. HIDE DEF c
<1>5. TypeOK'
  BY <1>1, <1>2, <1>3, <1>4, NoTasksTyped DEF TypeOK, QueueInv, Histories
<1>6. RunningReleaseKept' /\ Served'
  BY <1>1, <1>2, <1>4 DEF RunningReleaseKept, Served
<1>7. {loaded', pending'} \subseteq ValidIn(history') /\ serving' \in Contents
  BY <1>1, <1>2, <1>4 DEF ValidIn
<1>8. history'[loaded'].content = disk
  BY <1>4
<1>. QED BY <1>8, <1>1, <1>2, <1>5, <1>6, <1>7, EndKeepsInv

LEMMA ApplyFailsKeepsInv ==
  ASSUME PlaneInv, QueueInv', NEW j \in Jobs, job[j] = "running", ApplyFails(j) \/ ApplyStrands(j)
  PROVE  PlaneInv'
<1>1. /\ TypeOK /\ Up /\ ~Undoing /\ serving \in Contents /\ loaded \in Revs /\ history[loaded] # None
      /\ task[j].step = "apply" /\ LinksIn(history) \subseteq releases
      /\ task' = NoTasks /\ edited' = FALSE /\ child' \in {child, None}
      /\ UNCHANGED <<store, phase, serving, loaded, strayed>>
  BY ApplyFacts, DoneFacts DEF ApplyFails, ApplyStrands, Exchanges, parent
<1>2. disk' \in Contents /\ pending' \in Revs /\ history'[pending'] # None
  <2>1. /\ task[j].undo \in Undos /\ pending \in Revs /\ history[pending] # None
        /\ task[j].undo # None => /\ task[j].undo.revision \in Revs /\ task[j].undo.content \in Contents
                                  /\ history[task[j].undo.revision] # None
    BY <1>1, ApplyFacts
  <2>. QED BY <1>1, <2>1, RestoredFacts DEF ApplyFails, ApplyStrands, store
<1>3. pointer' \in Pointers /\ releases' \subseteq Releases /\ LinksIn(history) \subseteq releases'
  <2>1. CASE UNCHANGED built
    BY <1>1, <2>1 DEF built, TypeOK
  <2>2. CASE ~UNCHANGED built
    <3>1. child \in Releases
      BY <1>1, <2>2 DEF ApplyFails, ApplyStrands, Exchanges, TypeOK
    <3>. QED BY <1>1, <2>2, <3>1, ActivationFacts DEF ApplyFails, ApplyStrands
  <2>. QED BY <2>1, <2>2
<1>4. TypeOK'
  BY <1>1, <1>2, <1>3, NoTasksTyped DEF TypeOK, QueueInv, store
<1>5. RunningReleaseKept' /\ Served'
  BY <1>1, <1>3 DEF PlaneInv, RunningReleaseKept, Served, Up, store
<1>6. {loaded', pending'} \subseteq ValidIn(history')
  BY <1>1, <1>2 DEF ValidIn, store
<1>. QED BY <1>1, <1>4, <1>5, <1>6, EndKeepsInv

LEMMA ReloadFailsKeepsInv ==
  ASSUME PlaneInv, QueueInv', NEW j \in Jobs, job[j] = "running", ReloadFails(j)
  PROVE  PlaneInv' /\ LoadedStays
<1>. DEFINE u == task[j].undo
<1>1. /\ TypeOK /\ Up /\ ~Undoing /\ serving \in Contents /\ loaded \in Revs /\ history[loaded] # None
      /\ pending \in Revs /\ history[pending] # None /\ child \in Releases /\ u \in Undos
      /\ u # None => u.revision \in Revs /\ u.content \in Contents /\ history[u.revision] # None
      /\ task' = NoTasks /\ edited' = FALSE
      /\ UNCHANGED <<damaged, built, phase, parent>> /\ LinksIn(history) \subseteq releases
  BY ApplyFacts, DoneFacts DEF ReloadFails, SameRelease, PlaneInv, TypeOK
<1>2. PICK left \in Unmarked(child) : history' = left.history /\ Restored(u, left.current)
  BY DEF ReloadFails
<1>3. /\ history' \in Histories /\ left.current \in Revs /\ history'[left.current] # None
      /\ \A q \in Revs : history[q] # None =>
           history'[q] # None /\ history'[q].content = history[q].content
      /\ history'[loaded].release \in {history[loaded].release, child}
      /\ LinksIn(history') \subseteq releases
  BY <1>1, <1>2, UnmarkedFacts
<1>. HIDE DEF u
<1>4. disk' \in Contents /\ pending' \in Revs /\ history'[pending'] # None
  BY <1>1, <1>2, <1>3, RestoredFacts
<1>5. TypeOK'
  BY <1>1, <1>3, <1>4, NoTasksTyped DEF TypeOK, QueueInv, Histories, built, parent
<1>6. RunningReleaseKept' /\ Served'
  BY <1>1, <1>3 DEF PlaneInv, RunningReleaseKept, Served, Up, TypeOK, built, parent
<1>7. {loaded', pending'} \subseteq ValidIn(history') /\ serving' \in Contents
  BY <1>1, <1>3, <1>4 DEF ValidIn, parent
<1>8. LoadedStays
  BY <1>1, <1>3 DEF LoadedStays
<1>. QED BY <1>8, <1>1, <1>5, <1>6, <1>7, EndKeepsInv

LEMMA CommitFailsKeepsInv ==
  ASSUME PlaneInv, NEW j \in Jobs, Works(j), CommitFails(j)
  PROVE  PlaneInv' /\ history'[loaded'].content = history[loaded].content
<1>. DEFINE c == task[j].content
            digest == ReleaseOf[c]
            u == task[j].undo
            t == [step |-> "undo", previous |-> serving, undo |-> u]
<1>1. /\ job[j] = "running" /\ UNCHANGED queue /\ task[j].step = "apply"
      /\ child # None /\ digest # child /\ serving' = c /\ strayed' = (strayed \/ edited)
      /\ task' = [task EXCEPT ![j] = t] /\ UNCHANGED <<disk, damaged, phase, child, loaded, edited>>
  BY DEF CommitFails, Exchanges, Works, Set
<1>2. /\ TypeOK /\ Up /\ c \in Contents /\ digest \in Releases /\ LinksIn(history) \subseteq releases
      /\ loaded \in Revs /\ pending \in Revs /\ history[loaded] # None /\ history[pending] # None
      /\ serving \in Contents /\ u \in Undos /\ ~Undoing
      /\ ~edited => c = disk
      /\ u # None /\ ~edited => history[pending].content = disk
      /\ u # None => u.revision \in Revs /\ history[u.revision] # None
                     /\ history[u.revision].content = u.content
  BY <1>1, ApplyFacts DEF PlaneInv, Held, HistoryIntact
<1>3. /\ pointer' \in Pointers /\ releases' \subseteq Releases /\ LinksIn(history) \subseteq releases'
      /\ digest \in releases => digest \in releases'
  BY <1>2, ActivationFacts DEF CommitFails
<1>4. t \in Tasks /\ t.step = "undo" /\ t.previous = serving /\ t.undo = u
  BY <1>2, TaskMade
<1>5. /\ history' \in Histories /\ loaded' = loaded
      /\ pending' \in Revs /\ history'[pending'] # None
      /\ history'[loaded] # None /\ history'[loaded].content = history[loaded].content
      /\ u # None => history'[u.revision] # None /\ history'[u.revision].content = u.content
      /\ \/ history'[loaded].release = history[loaded].release
         \/ history'[loaded].release = digest /\ history[loaded].content = disk
      /\ history[pending].content = disk => history'[pending'].content = disk
      /\ LinksIn(history') \subseteq releases'
  <2>1. [current |-> pending, history |-> history] \in Unmarked(digest)
    BY DEF Unmarked
  <2>2. Becomes(history, pending) \/ \E left \in Unmarked(digest) : Becomes(left.history, left.current)
    BY DEF CommitFails
  <2>3. PICK left \in Unmarked(digest) : history' = left.history /\ pending' = left.current
    BY <2>1, <2>2 DEF Becomes
  <2>4. /\ left.history \in Histories
        /\ left.current \in Revs /\ left.history[left.current] # None
        /\ \A q \in Revs : history[q] # None =>
             left.history[q] # None /\ left.history[q].content = history[q].content
        /\ \/ left.history[loaded].release = history[loaded].release
           \/ left.history[loaded].release = digest /\ history[loaded].content = disk
        /\ history[pending].content = disk => left.history[left.current].content = disk
        /\ LinksIn(left.history) \subseteq releases'
    BY <1>2, <1>3, UnmarkedFacts
  <2>. HIDE DEF c, u, t
  <2>. QED BY <1>1, <1>2, <2>3, <2>4
<1>6. ~strayed => /\ history[loaded].content = serving /\ ReleaseOf[serving] = child
                  /\ history[loaded].release = child
  BY <1>1, <1>2 DEF PlaneInv, Served, RunningReleaseKept
<1>. HIDE DEF c, u, t
<1>7. TypeOK'
  BY <1>1, <1>2, <1>3, <1>4, <1>5 DEF TypeOK, QueueTypeOK, queue, Histories
<1>8. task'[j] = t
  BY <1>1, <1>2 DEF TypeOK
<1>9. RunningReleaseKept'
  BY <1>1, <1>2, <1>5, <1>6 DEF RunningReleaseKept
<1>10. Served'
  BY <1>4, <1>8 DEF Served, Undoing
<1>11. Held(j)'
  BY <1>1, <1>2, <1>4, <1>5, <1>6, <1>8 DEF Held
<1>12. {loaded', pending'} \subseteq ValidIn(history') /\ serving' \in Contents
       /\ (u # None => u.revision \in ValidIn(history'))
  BY <1>1, <1>2, <1>5 DEF ValidIn
<1>13. history'[loaded'].content = history[loaded].content
  BY <1>5
<1>. QED BY <1>13, <1>1, <1>2, <1>4, <1>5, <1>7, <1>9, <1>10, <1>11, <1>12, BeginKeepsInv

LEMMA UndoKeepsInv ==
  ASSUME PlaneInv, QueueInv', NEW j \in Jobs, job[j] = "running", Undo(j) \/ UndoFails(j)
  PROVE  PlaneInv'
<1>1. /\ TypeOK /\ Up /\ task[j].step = "undo" /\ loaded \in Revs /\ history[loaded] # None
      /\ LinksIn(history) \subseteq releases /\ serving \in Contents /\ child \in Releases
      /\ task' = NoTasks /\ edited' = FALSE
      /\ UNCHANGED <<store, phase, loaded>>
      /\ ~strayed => /\ history[loaded].content = task[j].previous
                     /\ ReleaseOf[task[j].previous] = child
  BY ApplyFacts, DoneFacts DEF Undo, UndoFails, PlaneInv, Held, TypeOK
<1>2. disk' \in Contents /\ pending' \in Revs /\ history'[pending'] # None
  <2>1. /\ task[j].undo \in Undos /\ pending \in Revs /\ history[pending] # None
        /\ task[j].undo # None => /\ task[j].undo.revision \in Revs /\ task[j].undo.content \in Contents
                                  /\ history[task[j].undo.revision] # None
    BY <1>1, ApplyFacts
  <2>. QED BY <1>1, <2>1, RestoredFacts DEF Undo, UndoFails, store
<1>3. task[j].previous \in Contents /\ serving' \in {serving, task[j].previous}
  BY <1>1, TaskFacts DEF Undo, UndoFails
<1>4. pointer' \in Pointers /\ releases' \subseteq Releases /\ LinksIn(history) \subseteq releases'
  <2>1. CASE UNCHANGED built
    BY <1>1, <2>1 DEF built, TypeOK
  <2>2. CASE ~UNCHANGED built
    BY <1>1, <2>2, ActivationFacts DEF Undo, UndoFails
  <2>. QED BY <2>1, <2>2
<1>5. \/ UNCHANGED <<child, strayed>> /\ serving' = task[j].previous
      \/ strayed' = TRUE /\ child' = None
  BY DEF Undo, UndoFails
<1>6. TypeOK'
  BY <1>1, <1>2, <1>3, <1>4, <1>5, NoTasksTyped DEF TypeOK, QueueInv, store
<1>7. RunningReleaseKept' /\ Served'
  BY <1>1, <1>4, <1>5 DEF PlaneInv, RunningReleaseKept, Served, Up, store
<1>8. {loaded', pending'} \subseteq ValidIn(history') /\ serving' \in Contents
  BY <1>1, <1>2, <1>3 DEF ValidIn, store
<1>. QED BY <1>1, <1>6, <1>7, <1>8, EndKeepsInv

-----------------------------------------------------------------------------
(* Beside the jobs.                                                        *)

(* Edits by hand, refreshes and the commands of other processes.           *)
LEMMA OthersKeepInv ==
  ASSUME PlaneInv, UNCHANGED queue,
         \/ \E c \in Contents : External(c)
         \/ Refresh \/ ActivateCommand \/ RollbackCommand
  PROVE  PlaneInv' /\ LoadedStays
<1>1. /\ TypeOK /\ QueueInv' /\ LinksIn(history) \subseteq releases
      /\ UNCHANGED <<damaged, phase, parent, task>>
  BY DEF PlaneInv, RunningReleaseKept, QueueInv, QueueTypeOK, queue, store, External, Refresh,
         ActivateCommand, RollbackCommand
<1>2. Up => /\ loaded \in Revs /\ history[loaded] # None /\ history[loaded] = history'[loaded]
           /\ pending' \in Revs /\ history'[pending'] # None
  <2>1. Up => loaded \in Revs /\ history[loaded] # None /\ pending \in Revs /\ history[pending] # None
    BY DEF PlaneInv, HistoryIntact, Valid, ValidIn
  <2>2. CASE Refresh
    BY <1>1, <2>1, <2>2, RefreshedFacts DEF Refresh, RefreshNow, Becomes, GrownTo
  <2>. QED BY <2>1, <2>2 DEF External, ActivateCommand, RollbackCommand, store
<1>3. GrownTo(history') /\ pending' \in Revs \cup {None}
  <2>1. GrownTo(history)
    BY <1>1 DEF TypeOK, GrownTo, Histories
  <2>2. CASE Refresh
    BY <1>1, <2>2, RefreshedFacts DEF Refresh, RefreshNow, Becomes
  <2>. QED BY <1>1, <2>1, <2>2 DEF External, ActivateCommand, RollbackCommand, store, TypeOK
<1>4. /\ pointer' \in Pointers /\ releases' \subseteq Releases /\ LinksIn(history) \subseteq releases'
      /\ disk' \in Contents /\ edited' \in BOOLEAN
  <2>1. CASE ActivateCommand
    <3>1. ReleaseOf[disk] \in Releases
      BY <1>1, RevisionsAssumption DEF TypeOK, RevisionsAssumption
    <3>2. pointer' \in Pointers /\ releases' \subseteq Releases /\ LinksIn(history) \subseteq releases'
      BY <1>1, <2>1, <3>1, ActivatedFacts, PrunedFacts DEF ActivateCommand, ActivateNew, TypeOK
    <3>. QED BY <1>1, <2>1, <3>2 DEF ActivateCommand, TypeOK
  <2>2. CASE RollbackCommand
    <3>1. pointer.previous \in Releases
      BY <1>1, <2>2 DEF RollbackCommand, TypeOK
    <3>. QED BY <1>1, <2>2, <3>1 DEF RollbackCommand, Pointers, TypeOK
  <2>3. CASE (\E c \in Contents : External(c)) \/ Refresh
    BY <1>1, <2>3 DEF External, Refresh, built, TypeOK
  <2>. QED BY <2>1, <2>2, <2>3
<1>5. TypeOK'
  BY <1>1, <1>3, <1>4 DEF TypeOK, QueueInv, GrownTo, Histories, parent
<1>6. RunningReleaseKept' /\ Served'
  BY <1>1, <1>3, <1>4, <1>5, GrowthKeepsServed DEF Undoing
<1>7. HistoryIntact'
  <2>1. ASSUME NEW r \in Revs, history[r] # None PROVE history'[r] = history[r]
    BY <1>3, <2>1 DEF GrownTo
  <2>. QED BY <1>1, <1>2, <2>1 DEF PlaneInv, HistoryIntact, Valid, ValidIn, Up, parent
<1>8. ASSUME NEW j \in Jobs PROVE Held(j)'
  <2>1. CASE task[j] = NoTask
    BY <1>1, <2>1, TaskMade DEF Held
  <2>2. CASE task[j] # NoTask
    <3>1. Up /\ Busy
      BY <1>1, <2>2, NoTasksTyped DEF PlaneInv, Ruled, Busy, NoTasks
    <3>2. CASE \E c \in Contents : External(c)
      <4>1. edited'
        BY <3>1, <3>2 DEF External
      <4>. QED BY <1>1, <1>2, <3>1, <3>2, <4>1 DEF PlaneInv, Held, External, parent, store
    <3>3. CASE Refresh
      <4>1. disk' = disk /\ edited' = edited /\ history'[pending'].content = disk
        BY <1>1, <3>3, RefreshedFacts DEF Refresh, RefreshNow, Becomes
      <4>2. task[j].step = "sync" => history'[task[j].from] = history[task[j].from]
        BY <1>1, <1>3, <3>1, TaskFacts DEF PlaneInv, HistoryIntact, Valid, ValidIn, GrownTo
      <4>. QED BY <1>1, <1>2, <3>1, <4>1, <4>2 DEF PlaneInv, Held, parent
    <3>4. CASE ActivateCommand \/ RollbackCommand
      BY <1>1, <3>4 DEF PlaneInv, Held, ActivateCommand, RollbackCommand, parent, store
    <3>. QED BY <3>2, <3>3, <3>4
  <2>. QED BY <2>1, <2>2
<1>9. Ruled'
  <2>1. phase = "starting" => (~edited' => disk' = disk /\ ~edited)
    BY DEF External, Refresh, ActivateCommand, RollbackCommand, Busy
  <2>. QED BY <1>1, <2>1 DEF PlaneInv, Ruled, Up, parent, queue
<1>10. LoadedStays
  BY <1>1, <1>3, GrowthKeepsLoaded
<1>. QED BY <1>10, <1>1, <1>5, <1>6, <1>7, <1>8, <1>9 DEF PlaneInv

LEMMA LifeKeepsInv ==
  ASSUME PlaneInv, UNCHANGED queue, Start \/ Ready
  PROVE  PlaneInv' /\ (Ready => history'[loaded'].content = disk)
<1>1. /\ TypeOK /\ QueueInv' /\ LinksIn(history) \subseteq releases /\ ~Up
      /\ task = NoTasks /\ task' = NoTasks
  BY DEF PlaneInv, Ruled, RunningReleaseKept, QueueInv, QueueTypeOK, queue, Start, Ready, Up
<1>2. \A j \in Jobs : Held(j)'
  BY <1>1, NoTasksTyped DEF Held
<1>3. CASE Start
  <2>1. ReleaseOf[disk] \in Releases
    BY <1>1, RevisionsAssumption DEF TypeOK, RevisionsAssumption
  <2>2. pointer' \in Pointers /\ releases' \subseteq Releases /\ LinksIn(history) \subseteq releases'
    BY <1>1, <1>3, <2>1, ActivatedFacts, PrunedFacts DEF Start, ActivateNew, TypeOK
  <2>3. /\ phase' = "starting" /\ serving' = disk /\ child' = ReleaseOf[disk]
        /\ UNCHANGED <<disk, store, pending, loaded, task, strayed>> /\ edited' = FALSE
    BY <1>3 DEF Start
  <2>4. TypeOK'
    BY <1>1, <2>1, <2>2, <2>3 DEF TypeOK, QueueInv, store
  <2>5. RunningReleaseKept' /\ Served' /\ HistoryIntact'
    BY <2>2, <2>3 DEF RunningReleaseKept, Served, HistoryIntact, Up, store
  <2>6. Ruled'
    BY <1>1, <2>3, NoTasksTyped DEF Ruled, Up, NoTasks, TypeOK
  <2>7. ~Ready
    BY <1>3 DEF Start, Ready
  <2>. QED BY <1>1, <1>2, <2>4, <2>5, <2>6, <2>7 DEF PlaneInv
<1>4. CASE Ready
  <2>1. PICK r \in Revs :
          /\ pending' = r /\ loaded' = r
          /\ \/ /\ history[r] # None /\ history[r].content = disk
                /\ history' = Linked(history, r, child)
             \/ r \in UnusedIn(history) /\ history' = Linked(With(history, r, disk), r, child)
    <3>. DEFINE same == {r \in Valid : history[r].content = disk}
    <3>1. CASE same = {}
      <4>1. PICK r \in UnusedIn(history) : /\ history' = Linked(With(history, r, disk), r, child)
                                           /\ pending' = r /\ loaded' = r
        BY <1>4, <3>1 DEF Ready
      <4>. QED BY <4>1 DEF UnusedIn
    <3>2. CASE same # {}
      <4>1. PICK r \in same : history' = Linked(history, r, child) /\ pending' = r /\ loaded' = r
        BY <1>4, <3>2 DEF Ready
      <4>. QED BY <4>1 DEF Valid, ValidIn
    <3>. QED BY <3>1, <3>2
  <2>. DEFINE h == IF r \in UnusedIn(history) THEN With(history, r, disk) ELSE history
  <2>2. /\ history' = Linked(h, r, child) /\ pending' = r /\ loaded' = r
        /\ r \notin UnusedIn(history) => history[r] # None /\ history[r].content = disk
    BY <2>1 DEF UnusedIn, ValidIn
  <2>3. GrownTo(history)
    BY <1>1 DEF TypeOK, GrownTo, Histories
  <2>4. GrownTo(h) /\ h \in Histories /\ h[r] # None /\ h[r].content = disk
    BY <1>1, <2>2, <2>3, WithFacts DEF TypeOK, GrownTo
  <2>5. /\ phase' = "up" /\ phase = "starting" /\ strayed' = edited /\ edited' = FALSE
        /\ UNCHANGED <<disk, damaged, built, child, serving, task>> /\ child \in releases
    BY <1>4 DEF Ready
  <2>6. child \in Releases
    BY <1>1, <2>5 DEF TypeOK
  <2>7. LinksIn(history') \subseteq releases'
    BY <1>1, <2>2, <2>4, <2>5, <2>6, GrownKeepsLinks, LinkedKeepsLinks DEF built
  <2>8. /\ history' \in Histories /\ history'[r] # None /\ history'[r].content = disk
        /\ history'[r].release = child
    BY <2>2, <2>4, <2>6, LinkedFacts
  <2>9. TypeOK'
    BY <1>1, <2>2, <2>5, <2>8 DEF TypeOK, QueueInv, Histories, built
  <2>10. child = ReleaseOf[serving] /\ serving \in Contents /\ (~edited => serving = disk)
    BY <2>5 DEF PlaneInv, Ruled
  <2>11. RunningReleaseKept' /\ Served'
    BY <2>2, <2>5, <2>7, <2>8, <2>10 DEF RunningReleaseKept, Served
  <2>12. HistoryIntact' /\ Ruled'
    BY <1>1, <2>2, <2>5, <2>8, <2>10, NoTasksTyped
    DEF HistoryIntact, Ruled, Up, Valid, ValidIn, NoTasks
  <2>. QED BY <1>1, <1>2, <2>2, <2>8, <2>9, <2>11, <2>12 DEF PlaneInv
<1>. QED BY <1>3, <1>4

LEMMA DeathKeepsInv ==
  ASSUME PlaneInv, QueueInv', ProcessDies
  PROVE  PlaneInv'
<1>1. /\ TypeOK /\ LinksIn(history) \subseteq releases /\ UNCHANGED <<disk, store>>
      /\ phase' = "down" /\ task' = NoTasks /\ edited' = FALSE
      /\ pending' = None /\ loaded' = None /\ child' = None /\ serving' = None /\ strayed' = FALSE
  BY DEF PlaneInv, RunningReleaseKept, ProcessDies, Crash, CrashCommitting, Died
<1>2. pointer' \in Pointers /\ releases' \subseteq Releases /\ LinksIn(history) \subseteq releases'
  <2>1. CASE Crash
    BY <1>1, <2>1 DEF Crash, TypeOK, built
  <2>2. ASSUME NEW j \in Jobs, CrashCommitting(j)
        PROVE  pointer' \in Pointers /\ releases' \subseteq Releases /\ LinksIn(history) \subseteq releases'
    <3>1. ReleaseOf[task[j].content] \in Releases
      BY <1>1, <2>2, TaskFacts, RevisionsAssumption DEF CrashCommitting, Exchanges, RevisionsAssumption
    <3>2. pointer' \in Pointers
      BY <1>1, <2>2, <3>1, ActivatedFacts DEF CrashCommitting
    <3>3. PICK kept \in Pruned(releases, pointer', history) :
            kept \subseteq releases' /\ releases' \subseteq releases
      BY <2>2 DEF CrashCommitting, PartlyPruned
    <3>. QED BY <1>1, <3>2, <3>3, PrunedFacts DEF TypeOK
  <2>. QED BY <2>1, <2>2 DEF ProcessDies
<1>3. TypeOK'
  BY <1>1, <1>2, NoTasksTyped DEF TypeOK, QueueInv, store
<1>4. \A j \in Jobs : Held(j)'
  BY <1>1, NoTasksTyped DEF Held
<1>5. Ruled' /\ HistoryIntact' /\ RunningReleaseKept' /\ Served'
  BY <1>1, <1>2, NoTasksTyped
  DEF Ruled, HistoryIntact, RunningReleaseKept, Served, Up, NoTasks, store
<1>. QED BY <1>3, <1>4, <1>5 DEF PlaneInv

-----------------------------------------------------------------------------
(* Every step of the control plane is one of the queue, or none.           *)
LEMMA StepsOfQueue == [Next]_vars => [QueueNext]_queue
BY DEF Next, vars, Submit, Answered, Job, Begins, Ends, Works, ProcessDies, Beside, QueueNext, queue

LEMMA PlaneInvInit == Init => PlaneInv
<1>. SUFFICES ASSUME Init PROVE PlaneInv
  OBVIOUS
<1>1. QueueInv
  BY QueueInvInit DEF Init
<1>2. TypeOK
  BY <1>1, NoTasksTyped
  DEF Init, RevisionsInit, TypeOK, QueueInv, Pointers
<1>3. LinksIn(history) = {}
  BY <1>2 DEF Init, RevisionsInit, LinksIn, ValidIn
<1>4. \A j \in Jobs : Held(j)
  BY NoTasksTyped DEF Init, RevisionsInit, Held
<1>. QED BY <1>1, <1>2, <1>3, <1>4, NoTasksTyped
         DEF Init, RevisionsInit, PlaneInv, Ruled, HistoryIntact, RunningReleaseKept, Served, Up, NoTasks

LEMMA PlaneInvStep == PlaneInv /\ [Next]_vars => PlaneInv'
<1>. SUFFICES ASSUME PlaneInv, [Next]_vars PROVE PlaneInv'
  OBVIOUS
<1>1. QueueInv'
  BY StepsOfQueue, QueueNextKeepsInv DEF PlaneInv
<1>2. CASE UNCHANGED vars
  BY <1>2 DEF PlaneInv, QueueInv, QueueTypeOK, TypeOK, Ruled, HistoryIntact, RunningReleaseKept, Held,
              Served, Undoing, Up, Valid, ValidIn, LinksIn, vars, queue, revVars, store, built, parent
<1>3. ASSUME NEW j \in Jobs, Submit(j) \/ Answered(j) PROVE PlaneInv'
  <2>1. UNCHANGED revVars /\ job[j] # "running"
    BY <1>3 DEF Submit, Answered, Run, Settle
  <2>2. ASSUME NEW k \in Jobs, job[k] = "running" PROVE job'[k] = "running"
    BY <1>3, <2>1, <2>2 DEF Submit, Answered, Run, Settle, Pump, PlaneInv, QueueInv, QueueTypeOK
  <2>. QED BY <1>1, <2>1, <2>2
           DEF PlaneInv, QueueInv, TypeOK, Ruled, HistoryIntact, RunningReleaseKept, Held, Served,
               Undoing, Up, Valid, ValidIn, LinksIn, revVars, store, built, parent
<1>4. ASSUME NEW j \in Jobs, Begins(j) PROVE PlaneInv'
  BY <1>4, SyncBeginKeepsInv, ApplyBeginKeepsInv, RollbackBeginKeepsInv, CommitFailsKeepsInv
  DEF Begins
<1>5. ASSUME NEW j \in Jobs, Ends(j) PROVE PlaneInv'
  BY <1>1, <1>5, EditKeepsInv, PruneKeepsInv, SyncKeepsInv, ApplySucceedsKeepsInv,
     ApplyFailsKeepsInv, ReloadFailsKeepsInv, UndoKeepsInv, RefusedKeepsInv
  DEF Ends, TaskEnds, Edits, Prunes, Applies
<1>6. CASE ProcessDies
  BY <1>1, <1>6, DeathKeepsInv
<1>7. CASE Beside
  BY <1>7, OthersKeepInv, LifeKeepsInv DEF Beside
<1>. QED BY <1>2, <1>3, <1>4, <1>5, <1>6, <1>7 DEF Next, Job

(* Types, for every history, set of jobs and set of releases.              *)
THEOREM PlaneTyped == Spec => []TypeOK
<1>1. PlaneInv => TypeOK
  BY DEF PlaneInv
<1>. QED BY <1>1, PlaneInvInit, PlaneInvStep, PTL DEF Spec

(* No prune removes a revision that the process or its job will read.      *)
THEOREM HistoryStaysIntact == Spec => []HistoryIntact
<1>1. PlaneInv => HistoryIntact
  BY DEF PlaneInv
<1>. QED BY <1>1, PlaneInvInit, PlaneInvStep, PTL DEF Spec

(* No prune removes a release that a revision names, the running one among *)
(* them.                                                                   *)
THEOREM RunningReleaseStays == Spec => []RunningReleaseKept
<1>1. PlaneInv => RunningReleaseKept
  BY DEF PlaneInv
<1>. QED BY <1>1, PlaneInvInit, PlaneInvStep, PTL DEF Spec

(* The loaded revision says what is routed with.                           *)
THEOREM LoadedStaysServed == Spec => []LoadedIsServed
<1>1. PlaneInv => LoadedIsServed
  BY DEF PlaneInv, Served, LoadedIsServed, Undoing
<1>. QED BY <1>1, PlaneInvInit, PlaneInvStep, PTL DEF Spec

(* The control plane keeps the promise of the queue.                       *)
THEOREM PlaneImplementsJobLine == Spec => ImplementsJobLine
<1>1. Init => QueueInit
  BY DEF Init
<1>. QED BY <1>1, StepsOfQueue, QueueIsJobLine, PTL DEF Spec, QueueSpec

(* No job overwrites what has no revision, unless it was edited by hand    *)
(* meanwhile.                                                              *)
THEOREM OverwritesStayRecorded == Spec => OverwritesAreRecorded
<1>. DEFINE Kept == disk' # disk => \/ \E c \in Contents : External(c)
                                   \/ edited
                                   \/ \E r \in ValidIn(history') : history'[r].content = disk
<1>1. ASSUME PlaneInv, [Next]_vars PROVE Kept
  <2>0. TypeOK
    BY <1>1 DEF PlaneInv
  <2>1. ASSUME NEW j \in Jobs, NEW c \in Contents, Edit(j, c) PROVE Kept
    <3>1. PICK now \in Refreshed :
            \/ c = disk
            \/ \E r \in UnusedIn(now.history) : Becomes(With(now.history, r, c), r)
      BY <2>1 DEF Edit
    <3>2. /\ GrownTo(now.history) /\ now.current \in Revs /\ now.history[now.current] # None
          /\ now.history[now.current].content = disk
      BY <2>0, RefreshedFacts
    <3>3. CASE c = disk
      BY <2>1, <3>3 DEF Edit
    <3>4. ASSUME NEW r \in UnusedIn(now.history), Becomes(With(now.history, r, c), r)
          PROVE  Kept
      <4>1. history'[now.current] = now.history[now.current]
        BY <2>0, <3>2, <3>4, WithFacts DEF Becomes
      <4>. QED BY <3>2, <4>1 DEF ValidIn
    <3>. QED BY <3>1, <3>3, <3>4
  <2>2. ASSUME NEW j \in Jobs, NEW target \in Revs, RollbackBegin(j, target) PROVE Kept
    <3>1. disk' \in Contents
      BY <2>0, <2>2, ManifestFacts DEF RollbackBegin, TypeOK, Valid, ValidIn
    <3>2. PICK now \in Refreshed :
            \E r \in UnusedIn(now.history) : Becomes(With(now.history, r, disk'), r)
      BY <2>2 DEF RollbackBegin
    <3>3. /\ GrownTo(now.history) /\ now.current \in Revs /\ now.history[now.current] # None
          /\ now.history[now.current].content = disk
      BY <2>0, RefreshedFacts
    <3>4. history'[now.current] = now.history[now.current]
      BY <2>0, <3>1, <3>2, <3>3, WithFacts DEF Becomes
    <3>. QED BY <3>3, <3>4 DEF ValidIn
  <2>3. ASSUME NEW j \in Jobs, NEW c \in Contents, SyncEnd(j, c), Up PROVE Kept
    <3>1. CASE UNCHANGED disk
      BY <3>1
    <3>2. CASE disk' # disk
      <4>1. PICK r \in UnusedIn(history) : Becomes(With(history, r, c), r)
        BY <2>3, <3>2 DEF SyncEnd
      <4>2. GrownTo(history)
        BY <2>0 DEF TypeOK, GrownTo, Histories
      <4>3. task[j].from \in Revs /\ history[task[j].from] # None
        BY <1>1, <2>3 DEF SyncEnd, PlaneInv, HistoryIntact, Valid, ValidIn
      <4>4. ~edited => history[task[j].from].content = disk
        BY <1>1, <2>3 DEF SyncEnd, PlaneInv, Held
      <4>5. history'[task[j].from] = history[task[j].from]
        BY <2>0, <4>1, <4>2, <4>3, WithFacts DEF Becomes
      <4>. QED BY <4>3, <4>4, <4>5 DEF ValidIn
    <3>. QED BY <3>1, <3>2
  <2>4. ASSUME NEW j \in Jobs, job[j] = "running",
               \/ ApplyFails(j) \/ ApplyStrands(j) \/ ReloadFails(j)
               \/ Undo(j) \/ UndoFails(j)
        PROVE  Kept
    <3>1. /\ task[j].step \in {"apply", "undo"}
          /\ disk' # disk => task[j].undo # None
      BY <2>4 DEF ApplyFails, ApplyStrands, ReloadFails, Undo, UndoFails, Exchanges, SameRelease, Restored
    <3>2. pending \in Revs /\ history'[pending] # None /\ history'[pending].content = history[pending].content
      <4>1. pending \in Revs /\ history[pending] # None /\ TypeOK
            /\ loaded \in Revs /\ history[loaded] # None /\ LinksIn(history) \subseteq releases
        BY <1>1, <2>4, <3>1, ApplyFacts
      <4>2. CASE ReloadFails(j)
        <5>1. child \in Releases
          BY <4>1, <4>2 DEF ReloadFails, SameRelease, TypeOK
        <5>. QED BY <4>1, <4>2, <5>1, UnmarkedFacts DEF ReloadFails
      <4>3. CASE ~ReloadFails(j)
        BY <2>4, <4>1, <4>3 DEF ApplyFails, ApplyStrands, Undo, UndoFails, store
      <4>. QED BY <4>2, <4>3
    <3>3. task[j].undo # None /\ ~edited => history[pending].content = disk
      BY <1>1, <3>1 DEF PlaneInv, Held
    <3>. QED BY <3>1, <3>2, <3>3 DEF ValidIn
  <2>5. ASSUME NEW j \in Jobs, Begins(j) PROVE Kept
    BY <2>2, <2>5 DEF Begins, SyncBegin, ApplyBegin, CommitFails
  <2>6. ASSUME NEW j \in Jobs, Ends(j) PROVE Kept
    <3>1. job[j] = "running" /\ (task[j].step = "sync" => Up)
      BY <1>1, <2>6, Alone, NoTasksTyped DEF Ends, TaskEnds
    <3>2. CASE Edits(j)
      BY <2>1, <3>2 DEF Edits, EditUndone
    <3>3. CASE Syncs(j)
      BY <2>3, <3>1, <3>3 DEF Syncs, SyncEnd, SyncFails
    <3>4. CASE Applies(j)
      BY <2>4, <3>1, <3>4 DEF Applies, ApplySucceeds
    <3>5. CASE Prunes(j) \/ Refused(j)
      BY <3>5 DEF Prunes, Prune, PruneFails, Refused
    <3>. QED BY <2>6, <3>2, <3>3, <3>4, <3>5 DEF Ends
  <2>7. CASE ProcessDies
    BY <2>7 DEF ProcessDies, Crash, CrashCommitting
  <2>8. CASE Beside
    BY <2>8 DEF Beside, Refresh, ActivateCommand, RollbackCommand, Start, Ready
  <2>9. ASSUME NEW j \in Jobs, Submit(j) \/ Answered(j) PROVE Kept
    BY <2>9 DEF Submit, Answered, revVars
  <2>10. CASE UNCHANGED vars
    BY <2>10 DEF vars, revVars
  <2>. QED BY <1>1, <2>5, <2>6, <2>7, <2>8, <2>9, <2>10 DEF Next, Job
<1>2. PlaneInv /\ [Next]_vars =>
        (disk' # disk => \/ \E c \in Contents : External(c)
                         \/ edited
                         \/ \E r \in ValidIn(history') : history'[r].content = disk)
  BY <1>1
<1>. QED BY <1>2, PlaneInvInit, PlaneInvStep, PTL DEF Spec, OverwritesAreRecorded

-----------------------------------------------------------------------------
(* An apply does what Switchover promises, whatever happens beside it.     *)

(* While job j runs it alone can be under way.                             *)
LEMMA AttemptFacts ==
  ASSUME PlaneInv, NEW j \in Jobs, job[j] = "running", running' = running
  PROVE  AttemptShown = AttemptOf(task[j]) /\ AttemptShown' = AttemptOf(task'[j])
BY DEF PlaneInv, QueueInv, AttemptShown

LEMMA NoAttemptFacts ==
  ASSUME NEW t, t = NoTask \/ t.step = "sync"
  PROVE  AttemptOf(t) = Shown!NoAttempt
BY DEF NoTask, AttemptOf, Shown!NoAttempt

LEMMA BackFacts ==
  ASSUME NEW u \in Undos
  PROVE  BackOf(u) \in Shown!Backs /\ (u # None => BackOf(u) = u.content /\ BackOf(u) # None)
BY UndoFacts, RevisionsAssumption DEF BackOf, Shown!Backs, RevisionsAssumption

(* Steps that change neither what is served nor what is attempted.         *)
LEMMA OutsideShown ==
  ASSUME TypeOK', LoadedStays, AttemptShown' = AttemptShown
  PROVE  Shown!Next
<1>1. Shown!Outside
  BY DEF Shown!Outside, Shown!serving, TypeOK, Pointers, LoadedStays, parent, WhileUp, Up
<1>. QED BY <1>1 DEF Shown!Next

(* Jobs that do not apply, or do not yet.                                  *)
LEMMA OtherJobsShown ==
  ASSUME PlaneInv, PlaneInv', NEW j \in Jobs, job[j] = "running", running' = running,
         \/ Edits(j) \/ Prunes(j) \/ Syncs(j) \/ Refused(j)
         \/ SyncBegin(j) /\ Works(j)
  PROVE  Shown!Next
<1>1. LoadedStays
  BY EditKeepsInv, PruneKeepsInv, SyncKeepsInv, RefusedKeepsInv, SyncBeginKeepsInv
  DEF Edits, Prunes, PlaneInv
<1>2. /\ task[j] = NoTask \/ task[j].step = "sync"
      /\ task'[j] = NoTask \/ task'[j].step = "sync"
  BY DEF Edits, Edit, EditUndone, Prunes, Prune, PruneFails, Syncs, SyncEnd, SyncFails, Refused,
         SyncBegin, Done, Set, PlaneInv, TypeOK
<1>3. AttemptShown' = AttemptShown
  BY <1>2, AttemptFacts, NoAttemptFacts
<1>. QED BY <1>1, <1>3, OutsideShown DEF PlaneInv

(* An apply begins.                                                        *)
LEMMA BeginShown ==
  ASSUME PlaneInv, PlaneInv', NEW j \in Jobs, Works(j), task[j] = NoTask, NEW u \in Undos,
         Generate(j, disk', u), LoadedStays, Up,
         (IF u = None THEN disk' ELSE u.content) = disk
  PROVE  Shown!Next
<1>1. /\ job[j] = "running" /\ running' = running
      /\ task'[j] = [step |-> "apply", content |-> disk', undo |-> u]
  BY DEF Works, queue, Generate, Set, PlaneInv, TypeOK
<1>2. AttemptShown = Shown!NoAttempt /\ AttemptShown' = Shown!Apply(disk', BackOf(u))
  <2>1. AttemptShown = AttemptOf(task[j]) /\ AttemptShown' = AttemptOf(task'[j])
    BY <1>1, AttemptFacts
  <2>2. AttemptOf(task[j]) = Shown!NoAttempt
    BY NoAttemptFacts
  <2>3. AttemptOf([step |-> "apply", content |-> disk', undo |-> u]) = Shown!Apply(disk', BackOf(u))
    BY DEF AttemptOf, Shown!Apply
  <2>. QED BY <1>1, <2>1, <2>2, <2>3
<1>3. history[loaded].content # None
  BY ManifestFacts, RevisionsAssumption
  DEF RevisionsAssumption, PlaneInv, HistoryIntact, TypeOK, Valid, ValidIn
<1>4. Shown!Begin(disk', BackOf(u))
  BY <1>2, <1>3, BackFacts
  DEF Shown!Begin, Shown!Runs, Shown!serving, WhileUp, Up, LoadedStays, parent, Generate, BackOf
<1>. QED BY <1>4, BackFacts DEF Shown!Next, PlaneInv, TypeOK

(* What an apply or its way back, when it is over, can rely on.            *)
LEMMA AppliedFacts ==
  ASSUME PlaneInv, NEW j \in Jobs, job[j] = "running", running' = running, Done(j),
         task[j].step \in {"apply", "undo"}, phase' = phase
  PROVE  /\ TypeOK /\ Up /\ phase' = "up" /\ BackOf(task[j].undo) \in Shown!Backs
         /\ task[j].step = "apply" =>
              /\ task[j].content \in Contents
              /\ AttemptShown = Shown!Apply(task[j].content, BackOf(task[j].undo))
         /\ task[j].step = "undo" =>
              /\ task[j].previous \in Contents
              /\ AttemptShown = Shown!TakeBack(task[j].previous, BackOf(task[j].undo))
         /\ AttemptShown' = Shown!NoAttempt
<1>1. TypeOK /\ Up /\ task[j].undo \in Undos
  BY ApplyFacts
<1>2. task'[j] = NoTask
  BY <1>1 DEF Done, Set, TypeOK
<1>. QED BY <1>1, <1>2, AttemptFacts, NoAttemptFacts, BackFacts, TaskFacts
         DEF AttemptOf, Up, Shown!Apply, Shown!TakeBack

LEMMA RestoredShown ==
  ASSUME NEW u \in Undos, NEW current, Restored(u, current), AttemptShown' = Shown!NoAttempt
  PROVE  Shown!Ended(BackOf(u))
BY BackFacts DEF Restored, Shown!Ended

(* An activation, complete or not, leaves active as it is or names the     *)
(* release of the children.                                                *)
LEMMA RelinkedShown ==
  ASSUME TypeOK, Up, child # None,
         UNCHANGED built \/ ActivateRelease(child, history) \/ ActivateFails(child, history)
  PROVE  Shown!Relinked
BY ActivatedFacts DEF TypeOK, built, ActivateRelease, ActivateFails, Shown!Relinked, WhileUp

LEMMA ApplyShown ==
  ASSUME PlaneInv, PlaneInv', NEW j \in Jobs, job[j] = "running", running' = running, Applies(j)
  PROVE  Shown!Next
<1>. DEFINE back == BackOf(task[j].undo)
<1>0. /\ Done(j) /\ task[j].step \in {"apply", "undo"} /\ phase' = phase
      /\ task[j].undo \in Undos
  <2>1. Done(j) /\ task[j].step \in {"apply", "undo"} /\ phase' = phase
    BY DEF Applies, ApplySucceeds, ApplyFails, ApplyStrands, ReloadFails, Undo, UndoFails,
           SameRelease, Exchanges
  <2>. QED BY <2>1, ApplyFacts
<1>1. /\ TypeOK /\ Up /\ Up' /\ back \in Shown!Backs
      /\ task[j].step = "apply" =>
           task[j].content \in Contents /\ AttemptShown = Shown!Apply(task[j].content, back)
      /\ task[j].step = "undo" =>
           task[j].previous \in Contents /\ AttemptShown = Shown!TakeBack(task[j].previous, back)
      /\ AttemptShown' = Shown!NoAttempt
  BY <1>0, AppliedFacts DEF Up
<1>. HIDE DEF back
<1>2. CASE ApplySucceeds(j)
  <2>1. /\ task[j].step = "apply" /\ child # None /\ UNCHANGED disk
        /\ serving' = task[j].content /\ child' = ReleaseOf[task[j].content]
    BY <1>2 DEF ApplySucceeds, SameRelease, Exchanges
  <2>2. history'[loaded'].content = disk
    BY <1>2, ApplySucceedsKeepsInv DEF PlaneInv
  <2>3. pointer'.active = IF child' = child THEN pointer.active ELSE child'
    <3>1. ReleaseOf[task[j].content] \in Releases
      BY <1>1, <2>1, RevisionsAssumption DEF RevisionsAssumption
    <3>. QED BY <1>1, <1>2, <2>1, <3>1, ActivatedFacts
             DEF ApplySucceeds, SameRelease, Exchanges, ActivateRelease, built
  <2>4. Shown!Succeed(task[j].content, back)
    BY <1>1, <2>1, <2>2, <2>3 DEF Shown!Succeed, Shown!Loads, WhileUp
  <2>. QED BY <1>1, <2>1, <2>4 DEF Shown!Next
<1>3. CASE ApplyFails(j) \/ ApplyStrands(j)
  <2>1. /\ task[j].step = "apply" /\ child' \in {child, None}
        /\ UNCHANGED <<store, serving, loaded>> /\ Restored(task[j].undo, pending)
    BY <1>3 DEF ApplyFails, ApplyStrands, Exchanges, parent
  <2>2. Shown!Relinked
    <3>1. CASE UNCHANGED built
      BY <3>1 DEF built, Shown!Relinked
    <3>2. CASE ~UNCHANGED built
      BY <1>1, <1>3, <3>2, RelinkedShown DEF ApplyFails, ApplyStrands, Exchanges
    <3>. QED BY <3>1, <3>2
  <2>3. Shown!Ended(back)
    BY <1>0, <1>1, <2>1, RestoredShown DEF back
  <2>4. Shown!Fail(task[j].content, back)
    BY <1>1, <2>1, <2>2, <2>3 DEF Shown!Fail, WhileUp, store
  <2>. QED BY <1>1, <2>1, <2>4 DEF Shown!Next
<1>4. CASE ReloadFails(j)
  <2>1. /\ task[j].step = "apply" /\ UNCHANGED <<built, child, serving, loaded>>
        /\ \E current : Restored(task[j].undo, current)
    BY <1>4 DEF ReloadFails, SameRelease, parent
  <2>2. history'[loaded].content = history[loaded].content
    BY <1>1, <1>4, ReloadFailsKeepsInv DEF PlaneInv, LoadedStays
  <2>3. Shown!Ended(back)
    BY <1>0, <1>1, <2>1, RestoredShown DEF back
  <2>4. Shown!Fail(task[j].content, back)
    BY <1>1, <2>1, <2>2, <2>3 DEF Shown!Fail, Shown!Relinked, WhileUp, built
  <2>. QED BY <1>1, <2>1, <2>4 DEF Shown!Next
<1>5. CASE Undo(j) \/ UndoFails(j)
  <2>1. /\ task[j].step = "undo" /\ UNCHANGED <<store, loaded>> /\ Restored(task[j].undo, pending)
        /\ child # None
    BY <1>0, <1>5 DEF Undo, UndoFails, PlaneInv, Held
  <2>2. Shown!Ended(back)
    BY <1>0, <1>1, <2>1, RestoredShown DEF back
  <2>3. CASE Undo(j)
    <3>1. pointer'.active = child
      BY <1>1, <2>1, <2>3, ActivatedFacts DEF Undo, ActivateRelease, TypeOK
    <3>2. Shown!TakenBack(task[j].previous, back)
      BY <1>1, <2>1, <2>2, <2>3, <3>1 DEF Undo, Shown!TakenBack, WhileUp, store
    <3>. QED BY <1>1, <2>1, <3>2 DEF Shown!Next
  <2>4. CASE UndoFails(j)
    <3>1. Shown!Relinked
      BY <1>1, <2>1, <2>4, RelinkedShown DEF UndoFails
    <3>2. Shown!Strand(task[j].previous, back)
      BY <1>1, <2>1, <2>2, <2>4, <3>1 DEF UndoFails, Shown!Strand, WhileUp, store
    <3>. QED BY <1>1, <2>1, <3>2 DEF Shown!Next
  <2>. QED BY <1>5, <2>3, <2>4
<1>. QED BY <1>2, <1>3, <1>4, <1>5 DEF Applies

(* A commit fails half-way: the routes have moved, and will be taken back. *)
LEMMA CommitFailsShown ==
  ASSUME PlaneInv, NEW j \in Jobs, Works(j), CommitFails(j)
  PROVE  Shown!Next
<1>. DEFINE c == task[j].content
            back == BackOf(task[j].undo)
            t == [step |-> "undo", previous |-> serving, undo |-> task[j].undo]
<1>1. /\ job[j] = "running" /\ running' = running /\ task[j].step = "apply"
      /\ child # None /\ ReleaseOf[c] # child /\ serving' = c /\ task' = [task EXCEPT ![j] = t]
      /\ UNCHANGED <<disk, phase, child, loaded>>
  BY DEF CommitFails, Exchanges, Works, Set, queue
<1>2. /\ TypeOK /\ Up /\ Up' /\ c \in Contents /\ ReleaseOf[c] \in Releases
      /\ task[j].undo \in Undos
  BY <1>1, ApplyFacts DEF Up
<1>3. history'[loaded].content = history[loaded].content
  BY <1>1, CommitFailsKeepsInv
<1>4. pointer'.active \in {pointer.active, ReleaseOf[c]}
  BY <1>2, ActivatedFacts DEF CommitFails, ActivateFails, ActivateRelease, built
<1>5. AttemptShown = Shown!Apply(c, back) /\ AttemptShown' = Shown!TakeBack(serving, back)
  <2>1. AttemptShown = AttemptOf(task[j]) /\ AttemptShown' = AttemptOf(task'[j])
    BY <1>1, AttemptFacts
  <2>2. task'[j] = t
    BY <1>1, <1>2 DEF TypeOK
  <2>3. AttemptOf(t) = Shown!TakeBack(serving, back)
    BY DEF AttemptOf, Shown!TakeBack
  <2>4. AttemptOf(task[j]) = Shown!Apply(c, back)
    BY <1>1 DEF AttemptOf, Shown!Apply
  <2>. QED BY <2>1, <2>2, <2>3, <2>4
<1>6. back \in Shown!Backs
  BY <1>2, BackFacts
<1>. HIDE DEF c, back, t
<1>7. Shown!CommitFails(c, back)
  BY <1>1, <1>2, <1>3, <1>4, <1>5 DEF Shown!CommitFails, WhileUp
<1>. QED BY <1>2, <1>6, <1>7 DEF Shown!Next

LEMMA BeginsShown ==
  ASSUME PlaneInv, PlaneInv', NEW j \in Jobs, Begins(j)
  PROVE  Shown!Next
<1>1. Works(j) /\ job[j] = "running" /\ running' = running
  BY DEF Begins, Works, queue
<1>2. CASE SyncBegin(j)
  BY <1>1, <1>2, OtherJobsShown
<1>3. CASE CommitFails(j)
  BY <1>1, <1>3, CommitFailsShown
<1>4. CASE ApplyBegin(j)
  <2>1. /\ task[j] = NoTask /\ Up /\ Generate(j, disk', None) /\ disk' = disk /\ None \in Undos
    BY <1>4 DEF ApplyBegin, Generate, Undos
  <2>2. LoadedStays
    BY <1>1, <1>4, ApplyBeginKeepsInv
  <2>. QED BY <1>1, <2>1, <2>2, BeginShown
<1>5. ASSUME NEW target \in Revs, RollbackBegin(j, target) PROVE Shown!Next
  <2>1. PICK now \in Refreshed : Generate(j, disk', [revision |-> now.current, content |-> disk])
    BY <1>5 DEF RollbackBegin
  <2>. DEFINE u == [revision |-> now.current, content |-> disk]
  <2>2. Up /\ now.current \in Revs /\ disk \in Contents
    BY RefreshedFacts DEF PlaneInv, TypeOK
  <2>3. u \in Undos /\ u # None /\ u.content = disk
    BY <2>2, RevisionsAssumption DEF Undos, WaysBack, RevisionsAssumption
  <2>4. LoadedStays /\ task[j] = NoTask
    BY <1>1, <1>5, RollbackBeginKeepsInv DEF RollbackBegin
  <2>5. Generate(j, disk', u)
    BY <2>1
  <2>. HIDE DEF u
  <2>. QED BY <1>1, <2>2, <2>3, <2>4, <2>5, BeginShown
<1>. QED BY <1>2, <1>3, <1>4, <1>5 DEF Begins

(* Beside the jobs, and in the queue.                                      *)
LEMMA NothingHeldShown ==
  ASSUME TypeOK, task = NoTasks
  PROVE  AttemptShown = Shown!NoAttempt
BY NoTasksTyped, NoAttemptFacts DEF AttemptShown, NoTasks

LEMMA ProcessShown ==
  ASSUME PlaneInv, PlaneInv', ProcessDies \/ (UNCHANGED queue /\ (Start \/ Ready))
  PROVE  [Shown!Next]_(Shown!vars)
<1>1. TypeOK /\ TypeOK'
  BY DEF PlaneInv
<1>2. CASE Start /\ UNCHANGED queue
  <2>1. /\ ~Up /\ ~Up' /\ AttemptShown = Shown!NoAttempt /\ AttemptShown' = AttemptShown
    BY <1>1, <1>2, NothingHeldShown DEF PlaneInv, Ruled, Up, Start, AttemptShown, queue
  <2>2. Shown!Outside
    BY <1>1, <2>1 DEF Shown!Outside, Shown!serving, TypeOK, Pointers, WhileUp
  <2>. QED BY <2>2 DEF Shown!Next
<1>3. CASE Ready /\ UNCHANGED queue
  <2>1. /\ ~Up /\ Up' /\ AttemptShown = Shown!NoAttempt /\ AttemptShown' = AttemptShown
    BY <1>1, <1>3, NothingHeldShown DEF PlaneInv, Ruled, Up, Ready, AttemptShown, queue
  <2>2. /\ serving \in Contents /\ child = ReleaseOf[serving]
        /\ UNCHANGED <<disk, built, child, serving>>
    BY <1>3 DEF PlaneInv, Ruled, Ready
  <2>3. history'[loaded'].content = disk
    BY <1>3, LifeKeepsInv
  <2>4. Shown!Boot
    BY <2>1, <2>2, <2>3 DEF Shown!Boot, Shown!Runs, WhileUp, built
  <2>. QED BY <2>4 DEF Shown!Next
<1>4. CASE ProcessDies
  <2>1. /\ ~Up' /\ task' = NoTasks /\ UNCHANGED disk
    BY <1>4 DEF ProcessDies, Crash, CrashCommitting, Died, Up
  <2>2. AttemptShown' = Shown!NoAttempt
    BY <1>1, <2>1, NoTasksTyped, NoAttemptFacts DEF AttemptShown, NoTasks
  <2>3. \/ pointer' = pointer
        \/ \E j \in Jobs : /\ task[j].step = "apply"
                           /\ pointer' = Activated(ReleaseOf[task[j].content])
    BY <1>4 DEF ProcessDies, Crash, CrashCommitting, Exchanges, built
  <2>4. \/ pointer' = pointer
        \/ AttemptShown.step = "apply" /\ pointer'.active = ReleaseOf[AttemptShown.to]
    <3>1. ASSUME NEW j \in Jobs, task[j].step = "apply",
                 pointer' = Activated(ReleaseOf[task[j].content])
          PROVE  AttemptShown.step = "apply" /\ pointer'.active = ReleaseOf[AttemptShown.to]
      <4>1. running = j
        BY <3>1, TaskMade DEF PlaneInv, Ruled, QueueInv
      <4>2. AttemptShown = [step |-> "apply", to |-> task[j].content, back |-> BackOf(task[j].undo)]
        BY <3>1, <4>1 DEF AttemptShown, AttemptOf
      <4>3. ReleaseOf[task[j].content] \in Releases
        BY <1>1, <3>1, TaskFacts, RevisionsAssumption DEF RevisionsAssumption
      <4>. QED BY <1>1, <3>1, <4>2, <4>3, ActivatedFacts
    <3>. QED BY <2>3, <3>1
  <2>5. Shown!Die
    BY <2>1, <2>2, <2>4 DEF Shown!Die, WhileUp
  <2>. QED BY <2>5 DEF Shown!Next
<1>. QED BY <1>2, <1>3, <1>4

LEMMA QueueShown ==
  ASSUME PlaneInv, PlaneInv', NEW j \in Jobs, Submit(j) \/ Answered(j)
  PROVE  Shown!Next
<1>1. /\ UNCHANGED revVars /\ TypeOK' /\ job[j] # "running"
      /\ running' \in {running} \/ job[running'] # "running" \/ running' \notin Jobs
  BY DEF PlaneInv, QueueInv, QueueTypeOK, Submit, Answered, Run, Settle, Pump
<1>2. AttemptShown' = AttemptShown
  <2>1. CASE running' = running
    BY <1>1, <2>1 DEF AttemptShown, revVars
  <2>2. CASE running' # running
    <3>1. \A k \in Jobs : task[k] = NoTask
      <4>1. running = NoJob \/ running = j
        BY <2>2 DEF PlaneInv, QueueInv, Submit, Answered, Run, Settle, Pump
      <4>. QED BY <1>1, <4>1, ControlJobsAssumption
               DEF PlaneInv, QueueInv, Ruled, ControlJobsAssumption
    <3>. QED BY <1>1, <3>1 DEF AttemptShown, revVars
  <2>. QED BY <2>1, <2>2
<1>3. LoadedStays
  BY <1>1 DEF revVars, store, LoadedStays
<1>. QED BY <1>1, <1>2, <1>3, OutsideShown

(* Whatever the control plane does, an apply keeps its promise: release,   *)
(* routes and loaded revision change together or are taken back.           *)
LEMMA StepShown == PlaneInv /\ PlaneInv' /\ [Next]_vars => [Shown!Next]_(Shown!vars)
<1>. SUFFICES ASSUME PlaneInv, PlaneInv', [Next]_vars PROVE [Shown!Next]_(Shown!vars)
  OBVIOUS
<1>1. CASE UNCHANGED vars
  BY <1>1 DEF vars, revVars, queue, store, built, parent, Shown!vars, Shown!serving,
              WhileUp, Up, AttemptShown
<1>2. ASSUME NEW j \in Jobs, Submit(j) \/ Answered(j) PROVE Shown!Next
  BY <1>2, QueueShown
<1>3. ASSUME NEW j \in Jobs, Begins(j) PROVE Shown!Next
  BY <1>3, BeginsShown
<1>4. ASSUME NEW j \in Jobs, Ends(j) PROVE Shown!Next
  BY <1>4, OtherJobsShown, ApplyShown DEF Ends, TaskEnds
<1>5. CASE ProcessDies
  BY <1>5, ProcessShown
<1>6. CASE Beside
  <2>1. UNCHANGED queue
    BY <1>6 DEF Beside
  <2>2. CASE Start \/ Ready
    BY <2>1, <2>2, ProcessShown
  <2>3. CASE (\E c \in Contents : External(c)) \/ Refresh \/ ActivateCommand \/ RollbackCommand
    <3>1. LoadedStays
      BY <2>1, <2>3, OthersKeepInv
    <3>2. AttemptShown' = AttemptShown
      BY <2>1, <2>3 DEF AttemptShown, queue, External, Refresh, ActivateCommand, RollbackCommand
    <3>. QED BY <3>1, <3>2, OutsideShown DEF PlaneInv
  <2>. QED BY <1>6, <2>2, <2>3 DEF Beside
<1>. QED BY <1>1, <1>2, <1>3, <1>4, <1>5, <1>6 DEF Next, Job

(* The jobs, whatever happens beside them, keep the promise of an apply.   *)
THEOREM PlaneImplementsSwitchover == Spec => ImplementsSwitchover
<1>1. Init => Shown!Init
  <2>. SUFFICES ASSUME Init PROVE Shown!Init
    OBVIOUS
  <2>1. TypeOK /\ task = NoTasks
    BY PlaneInvInit DEF PlaneInv, Init, RevisionsInit
  <2>2. AttemptShown = Shown!NoAttempt
    BY <2>1, NothingHeldShown
  <2>. QED BY <2>1, <2>2 DEF Init, RevisionsInit, Shown!Init, WhileUp, Up
<1>. QED BY <1>1, PlaneInvInit, PlaneInvStep, StepShown, PTL DEF Spec, ImplementsSwitchover, Shown!Spec

(* A commit that fails takes back the routes of the release that runs, and *)
(* nothing is taken back in a process that does not run.                   *)
Fitting ==
  /\ Shown!RoutesFitRelease
  /\ ~Shown!Runs => AttemptShown = Shown!NoAttempt
  /\ Shown!Runs /\ AttemptShown.step = "undo" => WhileUp(child) = ReleaseOf[AttemptShown.to]

LEMMA FittingStep == Fitting /\ [Shown!Next]_(Shown!vars) => Fitting'
<1>. SUFFICES ASSUME Fitting, [Shown!Next]_(Shown!vars) PROVE Fitting'
  OBVIOUS
<1>. USE DEF Fitting, Shown!RoutesFitRelease, Shown!Runs, Shown!NoAttempt
<1>1. CASE Shown!Outside \/ UNCHANGED Shown!vars
  BY <1>1 DEF Shown!Outside, Shown!vars, Shown!serving
<1>2. CASE Shown!Boot
  BY <1>2 DEF Shown!Boot
<1>3. CASE Shown!Die
  BY <1>3 DEF Shown!Die
<1>4. ASSUME NEW to \in Contents, Shown!ReloadAtOnce(to) PROVE Fitting'
  BY <1>4 DEF Shown!ReloadAtOnce, Shown!Loads
<1>5. ASSUME NEW to \in Contents, NEW back \in Shown!Backs,
             \/ Shown!Begin(to, back) \/ Shown!Succeed(to, back) \/ Shown!Fail(to, back)
             \/ Shown!CommitFails(to, back) \/ Shown!TakenBack(to, back) \/ Shown!Strand(to, back)
      PROVE Fitting'
  <2>. USE DEF Shown!Apply, Shown!TakeBack, Shown!Ended, Shown!serving
  <2>1. CASE Shown!Begin(to, back)
    BY <2>1 DEF Shown!Begin
  <2>2. CASE Shown!Succeed(to, back)
    BY <2>2 DEF Shown!Succeed, Shown!Loads
  <2>3. CASE Shown!Fail(to, back)
    BY <2>3 DEF Shown!Fail
  <2>4. CASE Shown!CommitFails(to, back)
    BY <2>4 DEF Shown!CommitFails
  <2>5. CASE Shown!TakenBack(to, back)
    BY <2>5 DEF Shown!TakenBack
  <2>6. CASE Shown!Strand(to, back)
    BY <2>6 DEF Shown!Strand
  <2>. QED BY <1>5, <2>1, <2>2, <2>3, <2>4, <2>5, <2>6
<1>. QED BY <1>1, <1>2, <1>3, <1>4, <1>5 DEF Shown!Next

(* So requests are routed for the release whose children are supervised,   *)
(* except while a failed commit is taken back -- also when files were      *)
(* edited by hand while they were applied.                                 *)
THEOREM RoutesStayFitting == Spec => []Shown!RoutesFitRelease
<1>1. Shown!Init => Fitting
  BY DEF Shown!Init, Fitting, Shown!RoutesFitRelease, Shown!Runs, Shown!NoAttempt
<1>2. Fitting => Shown!RoutesFitRelease
  BY DEF Fitting
<1>. QED BY <1>1, <1>2, FittingStep, PlaneImplementsSwitchover, PTL DEF ImplementsSwitchover, Shown!Spec
=============================================================================
