------------------------ MODULE RuntimeApplyProofs ------------------------
(***************************************************************************)
(* What holds of RuntimeApply for every set of channels, configurations    *)
(* and releases: the switch of the children is quiet, exclusive and leaves *)
(* one configuration served.                                               *)
(***************************************************************************)
EXTENDS RuntimeApply, FiniteSetTheorems, TLAPS

(* While a job switches: it left the parent's markers alone, its target is *)
(* on disk, and until it has begun to undo a commit nothing was admitted   *)
(* and the routes are the old ones.                                        *)
Switching ==
  ~NoJobRuns =>
    /\ applied = job.previous /\ loaded = job.previous
    /\ disk = job.next
    /\ life # "down"
    /\ job.step \in {"draining", "stopping", "starting"} =>
         draining = Channels /\ link = ReleaseOf[job.previous]
    /\ job.step \in {"stopping", "starting"} => busy = {}
    /\ job.step = "draining" /\ life = "up" =>
         router = applied /\ active = ReleaseOf[applied] /\ up = {active}

(* Which children run at each step.                                        *)
Running ==
  /\ job.step \in {"draining", "stopping"} => up \subseteq {ReleaseOf[job.previous]}
  /\ job.step = "undoing" => up \subseteq {ReleaseOf[job.next]}
  /\ job.step \in {"starting", "restarting"} => up = {}
  /\ job.step = "idle" => \E r \in Releases : up \subseteq {r}
  /\ life = "down" => up = {} /\ NoJobRuns /\ busy = {} /\ draining = {}

SwitchInv == TypeOK /\ Switching /\ Running /\ OneConfigurationServed

-----------------------------------------------------------------------------
LEMMA InvInit == Init => SwitchInv
BY RuntimeAssumption
DEF Init, SwitchInv, TypeOK, Switching, Running, OneConfigurationServed, NoJob, NoJobRuns,
    Answers, RuntimeAssumption

(* Traffic, edits and the life of the process.                             *)
LEMMA SurroundingsKeepInv ==
  ASSUME SwitchInv,
         \/ \E c \in Channels : Admit(c) \/ StartTest(c) \/ Complete(c)
         \/ \E c \in Channels, next \in Configs : UpdateChannel(c, next)
         \/ \E next \in Configs : EditRoutes(next)
         \/ Life
  PROVE  SwitchInv'
<1>. USE RuntimeAssumption DEF RuntimeAssumption, SwitchInv, Steps, Jobs, Answers, NoJob,
         NoJobRuns, files, parent
<1>1. ASSUME NEW c \in Channels, Admit(c) \/ StartTest(c) \/ Complete(c)
      PROVE  SwitchInv'
  <2>1. TypeOK'
    BY <1>1 DEF TypeOK, Admit, StartTest, Complete
  <2>2. Switching'
    BY <1>1 DEF TypeOK, Switching, Admit, StartTest, Complete
  <2>3. Running'
    BY <1>1 DEF Running, Admit, StartTest, Complete
  <2>4. OneConfigurationServed'
    BY <1>1 DEF OneConfigurationServed, Admit, StartTest, Complete
  <2>. QED BY <2>1, <2>2, <2>3, <2>4
<1>2. ASSUME NEW next \in Configs,
             EditRoutes(next) \/ \E c \in Channels : UpdateChannel(c, next)
      PROVE  SwitchInv'
  <2>1. TypeOK'
    BY <1>2 DEF TypeOK, EditRoutes, UpdateChannel
  <2>2. Switching'
    BY <1>2 DEF Switching, EditRoutes, UpdateChannel
  <2>3. Running'
    BY <1>2 DEF Running, EditRoutes, UpdateChannel
  <2>4. OneConfigurationServed'
    BY <1>2 DEF OneConfigurationServed, EditRoutes, UpdateChannel
  <2>. QED BY <2>1, <2>2, <2>3, <2>4
<1>3. ASSUME BeginShutdown \/ ClientGone \/ StopRuntime
      PROVE  SwitchInv'
  <2>1. TypeOK'
    BY <1>3 DEF TypeOK, BeginShutdown, ClientGone, StopRuntime
  <2>2. /\ job'.step = job.step
        /\ ~NoJobRuns => job'.next = job.next /\ job'.previous = job.previous
        /\ life' # "up" \/ life' = life
        /\ life' # "down" \/ life' = life
    BY <1>3 DEF TypeOK, BeginShutdown, ClientGone, StopRuntime
  <2>3. Switching'
    BY <1>3, <2>2 DEF Switching, BeginShutdown, ClientGone, StopRuntime
  <2>4. Running'
    BY <1>3, <2>2 DEF Running, BeginShutdown, ClientGone, StopRuntime
  <2>5. OneConfigurationServed'
    BY <1>3, <2>2 DEF OneConfigurationServed, BeginShutdown, ClientGone, StopRuntime
  <2>. QED BY <2>1, <2>3, <2>4, <2>5
<1>4. CASE Gone
  BY <1>4 DEF Gone, TypeOK, Switching, Running, OneConfigurationServed
<1>5. CASE Boot
  BY <1>5 DEF Boot, TypeOK, Switching, Running, OneConfigurationServed
<1>6. CASE BootFails
  BY <1>6 DEF BootFails, TypeOK, Switching, Running, OneConfigurationServed
<1>. QED BY <1>1, <1>2, <1>3, <1>4, <1>5, <1>6 DEF Life

(* The steps that begin a switch, or load routes without one.              *)
LEMMA StartKeepsInv ==
  ASSUME SwitchInv, Apply \/ \E next \in Configs : RollBack(next)
  PROVE  SwitchInv'
<1>. USE RuntimeAssumption DEF RuntimeAssumption, SwitchInv, Steps, Jobs, Answers, NoJob,
         NoJobRuns, files, parent
<1>1. ASSUME NEW kind \in {"apply", "rollback"}, NEW next \in Configs, StartSwitch(kind, next)
      PROVE  SwitchInv'
  <2>1. TypeOK'
    BY <1>1 DEF TypeOK, StartSwitch
  <2>2. Switching'
    BY <1>1 DEF Switching, OneConfigurationServed, StartSwitch
  <2>3. Running'
    BY <1>1 DEF Running, OneConfigurationServed, StartSwitch
  <2>4. OneConfigurationServed'
    BY <1>1 DEF OneConfigurationServed, StartSwitch
  <2>. QED BY <2>1, <2>2, <2>3, <2>4
<1>2. ASSUME NEW next \in Configs, ApplyUnchanged(next)
      PROVE  SwitchInv'
  BY <1>2 DEF ApplyUnchanged, Reload, TypeOK, Switching, Running, OneConfigurationServed
<1>3. ASSUME NEW kind \in {"apply", "rollback"}, NEW next \in Configs, FailAtOnce(kind, next)
      PROVE  SwitchInv'
  BY <1>3 DEF FailAtOnce, LeaveFiles, Answers, Reload, TypeOK, Switching, Running,
              OneConfigurationServed
<1>4. disk \in Configs
  BY DEF TypeOK
<1>. QED BY <1>1, <1>2, <1>3, <1>4 DEF Apply, RollBack, Try

(* The steps of the switch itself.                                         *)
LEMMA SwitchKeepsInv ==
  ASSUME SwitchInv, Switch
  PROVE  SwitchInv'
<1>. USE RuntimeAssumption DEF RuntimeAssumption, SwitchInv, Steps, Jobs, Answers, NoJob,
         NoJobRuns, files, parent
<1>0. /\ ~NoJobRuns
      /\ job \in Jobs
  BY DEF Switch, DrainTimeout, Drained, Stopped, Started, CommitFails, NotReady, Undone,
         Restored, RestoreFails, NotRestarted, TypeOK
<1>1. CASE DrainTimeout
  BY <1>0, <1>1 DEF DrainTimeout, Fail, LeaveFiles, TypeOK, Switching, Running, OneConfigurationServed
<1>2. CASE Drained
  BY <1>0, <1>2 DEF Drained, Goto, TypeOK, Switching, Running, OneConfigurationServed
<1>3. CASE Stopped
  BY <1>0, <1>3 DEF Stopped, Goto, TypeOK, Switching, Running, OneConfigurationServed
<1>4. CASE Started
  BY <1>0, <1>4 DEF Started, Reload, TypeOK, Switching, Running, OneConfigurationServed
<1>5. CASE CommitFails
  BY <1>0, <1>5 DEF CommitFails, Reload, Goto, TypeOK, Switching, Running, OneConfigurationServed
<1>6. CASE NotReady
  BY <1>0, <1>6 DEF NotReady, Goto, TypeOK, Switching, Running, OneConfigurationServed
<1>7. CASE Undone
  BY <1>0, <1>7 DEF Undone, Goto, TypeOK, Switching, Running, OneConfigurationServed
<1>8. CASE Restored
  BY <1>0, <1>8 DEF Restored, Fail, LeaveFiles, TypeOK, Switching, Running, OneConfigurationServed
<1>9. CASE RestoreFails
  BY <1>0, <1>9 DEF RestoreFails, Fail, LeaveFiles, TypeOK, Switching, Running, OneConfigurationServed
<1>10. CASE NotRestarted
  BY <1>0, <1>10 DEF NotRestarted, Fail, LeaveFiles, TypeOK, Switching, Running, OneConfigurationServed
<1>. QED BY <1>1, <1>2, <1>3, <1>4, <1>5, <1>6, <1>7, <1>8, <1>9, <1>10 DEF Switch

LEMMA InvStep == SwitchInv /\ [Next]_vars => SwitchInv'
<1>. SUFFICES ASSUME SwitchInv, [Next]_vars PROVE SwitchInv'
  OBVIOUS
<1>1. CASE Next
  BY <1>1, SurroundingsKeepInv, StartKeepsInv, SwitchKeepsInv DEF Next
<1>2. CASE UNCHANGED vars
  BY <1>2 DEF vars, files, parent, SwitchInv, TypeOK, Switching, Running,
              OneConfigurationServed, NoJobRuns
<1>. QED BY <1>1, <1>2

LEMMA InvHolds == Spec => []SwitchInv
BY InvInit, InvStep, PTL DEF Spec

(* Types of a switch: a job is at one of its steps, with a target, and only *)
(* releases of known configurations ever run.                              *)
THEOREM RuntimeTyped == Spec => []TypeOK
<1>1. SwitchInv => TypeOK
  BY DEF SwitchInv
<1>. QED BY <1>1, InvHolds, PTL

(* One configuration is served whenever no apply runs.                     *)
THEOREM ConsistentRuntime == Spec => []OneConfigurationServed
<1>1. SwitchInv => OneConfigurationServed
  BY DEF SwitchInv
<1>. QED BY <1>1, InvHolds, PTL

(* The children are never exchanged under a request or a test.             *)
THEOREM QuietExchange == Spec => []QuietSwitch
<1>1. SwitchInv => QuietSwitch
  BY DEF SwitchInv, Switching, QuietSwitch, NoJobRuns
<1>. QED BY <1>1, InvHolds, PTL

(* Two releases never run at once.                                         *)
THEOREM ExclusiveRelease == Spec => []OneReleaseRuns
<1>1. ASSUME SwitchInv PROVE \E r : up \subseteq {r}
  <2>1. job \in Jobs \cup {NoJob}
    BY <1>1 DEF SwitchInv, TypeOK
  <2>2. job.step \in Steps
    BY <2>1 DEF Jobs, NoJob, Steps
  <2>. QED BY <1>1, <2>2 DEF SwitchInv, Running, Steps
<1>2. ASSUME NEW r, up \subseteq {r} PROVE OneReleaseRuns
  <2>1. IsFiniteSet({r}) /\ Cardinality({r}) = 1
    BY FS_Singleton
  <2>2. Cardinality(up) <= 1
    BY <1>2, <2>1, FS_Subset
  <2>. QED BY <2>2 DEF OneReleaseRuns
<1>3. SwitchInv => OneReleaseRuns
  BY <1>1, <1>2
<1>. QED BY <1>3, InvHolds, PTL

(* Every job that exchanged children, or tried to, answers what became of  *)
(* the files and of what is loaded: only rollback_restore_failed leaves a  *)
(* rollback's target on disk that is not loaded.                           *)
THEOREM AnswersAreTrue == Spec => AnswersTruly
<1>. DEFINE Done ==
              /\ answer' = "done"
              /\ disk' = job.next /\ loaded' = job.next /\ router' = job.next
              /\ link' = ReleaseOf[job.next] /\ up' = {link'}
            Failed ==
              /\ answer' = "failed" /\ loaded' = job.previous
              /\ disk' = IF job.kind = "rollback" THEN job.before ELSE job.next
            Unrestored ==
              /\ answer' = "rollback_restore_failed" /\ job.kind = "rollback"
              /\ loaded' = job.previous /\ disk' = job.next
<1>1. ASSUME SwitchInv, [Next]_vars, ~NoJobRuns, job'.step = "idle", life' # "down"
      PROVE  Done \/ Failed \/ Unrestored
  <2>1. job \in Jobs /\ loaded = job.previous /\ disk = job.next
    BY <1>1 DEF SwitchInv, TypeOK, Switching, NoJob, NoJobRuns
  <2>2. Started \/ (Fail /\ loaded' = loaded)
    BY <1>1, <2>1 DEF Next, vars, files, parent, Admit, StartTest, Complete, UpdateChannel,
       EditRoutes, RollBack, Apply, Try, StartSwitch, ApplyUnchanged, FailAtOnce, Switch,
       DrainTimeout, Drained, Stopped, Started, CommitFails, NotReady, Undone, Restored,
       RestoreFails, NotRestarted, Life, BeginShutdown, ClientGone, StopRuntime, Gone, Boot,
       BootFails, NoJobRuns, Goto, Jobs
  <2>3. CASE Started
    <3>1. up = {}
      BY <1>1, <2>3 DEF SwitchInv, Running, Started
    <3>. QED BY <2>1, <2>3, <3>1 DEF Started, Reload
  <2>4. CASE Fail /\ loaded' = loaded
    BY <2>1, <2>4 DEF Fail, LeaveFiles
  <2>. QED BY <2>2, <2>3, <2>4
<1>2. SwitchInv /\ [Next]_vars =>
        (~NoJobRuns /\ job'.step = "idle" /\ life' # "down" => Done \/ Failed \/ Unrestored)
  BY <1>1
<1>. QED BY <1>2, InvHolds, PTL DEF Spec, AnswersTruly

-----------------------------------------------------------------------------
(* A switch keeps what Switchover promises.                                *)

(* Between the start of a job and its end the routes say how far it came.  *)
Midway ==
  ~NoJobRuns =>
    /\ ReleaseOf[job.next] # ReleaseOf[job.previous]
    /\ job.step \in {"draining", "stopping", "starting"} => router = job.previous
    /\ job.step = "undoing" => router = job.next
    /\ job.step = "restarting" => router \in {job.previous, job.next}
    /\ job.step = "draining" /\ On => active = ReleaseOf[job.previous]

ViewInv == SwitchInv /\ Midway

LEMMA MidwayStep == ViewInv /\ [Next]_vars => Midway'
<1>. SUFFICES ASSUME ViewInv, [Next]_vars PROVE Midway'
  OBVIOUS
<1>. USE DEF ViewInv, NoJobRuns, NoJob, On, files, parent
<1>1. CASE UNCHANGED vars
  BY <1>1 DEF vars, Midway
<1>2. ASSUME NEW c \in Channels, Admit(c) \/ StartTest(c) \/ Complete(c) PROVE Midway'
  BY <1>2 DEF Admit, StartTest, Complete, Midway
<1>3. ASSUME NEW next \in Configs, EditRoutes(next) \/ \E c \in Channels : UpdateChannel(c, next)
      PROVE  Midway'
  BY <1>3 DEF EditRoutes, UpdateChannel, Midway
<1>4. ASSUME NEW kind, NEW next \in Configs, StartSwitch(kind, next) PROVE Midway'
  BY <1>4 DEF StartSwitch, SwitchInv, OneConfigurationServed, Midway
<1>5. ASSUME NEW kind, NEW next \in Configs, ApplyUnchanged(next) \/ FailAtOnce(kind, next)
      PROVE  Midway'
  BY <1>5 DEF ApplyUnchanged, FailAtOnce, Midway
<1>6. CASE Switch
  <2>1. job \in Jobs /\ ~NoJobRuns
    BY <1>6 DEF Switch, DrainTimeout, Drained, Stopped, Started, CommitFails, NotReady, Undone,
         Restored, RestoreFails, NotRestarted, SwitchInv, TypeOK
  <2>2. CASE DrainTimeout \/ Started \/ Restored \/ RestoreFails \/ NotRestarted
    BY <2>2 DEF DrainTimeout, Started, Restored, RestoreFails, NotRestarted, Fail, Midway
  <2>3. CASE Drained \/ Stopped \/ NotReady \/ Undone
    BY <2>1, <2>3 DEF Drained, Stopped, NotReady, Undone, Goto, Jobs, Midway
  <2>4. CASE CommitFails
    BY <2>1, <2>4 DEF CommitFails, Reload, Goto, Jobs, Midway, SwitchInv, Switching
  <2>. QED BY <1>6, <2>2, <2>3, <2>4 DEF Switch
<1>7. CASE BeginShutdown \/ ClientGone \/ StopRuntime
  BY <1>7 DEF BeginShutdown, ClientGone, StopRuntime, Midway, SwitchInv, TypeOK, Jobs
<1>8. CASE Gone \/ Boot \/ BootFails
  BY <1>8 DEF Gone, Boot, BootFails, Midway, SwitchInv, Running
<1>9. disk \in Configs
  BY DEF SwitchInv, TypeOK
<1>. QED BY <1>1, <1>2, <1>3, <1>4, <1>5, <1>6, <1>7, <1>8, <1>9 DEF Next, Life, Apply, RollBack, Try

(* Traffic, edits and the life of the process.                             *)
LEMMA SurroundingsShown ==
  ASSUME ViewInv, ViewInv',
         \/ UNCHANGED vars
         \/ \E c \in Channels : Admit(c) \/ StartTest(c) \/ Complete(c)
         \/ \E c \in Channels, next \in Configs : UpdateChannel(c, next)
         \/ \E next \in Configs : EditRoutes(next)
         \/ Life
  PROVE  [Shown!Next]_(Shown!vars)
<1>. USE DEF On, WhileOn, ReleaseShown, AttemptShown, Back, NoJobRuns, files, parent,
             Shown!vars, Shown!serving
<1>0. TypeOK /\ TypeOK'
  BY DEF ViewInv, SwitchInv
<1>1. CASE \/ UNCHANGED vars
           \/ \E c \in Channels : Admit(c) \/ StartTest(c) \/ Complete(c)
  BY <1>1 DEF vars, Admit, StartTest, Complete
<1>2. ASSUME NEW next \in Configs, EditRoutes(next) \/ \E c \in Channels : UpdateChannel(c, next)
      PROVE  Shown!Outside
  BY <1>0, <1>2 DEF EditRoutes, UpdateChannel, Shown!Outside, TypeOK
<1>3. CASE BeginShutdown \/ ClientGone
  BY <1>0, <1>3 DEF BeginShutdown, ClientGone, TypeOK, Jobs, NoJob
<1>4. CASE StopRuntime \/ Gone
  BY <1>4 DEF StopRuntime, Gone, Shown!Die, Shown!NoAttempt, Shown!Next
<1>5. CASE Boot
  <2>1. Shown!Boot
    BY <1>0, <1>5, RuntimeAssumption
    DEF Boot, ViewInv, SwitchInv, Running, TypeOK, RuntimeAssumption, Shown!Boot, Shown!Runs
  <2>. QED BY <2>1 DEF Shown!Next
<1>6. CASE BootFails
  BY <1>0, <1>6 DEF BootFails, TypeOK, Shown!Outside, Shown!Next
<1>. QED BY <1>1, <1>2, <1>3, <1>4, <1>5, <1>6 DEF Life, Shown!Next

(* The steps that begin a switch, or load routes without one.              *)
LEMMA StartShown ==
  ASSUME ViewInv, ViewInv', Apply \/ \E next \in Configs : RollBack(next)
  PROVE  [Shown!Next]_(Shown!vars)
<1>. USE DEF On, WhileOn, ReleaseShown, AttemptShown, Back, NoJobRuns, files, parent,
             Shown!vars, Shown!serving
<1>0. TypeOK /\ TypeOK' /\ OneConfigurationServed
  BY DEF ViewInv, SwitchInv
<1>1. ASSUME NEW kind \in {"apply", "rollback"}, NEW next \in Configs, StartSwitch(kind, next),
             kind = "apply" => next = disk
      PROVE  Shown!Begin(next, IF kind = "apply" THEN None ELSE disk)
  <2>1. /\ ReleaseOf[applied] = active /\ router = applied /\ next # router
        /\ life = "up" /\ life' = "up" /\ NoJobRuns /\ ~NoJobRuns'
    BY <1>0, <1>1 DEF StartSwitch, OneConfigurationServed
  <2>2. /\ job'.kind = kind /\ job'.next = next /\ job'.previous = applied /\ job'.before = disk
        /\ disk' = next /\ UNCHANGED <<link, router, loaded>>
    BY <1>1 DEF StartSwitch
  <2>3. loaded # None /\ disk # None
    BY <1>0, RuntimeAssumption DEF RuntimeAssumption, TypeOK
  <2>. QED BY <1>1, <2>1, <2>2, <2>3 DEF Shown!Begin, Shown!Runs, Shown!NoAttempt, Shown!Apply
<1>2. ASSUME NEW next \in Configs, ApplyUnchanged(next) PROVE Shown!ReloadAtOnce(next)
  BY <1>0, <1>2, RuntimeAssumption
  DEF RuntimeAssumption, ApplyUnchanged, Reload, TypeOK, Shown!ReloadAtOnce, Shown!Runs,
      Shown!NoAttempt, Shown!Loads
<1>3. ASSUME NEW kind, NEW next \in Configs, FailAtOnce(kind, next) PROVE Shown!Outside
  <2>1. router' = router
    BY <1>0, <1>3, RuntimeAssumption
    DEF RuntimeAssumption, FailAtOnce, Reload, OneConfigurationServed, TypeOK
  <2>. QED BY <1>0, <1>3, <2>1 DEF FailAtOnce, TypeOK, Shown!Outside
<1>4. disk \in Configs /\ None \in Shown!Backs /\ disk \in Shown!Backs
  BY <1>0 DEF TypeOK, Shown!Backs
<1>. QED BY <1>1, <1>2, <1>3, <1>4 DEF Apply, RollBack, Try, Shown!Next

(* The steps of the switch.  Those of a process that has stopped its       *)
(* children are edits of the files for whoever starts it again.            *)
LEMMA SwitchShown ==
  ASSUME ViewInv, ViewInv', Switch
  PROVE  [Shown!Next]_(Shown!vars)
<1>. USE DEF On, WhileOn, ReleaseShown, AttemptShown, Back, NoJobRuns, files, parent,
             Shown!vars, Shown!serving
<1>0. /\ TypeOK /\ TypeOK' /\ job \in Jobs /\ ~NoJobRuns /\ life' = life
      /\ loaded = job.previous /\ disk = job.next
  <2>1. ~NoJobRuns /\ life' = life
    BY DEF Switch, DrainTimeout, Drained, Stopped, Started, CommitFails, NotReady, Undone, Restored,
           RestoreFails, NotRestarted
  <2>2. TypeOK /\ TypeOK' /\ Switching
    BY DEF ViewInv, SwitchInv
  <2>. QED BY <2>1, <2>2 DEF TypeOK, Switching, NoJob
<1>1. CASE ~On
  <2>1. Shown!Outside
    BY <1>0, <1>1 DEF TypeOK, Shown!Outside
  <2>. QED BY <2>1 DEF Shown!Next
<1>2. CASE On
  <2>. DEFINE back == IF job.kind = "rollback" THEN job.before ELSE None
  <2>0. /\ back \in Shown!Backs /\ job.next \in Configs /\ job.previous \in Configs
        /\ ReleaseOf[job.previous] \in Releases
        /\ ReleaseOf[job.previous] # None
        /\ job.next # job.previous /\ ReleaseOf[job.next] # ReleaseOf[job.previous]
        /\ job.kind = "rollback" => back = job.before /\ back # None
    BY <1>0, RuntimeAssumption DEF RuntimeAssumption, Jobs, Shown!Backs, ViewInv, Midway
  <2>1. CASE Drained \/ Stopped \/ NotReady \/ Undone
    BY <1>0, <1>2, <2>1 DEF Drained, Stopped, NotReady, Undone, Goto, Jobs
  <2>2. CASE DrainTimeout
    <3>1. Shown!Fail(job.next, back)
      BY <1>0, <1>2, <2>0, <2>2 DEF DrainTimeout, Fail, LeaveFiles, NoJob, ViewInv, Midway,
         Shown!Fail, Shown!Apply, Shown!Relinked, Shown!Ended, Shown!NoAttempt
    <3>. QED BY <2>0, <3>1 DEF Shown!Next
  <2>3. CASE Started
    <3>1. Shown!Succeed(job.next, back)
      BY <1>0, <1>2, <2>0, <2>3 DEF Started, Reload, NoJob, ViewInv, Midway,
         Shown!Succeed, Shown!Apply, Shown!Loads, Shown!NoAttempt
    <3>. QED BY <2>0, <3>1 DEF Shown!Next
  <2>4. CASE CommitFails
    <3>0. busy = {} /\ router = job.previous
      BY <1>0, <2>4 DEF CommitFails, ViewInv, SwitchInv, Switching, Midway
    <3>1. Shown!CommitFails(job.next, back)
      BY <1>0, <1>2, <2>0, <2>4, <3>0 DEF CommitFails, Reload, Goto, Jobs,
         Shown!CommitFails, Shown!Apply, Shown!TakeBack
    <3>. QED BY <2>0, <3>1 DEF Shown!Next
  <2>5. CASE (Restored \/ RestoreFails \/ NotRestarted) /\ router # job.next
    <3>1. Shown!Fail(job.next, back)
      BY <1>0, <1>2, <2>0, <2>5 DEF Restored, RestoreFails, NotRestarted, Fail, LeaveFiles, NoJob, ViewInv, Midway,
         Shown!Fail, Shown!Apply, Shown!Relinked, Shown!Ended, Shown!NoAttempt
    <3>. QED BY <2>0, <3>1 DEF Shown!Next
  <2>6. CASE Restored /\ router = job.next
    <3>1. Shown!TakenBack(job.previous, back)
      BY <1>0, <1>2, <2>0, <2>6 DEF Restored, Fail, LeaveFiles, NoJob,
         Shown!TakenBack, Shown!TakeBack, Shown!Ended, Shown!NoAttempt
    <3>. QED BY <2>0, <3>1 DEF Shown!Next
  <2>7. CASE (RestoreFails \/ NotRestarted) /\ router = job.next
    <3>1. Shown!Strand(job.previous, back)
      BY <1>0, <1>2, <2>0, <2>7 DEF RestoreFails, NotRestarted, Fail, LeaveFiles, NoJob,
         Shown!Strand, Shown!TakeBack, Shown!Relinked, Shown!Ended, Shown!NoAttempt
    <3>. QED BY <2>0, <3>1 DEF Shown!Next
  <2>. QED BY <2>1, <2>2, <2>3, <2>4, <2>5, <2>6, <2>7 DEF Switch
<1>. QED BY <1>1, <1>2

(* However the children are exchanged, an apply does what it promises.     *)
THEOREM RuntimeImplementsSwitchover == Spec => ImplementsSwitchover
<1>1. Init => ViewInv /\ Shown!Init
  <2>. SUFFICES ASSUME Init PROVE ViewInv /\ Shown!Init
    OBVIOUS
  <2>1. ViewInv
    BY InvInit DEF Init, ViewInv, Midway, NoJob, NoJobRuns
  <2>. QED BY <2>1 DEF Init, Shown!Init, Shown!NoAttempt, On, WhileOn, ReleaseShown, AttemptShown,
                       NoJob, NoJobRuns, ViewInv, SwitchInv, TypeOK
<1>2. ViewInv /\ [Next]_vars => ViewInv'
  BY InvStep, MidwayStep DEF ViewInv
<1>3. ViewInv /\ ViewInv' /\ [Next]_vars => [Shown!Next]_(Shown!vars)
  BY SurroundingsShown, StartShown, SwitchShown DEF Next
<1>. QED BY <1>1, <1>2, <1>3, PTL DEF Spec, ImplementsSwitchover, Shown!Spec
=============================================================================
