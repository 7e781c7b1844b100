---------------------------- MODULE RuntimeApply ----------------------------
(***************************************************************************)
(* Applying a private configuration to the running gateway:                *)
(* src/runtime-children.mjs (the supervised CPA and HAProxy processes) and *)
(* src/runtime-manager.mjs (drain, switch, commit, roll back), driven by   *)
(* the control jobs of src/control-gateway.mjs and by the life of the      *)
(* process in scripts/gateway.mjs.                                         *)
(*                                                                         *)
(* An action is the code between two awaits that wait for something        *)
(* outside the process.  The job queue runs one job at a time, so a job    *)
(* starts only when no other is under way.  Any file operation of a commit *)
(* may fail; any release may miss its readiness deadline.                  *)
(***************************************************************************)
EXTENDS Naturals, FiniteSets

CONSTANTS
  Channels,    (* physical channels; an exchange holds the lease of one    *)
  Configs,     (* valid private configurations                             *)
  Releases,    (* digests of generated releases                            *)
  ReleaseOf,   (* the release a configuration generates                    *)
  EnabledIn,   (* the channels a configuration lets production use         *)
  None         (* no supervised release, no configuration                  *)

ASSUME RuntimeAssumption ==
  /\ ReleaseOf \in [Configs -> Releases]
  /\ EnabledIn \in [Configs -> SUBSET Channels]
  /\ None \notin Releases \cup Configs

VARIABLES
  disk,      \* the private configuration files
  link,      \* active in runtime/active.json
  life,      \* of the gateway process
  router,    \* the configuration the parent routes with
  applied,   \* appliedGenerated
  loaded,    \* loadedRevision of the configuration manager
  active,    \* the release runtime-children supervises
  up,        \* releases whose child processes run
  draining,  \* drainingChannels
  busy,      \* channels whose lease is held
  job,       \* the control job that applies a configuration
  answer     \* what the last such job ended with

files  == <<disk, link>>
parent == <<router, applied, loaded>>
vars == <<files, life, parent, active, up, draining, busy, job, answer>>

Steps == {"idle", "draining", "stopping", "starting", "undoing", "restarting"}
Jobs == [step : Steps \ {"idle"}, kind : {"apply", "rollback"},
         next : Configs, previous : Configs, before : Configs, client : BOOLEAN]
NoJob == [step |-> "idle"]
Answers == {"none", "done", "failed", "rollback_restore_failed"}
NoJobRuns == job.step = "idle"
Goto(step) == job' = [job EXCEPT !.step = step] /\ UNCHANGED answer

-----------------------------------------------------------------------------
(* Traffic.                                                                *)

(* Mutant: draining does not stop new reservations.                        *)
AdmitWhileDraining(c) ==
  /\ life = "up"
  /\ c \in EnabledIn[router] \ busy
  /\ busy' = busy \cup {c}
  /\ UNCHANGED <<files, life, parent, active, up, draining, job, answer>>

Admit(c) ==
  /\ life = "up"
  /\ c \in EnabledIn[router] \ busy
  /\ c \notin draining
  /\ busy' = busy \cup {c}
  /\ UNCHANGED <<files, life, parent, active, up, draining, job, answer>>

(* A manual test also reaches staged channels, unless an edit is pending.  *)
StartTest(c) ==
  /\ life = "up" /\ disk = loaded
  /\ c \in Channels \ (busy \cup draining)
  /\ busy' = busy \cup {c}
  /\ UNCHANGED <<files, life, parent, active, up, draining, job, answer>>

Complete(c) ==
  /\ c \in busy
  /\ busy' = busy \ {c}
  /\ UNCHANGED <<files, life, parent, active, up, draining, job, answer>>

-----------------------------------------------------------------------------
(* Jobs that edit the private configuration and leave the runtime alone.   *)

(* channel-update and channel-delete: a channel taken out of production is *)
(* drained at once, one put back is resumed.                               *)
UpdateChannel(c, next) ==
  /\ life = "up" /\ NoJobRuns
  /\ disk' = next
  /\ \/ EnabledIn[next] = EnabledIn[disk] \ {c} /\ draining' = draining \cup {c}
     \/ EnabledIn[next] = EnabledIn[disk] \cup {c} /\ draining' = draining \ {c}
  /\ UNCHANGED <<link, life, parent, active, up, busy, job, answer>>

(* Every other edit: aliases, logical models, priorities, clients.         *)
EditRoutes(next) ==
  /\ life = "up" /\ NoJobRuns
  /\ next # disk /\ EnabledIn[next] = EnabledIn[disk]
  /\ disk' = next
  /\ UNCHANGED <<link, life, parent, active, up, draining, busy, job, answer>>

-----------------------------------------------------------------------------
(* reloadConfig refuses while a lease is held; it clears every drain.      *)
Reload(next) ==
  /\ router' = next
  /\ draining' = {}

(* Mutant: a failed rollback job keeps its target on disk.                 *)
FailKeepingTarget ==
  /\ job' = NoJob
  /\ disk' = disk /\ answer' = "failed"
  /\ draining' = {}

(* How a failed job leaves the files.  A rollback job puts back what it    *)
(* found; when that fails as well it keeps its target, and says so.        *)
LeaveFiles(kind, target, before) ==
  \/ kind = "apply" /\ disk' = target /\ answer' = "failed"
  \/ kind = "rollback" /\ disk' = before /\ answer' = "failed"
  \/ kind = "rollback" /\ disk' = target /\ answer' = "rollback_restore_failed"

(* Mutant: the drain is not lifted when an apply fails.                    *)
FailDraining ==
  /\ job' = NoJob
  /\ LeaveFiles(job.kind, job.next, job.before)
  /\ draining' = draining

(* A failed apply: `finally' resumes every channel.                        *)
Fail ==
  /\ job' = NoJob
  /\ LeaveFiles(job.kind, job.next, job.before)
  /\ draining' = {}

(* The first step of both jobs: the release is generated from what is on   *)
(* disk, which a rollback job has just replaced.                           *)
StartSwitch(kind, next) ==
  /\ life = "up" /\ NoJobRuns
  /\ active \notin {None, ReleaseOf[next]}
  /\ disk' = next
  /\ draining' = Channels
  /\ job' = [step |-> "draining", kind |-> kind, next |-> next,
             previous |-> applied, before |-> disk, client |-> TRUE]
  /\ answer' = "none"
  /\ UNCHANGED <<link, life, parent, active, up, busy>>

(* The release is the one that runs: only the parent's routes are loaded.  *)
ApplyUnchanged(next) ==
  /\ life = "up" /\ NoJobRuns
  /\ active = ReleaseOf[next]
  /\ busy = {}
  /\ disk' = next
  /\ Reload(next)
  /\ applied' = next /\ loaded' = next
  /\ answer' = "done"
  /\ UNCHANGED <<link, life, active, up, busy, job>>

(* A job that fails before it drains anything: no release is supervised or *)
(* generated, or a lease is held, and nothing is loaded; or the running    *)
(* release is kept, cannot be marked as applied, and is routed to again.   *)
FailAtOnce(kind, next) ==
  /\ life = "up" /\ NoJobRuns
  /\ LeaveFiles(kind, next, disk)
  /\ \/ UNCHANGED <<router, draining>>
     \/ busy = {} /\ active = ReleaseOf[next] /\ Reload(applied)
  /\ UNCHANGED <<link, life, applied, loaded, active, up, busy, job>>

Try(kind, next) ==
  StartSwitch(kind, next) \/ ApplyUnchanged(next) \/ FailAtOnce(kind, next)

Apply == Try("apply", disk)

(* prepareRollback writes the target revision to disk first.               *)
RollBack(target) == target # disk /\ Try("rollback", target)

-----------------------------------------------------------------------------
(* replace(): the switch and the way back.                                 *)

DrainTimeout ==
  /\ job.step = "draining" /\ busy # {}
  /\ Fail
  /\ UNCHANGED <<link, life, parent, active, up, busy>>

Drained ==
  /\ job.step = "draining" /\ busy = {}
  /\ Goto("stopping")
  /\ UNCHANGED <<files, life, parent, active, up, draining, busy>>

Stopped ==
  /\ job.step = "stopping"
  /\ up' = up \ {ReleaseOf[job.previous]}
  /\ active' = None
  /\ Goto("starting")
  /\ UNCHANGED <<files, life, parent, draining, busy>>

(* Readiness, then commit: reload the routes, activate, mark as applied.   *)
Started ==
  /\ job.step = "starting" /\ busy = {}
  /\ up' = up \cup {ReleaseOf[job.next]}
  /\ active' = ReleaseOf[job.next]
  /\ Reload(job.next)
  /\ link' = ReleaseOf[job.next]
  /\ applied' = job.next /\ loaded' = disk
  /\ job' = NoJob /\ answer' = "done"
  /\ UNCHANGED <<disk, life, busy>>

(* A file operation of the commit fails after the routes were loaded, or   *)
(* they cannot be loaded.                                                  *)
CommitFails ==
  /\ job.step = "starting"
  /\ up' = up \cup {ReleaseOf[job.next]}
  /\ active' = ReleaseOf[job.next]
  /\ \/ busy = {} /\ Reload(job.next) /\ link' \in {link, ReleaseOf[job.next]}
     \/ busy # {} /\ UNCHANGED <<router, draining, link>>
  /\ Goto("undoing")
  /\ UNCHANGED <<disk, life, applied, loaded, busy>>

NotReady ==
  /\ job.step = "starting"
  /\ Goto("restarting")
  /\ UNCHANGED <<files, life, parent, active, up, draining, busy>>

(* Mutant: the new children are not stopped before the old ones start.     *)
UndoneKeepingChildren ==
  /\ job.step = "undoing"
  /\ active' = None
  /\ Goto("restarting")
  /\ UNCHANGED <<files, life, parent, up, draining, busy>>

Undone ==
  /\ job.step = "undoing"
  /\ up' = up \ {ReleaseOf[job.next]}
  /\ active' = None
  /\ Goto("restarting")
  /\ UNCHANGED <<files, life, parent, draining, busy>>

(* Mutant: the way back does not load the previous routes.                 *)
RestoredChildrenOnly ==
  /\ job.step = "restarting" /\ busy = {}
  /\ up' = up \cup {ReleaseOf[job.previous]}
  /\ active' = ReleaseOf[job.previous]
  /\ link' = ReleaseOf[job.previous]
  /\ applied' = job.previous
  /\ Fail
  /\ UNCHANGED <<life, router, loaded, busy>>

(* The previous release runs again and rollback() completes.               *)
Restored ==
  /\ job.step = "restarting" /\ busy = {}
  /\ up' = up \cup {ReleaseOf[job.previous]}
  /\ active' = ReleaseOf[job.previous]
  /\ router' = job.previous
  /\ link' = ReleaseOf[job.previous]
  /\ applied' = job.previous
  /\ Fail
  /\ UNCHANGED <<life, loaded, busy>>

(* runtime_rollback_failed after the previous release started: leases were *)
(* taken since the failed commit, so its routes cannot be loaded, or       *)
(* active.json cannot be written.  Nobody supervises the children.         *)
RestoreFails ==
  /\ job.step = "restarting"
  /\ up' = up \cup {ReleaseOf[job.previous]}
  /\ active' = None
  /\ \/ busy = {} /\ router' = job.previous /\ link' \in {link, ReleaseOf[job.previous]}
     \/ busy # {} /\ UNCHANGED <<router, link>>
  /\ Fail
  /\ UNCHANGED <<life, applied, loaded, busy>>

(* runtime_rollback_failed: the previous release does not start either.    *)
NotRestarted ==
  /\ job.step = "restarting"
  /\ active' = None
  /\ Fail
  /\ UNCHANGED <<link, life, parent, up, busy>>

Switch ==
  \/ DrainTimeout \/ Drained \/ Stopped \/ Started \/ CommitFails \/ NotReady
  \/ Undone \/ Restored \/ RestoreFails \/ NotRestarted

-----------------------------------------------------------------------------
(* The process.                                                            *)

(* A signal, or a monitored child that exits: the server stops accepting.  *)
BeginShutdown ==
  /\ life = "up"
  /\ life' = "closing"
  /\ UNCHANGED <<files, parent, active, up, draining, busy, job, answer>>

ClientGone ==
  /\ ~NoJobRuns /\ job.client
  /\ job' = [job EXCEPT !.client = FALSE]
  /\ UNCHANGED <<files, life, parent, active, up, draining, busy, answer>>

(* server.close() waits for open connections; then runtimeChildren.stop(). *)
StopRuntime ==
  /\ life = "closing"
  /\ busy = {}
  /\ ~NoJobRuns => ~job.client
  /\ life' = "stopped"
  /\ active' = None
  /\ up' = up \ {active}
  /\ UNCHANGED <<files, parent, draining, busy, job, answer>>

(* The process ends once no child keeps its event loop alive, or is killed *)
(* with its process group.                                                 *)
Gone ==
  /\ life # "down"
  /\ life' = "down"
  /\ active' = None /\ up' = {} /\ draining' = {} /\ busy' = {} /\ job' = NoJob /\ answer' = "none"
  /\ UNCHANGED <<files, parent>>

(* start(): generate from disk, activate, then start the children.         *)
Boot ==
  /\ life = "down"
  /\ life' = "up"
  /\ router' = disk /\ applied' = disk /\ loaded' = disk
  /\ link' = ReleaseOf[disk] /\ active' = ReleaseOf[disk] /\ up' = {ReleaseOf[disk]}
  /\ UNCHANGED <<disk, draining, busy, job, answer>>

BootFails ==
  /\ life = "down"
  /\ link' = ReleaseOf[disk]
  /\ UNCHANGED <<disk, life, parent, active, up, draining, busy, job, answer>>

Life == BeginShutdown \/ ClientGone \/ StopRuntime \/ Gone \/ Boot \/ BootFails

-----------------------------------------------------------------------------
Init ==
  /\ disk \in Configs
  /\ router = disk /\ applied = disk /\ loaded = disk
  /\ link = ReleaseOf[disk] /\ active = ReleaseOf[disk] /\ up = {ReleaseOf[disk]}
  /\ life = "up" /\ draining = {} /\ busy = {} /\ job = NoJob
  /\ answer = "none"

Next ==
  \/ \E c \in Channels : Admit(c) \/ StartTest(c) \/ Complete(c)
  \/ \E c \in Channels, next \in Configs : UpdateChannel(c, next)
  \/ \E next \in Configs : EditRoutes(next) \/ RollBack(next)
  \/ Apply
  \/ Switch
  \/ Life

Spec == Init /\ [][Next]_vars

(* Every wait of replace() is bounded: gateway.queue.timeoutSeconds for    *)
(* the drain, graceMs before SIGKILL, readyTimeoutMs for readiness.        *)
FairSpec == Spec /\ WF_vars(Switch)

-----------------------------------------------------------------------------
(* The steps of an apply, seen from outside: until the new routes are      *)
(* loaded the old release is the one that is supervised.                   *)

On == life \in {"up", "closing"}
WhileOn(value) == IF On THEN value ELSE None
ReleaseShown == IF NoJobRuns THEN active ELSE ReleaseOf[job.previous]
Back == IF job.kind = "rollback" THEN job.before ELSE None
AttemptShown ==
  CASE ~On \/ NoJobRuns -> [step |-> "none"]
    [] On /\ ~NoJobRuns /\ router # job.next -> [step |-> "apply", to |-> job.next, back |-> Back]
    [] On /\ ~NoJobRuns /\ router = job.next -> [step |-> "undo", to |-> job.previous, back |-> Back]

Shown == INSTANCE Switchover WITH
  release <- WhileOn(ReleaseShown), routes <- WhileOn(router), loaded <- WhileOn(loaded),
  attempt <- AttemptShown

-----------------------------------------------------------------------------
(* Properties.                                                             *)

(* Types of the whole state.                                               *)
TypeOK ==
  /\ disk \in Configs /\ link \in Releases
  /\ life \in {"up", "closing", "stopped", "down"}
  /\ router \in Configs /\ applied \in Configs /\ loaded \in Configs
  /\ active \in Releases \cup {None}
  /\ up \subseteq Releases
  /\ draining \subseteq Channels /\ busy \subseteq Channels
  /\ job \in Jobs \cup {NoJob}
  /\ answer \in Answers

(* Whenever no apply is under way and a release is supervised, processes,  *)
(* routes, revision marker and active.json speak of the same               *)
(* configuration, whatever failed on the way there.                        *)
OneConfigurationServed ==
  life = "up" /\ NoJobRuns /\ active # None =>
    /\ up = {active}
    /\ router = applied /\ loaded = applied
    /\ active = ReleaseOf[applied] /\ link = active

(* The children are never exchanged under a request: from the moment they  *)
(* are told to stop until the new routes are loaded no lease is held.      *)
QuietSwitch == job.step \in {"stopping", "starting"} => busy = {}

(* At most one release has running children, so two never compete for the  *)
(* same listeners.                                                         *)
OneReleaseRuns == Cardinality(up) <= 1

(* What a job answers tells what is loaded and what is on disk, whatever   *)
(* failed on its way: a result, that its configuration serves; an error of *)
(* the apply, that a rollback left the files as it found them; and         *)
(* rollback_restore_failed, that its target is left on disk, pending and   *)
(* not loaded (runtime-rollback of control-gateway.mjs).                   *)
AnswersTruly ==
  [][~NoJobRuns /\ job'.step = "idle" /\ life' # "down" =>
       \/ /\ answer' = "done"
          /\ disk' = job.next /\ loaded' = job.next /\ router' = job.next
          /\ link' = ReleaseOf[job.next] /\ up' = {link'}
       \/ /\ answer' = "failed" /\ loaded' = job.previous
          /\ disk' = IF job.kind = "rollback" THEN job.before ELSE job.next
       \/ /\ answer' = "rollback_restore_failed" /\ job.kind = "rollback"
          /\ loaded' = job.previous /\ disk' = job.next]_vars

(* An apply, whatever fails or dies on its way, exchanges release, routes  *)
(* and loaded configuration in one step, or takes back what it did of it,  *)
(* or ends without supervised children (apply of runtime-manager.mjs).     *)
ImplementsSwitchover == Shown!Spec

(* An apply ends, and leaves no channel drained.                           *)
ApplyEnds == ~NoJobRuns ~> NoJobRuns /\ draining = {}

(* control-jobs.md: any start or switch failure restarts the old release   *)
(* and restores the old parent routes -- here, if that release starts.     *)
FailedApplyRestores ==
  [][job.step = "restarting" /\ job'.step = "idle" /\ life' # "down"
     /\ ReleaseOf[job.previous] \in up' =>
       router' = job.previous]_vars
=============================================================================
