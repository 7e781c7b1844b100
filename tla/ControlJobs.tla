---------------------------- MODULE ControlJobs ----------------------------
(***************************************************************************)
(* The queue of control jobs, src/control-jobs.mjs: run() and pump().      *)
(* What a task does is left to the modules that compose this one.  The     *)
(* list of recent jobs that status() shows is left out.                    *)
(***************************************************************************)
EXTENDS Naturals, Sequences

CONSTANTS
  Jobs,       (* job objects; one is used again once it is settled         *)
  MaxQueued,  (* maxQueued                                                 *)
  NoJob

ASSUME ControlJobsAssumption == MaxQueued \in Nat \ {0} /\ NoJob \notin Jobs

VARIABLES
  waiting,  \* pending
  running,
  job       \* the job objects, by what they wait for

queue == <<waiting, running, job>>

(* completed and failed are one status: finish() and what follows it are   *)
(* the same for both.                                                      *)
Statuses == {"settled", "queued", "running", "finished"}

QueueInit ==
  /\ waiting = <<>>
  /\ running = NoJob
  /\ job = [j \in Jobs |-> "settled"]

(* Mutant: the newest job is taken.                                        *)
PumpNewest(line, current, statuses) ==
  IF current # NoJob \/ line = <<>>
  THEN waiting' = line /\ running' = current /\ job' = statuses
  ELSE /\ waiting' = SubSeq(line, 1, Len(line) - 1)
       /\ running' = line[Len(line)]
       /\ job' = [statuses EXCEPT ![line[Len(line)]] = "running"]

(* pump                                                                    *)
Pump(line, current, statuses) ==
  IF current # NoJob \/ line = <<>>
  THEN waiting' = line /\ running' = current /\ job' = statuses
  ELSE /\ waiting' = Tail(line)
       /\ running' = Head(line)
       /\ job' = [statuses EXCEPT ![Head(line)] = "running"]

(* run: a job enters the queue, and starts at once when nothing runs; it   *)
(* is refused, and nothing changes, when too many wait.                    *)
Run(j) ==
  /\ job[j] = "settled"
  /\ Len(waiting) < MaxQueued
  /\ Pump(Append(waiting, j), running, [job EXCEPT ![j] = "queued"])

(* The task ends, well or badly; finish() records it, onFinished() is      *)
(* awaited.                                                                *)
TaskEnds(j) ==
  /\ job[j] = "running"
  /\ job' = [job EXCEPT ![j] = "finished"]
  /\ UNCHANGED <<waiting, running>>

Works(j) == job[j] = "running" /\ UNCHANGED queue

(* The promise is settled, and `finally' starts the next job.              *)
Settle(j) ==
  /\ job[j] = "finished"
  /\ Pump(waiting, NoJob, [job EXCEPT ![j] = "settled"])

(* The process ends, and no caller hears of its job again.                 *)
Lost ==
  /\ waiting' = <<>>
  /\ running' = NoJob
  /\ job' = [j \in Jobs |-> "settled"]

(* What the queue allows, whatever the tasks do.                           *)
QueueNext == (\E j \in Jobs : Run(j) \/ TaskEnds(j) \/ Settle(j)) \/ Lost
QueueSpec == QueueInit /\ [][QueueNext]_queue

-----------------------------------------------------------------------------
(* Properties.                                                             *)

QueueTypeOK ==
  /\ waiting \in Seq(Jobs)
  /\ running \in Jobs \cup {NoJob}
  /\ job \in [Jobs -> Statuses]

(* The queue is the line that docs/control-jobs.md promises: jobs run one  *)
(* at a time in the order they came, and at most MaxQueued wait.           *)
Line == INSTANCE JobLine WITH
  Capacity <- MaxQueued + 1,
  line <- (IF running = NoJob THEN <<>> ELSE <<running>>) \o waiting,
  served <- running # NoJob /\ job[running] = "finished"
ImplementsJobLine == Line!LineSpec
=============================================================================
