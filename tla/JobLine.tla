------------------------------ MODULE JobLine ------------------------------
(***************************************************************************)
(* What docs/control-jobs.md promises of the queue: accepted jobs form one *)
(* line, only the first of the line is served, jobs leave in the order     *)
(* they came, and the line never exceeds its capacity.                     *)
(***************************************************************************)
EXTENDS Naturals, Sequences

CONSTANTS Jobs, Capacity

VARIABLES
  line,    \* accepted jobs that have no answer yet
  served   \* whether the task of the first has ended

lineVars == <<line, served>>

LineInit == line = <<>> /\ served = FALSE

Accept(j) ==
  /\ Len(line) < Capacity
  /\ \A i \in 1..Len(line) : line[i] # j
  /\ line' = Append(line, j)
  /\ UNCHANGED served

Serve == line # <<>> /\ ~served /\ served' = TRUE /\ UNCHANGED line

Answer == served /\ line' = Tail(line) /\ served' = FALSE

(* The process ends.                                                       *)
Vanish == line' = <<>> /\ served' = FALSE

LineNext == (\E j \in Jobs : Accept(j)) \/ Serve \/ Answer \/ Vanish
LineSpec == LineInit /\ [][LineNext]_lineVars
=============================================================================
