--------------------------- MODULE MCControlPlane ---------------------------
(* ControlPlane with two configurations and their releases, a history of   *)
(* three revisions of which one may be kept, no spare release, four        *)
(* callers and two places to wait, so one can be refused.  The ids of      *)
(* revisions and of jobs are interchangeable.                              *)
EXTENDS ControlPlane, TLC

CONSTANTS x, y

ModelReleaseOf == [c \in Contents |-> c]
Symmetry == Permutations(Revs) \cup Permutations(Jobs)
=============================================================================
