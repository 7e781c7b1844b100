--------------------------- MODULE MCRuntimeApply ---------------------------
(* RuntimeApply with three configurations of two channels: two generate    *)
(* the same release and differ in the parent's routes only, the third has  *)
(* channel b out of production.                                            *)
EXTENDS RuntimeApply

CONSTANTS a, b, full, rerouted, reduced, r1, r2

TwoChannels == {a, b}
ThreeConfigs == {full, rerouted, reduced}
TwoReleases == {r1, r2}
ModelReleaseOf == [g \in ThreeConfigs |-> IF g = reduced THEN r2 ELSE r1]
ModelEnabledIn == [g \in ThreeConfigs |-> IF g = reduced THEN {a} ELSE {a, b}]
=============================================================================
