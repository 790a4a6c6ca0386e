----------------------------- MODULE MCPlanMode -----------------------------
(* Instances of PlanMode for TLC. *)
EXTENDS PlanMode, TLC
CONSTANTS k1, k2
OneCheck == {k1}
TwoChecks == {k1, k2}
CheckSymmetry == Permutations({k1, k2})
=============================================================================
