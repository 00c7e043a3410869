--------------------------- MODULE MCPlanController ---------------------------
EXTENDS PlanController, TLC

Symmetry == Permutations(StepId) \cup Permutations(Description)
=============================================================================
