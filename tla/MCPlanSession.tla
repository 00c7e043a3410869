----------------------------- MODULE MCPlanSession -----------------------------
EXTENDS PlanSession, TLC

Symmetry == Permutations(Description)
=============================================================================
