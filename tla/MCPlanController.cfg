SPECIFICATION Spec
CONSTANTS
  StepId = {s1, s2}
  Description = {d1, d2}
  None = None
  MaxVersion = 4
SYMMETRY Symmetry
INVARIANTS
  PlanStaysValid
PROPERTIES
  VersionIdentifiesOutline
  LedgerRecordsAuthorizedWork
  ExecutionFollowsDecision
