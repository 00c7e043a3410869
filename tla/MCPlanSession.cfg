SPECIFICATION Spec
CONSTANTS
  StepId = {s1}
  Description = {d1, d2}
  None = None
  MaxTurns = 5
  MaxRetries = 1
  SaveMayFail = TRUE
  MaxBatch = 2
  MaxVersion = 3
SYMMETRY Symmetry
INVARIANTS
  TypeOK
  LifecycleAgreement
  ApprovedPlanWasShown
  ReplyIsForAwaitingPlan
  PromptIsIdle
  SnapshotCoherent
PROPERTIES
  TaskFollowsTable
  WaitingNeedsUser
  KeepsAuthority
