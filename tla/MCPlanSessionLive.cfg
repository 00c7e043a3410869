SPECIFICATION FairSpec
CONSTANTS
  StepId = {s1}
  Description = {d1}
  None = None
  MaxTurns = 4
  MaxRetries = 1
  SaveMayFail = FALSE
  MaxBatch = 2
  MaxVersion = 2
PROPERTIES
  InvocationEnds
