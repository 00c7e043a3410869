CONSTANTS
  AutoTrigger = 5
  HardLimit = 7
  Ceiling = 8
  RecentRaw = 5
  SemanticReserve = 3
  EmergencyReserve = 1
  RoundLimit = 4
  MaxRecoveries = 1
  MaxTurns = 3
  None = None
  Sizes = {1, 3}
  MaxSize = 4
  MaxResults = 3
  Preview = 2
  Stub = 1
  SourceStub = 2
  ToolRounds <- MCToolRounds
  Inputs = {0, 6}
  BatchSizes = {1, 2}
  MaxTasks = 2
  MaxItems = 8
SPECIFICATION Spec
INVARIANTS
  HistoryIsWhole
  SentIsWhole
  SentIsSmallEnough
  RoundsAreCutWell
PROPERTIES
  EpochIsAppendOnly
  RemovedIsCovered
CHECK_DEADLOCK FALSE
