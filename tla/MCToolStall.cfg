SPECIFICATION StallSpec
CONSTANTS
  Calls = {x, y}
  None = None
  MaxBatch = 2
  MaxStreak = 5
SYMMETRY Symmetry
INVARIANTS
  StopsExactlyWhenStalled
  StopFollowsWarning
