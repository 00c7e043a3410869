SPECIFICATION Spec
CONSTANTS
  old = old
  new = new
  short1 = short1
  short2 = short2
  short3 = short3
  Absent = Absent
  None = None
  Contents <- MCContents
  LineCount <- MCLineCount
  Size <- MCSize
  LongLines <- MCLongLines
  BroadReadMin = 2
  BroadReadMax = 3
  Worlds <- MCWorlds
INVARIANTS
  ReadStateIsExact
PROPERTIES
  NoticeIsTrue
  OthersWorkSurvives
  HashProtects
  ReplacedWasRead
