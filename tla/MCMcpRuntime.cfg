\* A client may cancel the worker's task, and then the main thread waits for an
\* answer that nobody gives: the system really may stop.  EveryWaitEnds says
\* that it does not stop otherwise.
CONSTANTS
  NServers = 2
  Calls = {c1, c2}
  MaxInterrupts = 3
SPECIFICATION FairSpec
INVARIANTS
  CallsAreOrderedOnce
  StartupAtomic
  NothingLeftBehind
PROPERTY
  EveryWaitEnds
CHECK_DEADLOCK FALSE
