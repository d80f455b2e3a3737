SPECIFICATION FairSpec
CONSTANTS
  MaxThreads = 2
  Events = 2
  MaxMessages = 3
  MemoryReused = FALSE
INVARIANTS
  TypeOK
  NothingSkipped
  AtMostOneLate
  EveryFailureReported
  OneThreadAtWork
PROPERTIES
  LeavesLoop
CHECK_DEADLOCK FALSE
