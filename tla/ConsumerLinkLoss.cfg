SPECIFICATION FairSpec
CONSTANTS
  MaxThreads = 1
  Events = 1
  MaxMessages = 2
  MemoryReused = FALSE
PROPERTIES
  LinkLossReported
CHECK_DEADLOCK FALSE
