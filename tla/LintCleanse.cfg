SPECIFICATION Spec
CONSTANTS
  Files <- MCFiles
  NormalTrigger = 1
  TestTrigger = 2
  Verbosity = 1
INVARIANTS TypeOK NothingMisread
PROPERTY LongReported
CHECK_DEADLOCK FALSE
