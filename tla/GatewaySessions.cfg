SPECIFICATION Spec
CONSTANTS
  MaxConns = 3
  MaxSeq = 2
  MaxDue = 0
  CloseCodes <- MCCloseCodes
  HasErrorHandler = TRUE
  HandlerCalls <- MCNoCalls
INVARIANTS
  OpenFlagHonest
  ExactlyOnce
  ResumePointExact
CONSTRAINTS
  BeforeTimeout
  OneHeartbeatDue
CHECK_DEADLOCK FALSE
