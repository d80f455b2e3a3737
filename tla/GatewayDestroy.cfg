SPECIFICATION FairSpec
CONSTANTS
  MaxConns = 2
  MaxSeq = 1
  MaxDue = 0
  CloseCodes <- MCDrops
  HasErrorHandler = TRUE
  HandlerCalls <- MCAllCalls
PROPERTIES
  DestroyStopsHeartbeat
CHECK_DEADLOCK FALSE
