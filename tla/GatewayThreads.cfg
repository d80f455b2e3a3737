SPECIFICATION FairSpec
CONSTANTS
  MaxConns = 2
  MaxSeq = 1
  MaxDue = 1
  CloseCodes <- MCDrops
  HasErrorHandler = TRUE
  HandlerCalls <- MCAllCalls
INVARIANTS
  TypeOK
  UnackedIsOutstanding
  NoConnectReturned
PROPERTIES
  HeartbeatStops
  KeepsBeating
CHECK_DEADLOCK FALSE
