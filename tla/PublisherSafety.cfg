SPECIFICATION PublisherSpec
CONSTANTS
  MaxConnects = 3
  MaxPackets = 3
  Types = {"created", "deleted"}
  FirstUnchecked = TRUE
INVARIANTS
  PublisherTypeOK
  ReadyBeforePublish
  NothingLost
CHECK_DEADLOCK FALSE
