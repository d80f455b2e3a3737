SPECIFICATION Spec
CONSTANTS
  Name <- MCName
  Paths <- MCPaths
  Own <- MCOwn
  MaxLines = 6
INVARIANTS TypeOK InEffectListed NothingInEffectAsked
PROPERTIES OrderReported AlphaReported
CHECK_DEADLOCK FALSE
