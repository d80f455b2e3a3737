SPECIFICATION Spec
CONSTANTS
  Node <- MCNode
  Kind <- MCKind
  Children <- MCChildren
  Size <- MCSize
  Term <- MCTerm
  Terms <- MCTerms
  Depth <- MCDepth
  Within <- MCWithin
  RecurseLimit = 3
  MaxCount = 3
  InitialSize = 4
  SizeRange = 64
INVARIANTS
  TypeOK
  Fits
  HoldsPrefix
  ResultTells
CHECK_DEADLOCK FALSE
