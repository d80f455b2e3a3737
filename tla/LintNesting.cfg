SPECIFICATION Spec
CONSTANTS
  Lines <- MCLines
  Names <- MCNames
  LongNamespace = 2
  MaxLines = 6
INVARIANTS
  TypeOK
  EveryBraceCounted
PROPERTIES
  SkipsElse
CHECK_DEADLOCK FALSE
