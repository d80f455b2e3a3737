SPECIFICATION Spec
CONSTANTS
  Char = {"(", ")", "{", "}", "<", ">", ";", "-", "operator", "ge", "x", "newline"}
  MaxText = 6
INVARIANTS TypeOK EndsAsCounted GoesBack
CHECK_DEADLOCK FALSE
