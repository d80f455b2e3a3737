SPECIFICATION Spec
CONSTANTS
  Category <- MCCategory
  Files <- MCFiles
  Path <- MCPath
  Config <- MCConfig
  Text <- MCText
  DefaultFilters <- MCDefaultFilters
  CommandFilters <- MCCommandFilters
  CommandLength = 80
  Verbosity = 1
  MaxErrors = 2
INVARIANTS TypeOK FiltersAreOwn FiltersPutBack
PROPERTY EveryErrorJudged
CHECK_DEADLOCK FALSE
