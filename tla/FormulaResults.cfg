SPECIFICATION Spec
CONSTANTS
  Titles <- MCTitles
  LastRow = 3
  Sessions <- MCSessions
INVARIANT RecalculationIsFull
PROPERTY SavedResultsAreCurrent
CHECK_DEADLOCK FALSE
