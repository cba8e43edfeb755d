SPECIFICATION Spec
CONSTANTS
  Books = {"a", "b"}
  NumPaths = 2
  Torn = Torn
  Sessions <- MCWhole
INVARIANTS
  PathsHoldWhole
PROPERTIES
  KeepsItsSource
  BufferFollowsSave
  SavesWhatIsShown
CHECK_DEADLOCK FALSE
