SPECIFICATION Spec
CONSTANTS
  Titles = {"A", "B", "C", "X", "Y", "Z"}
  Loaded <- MCLoaded3
  Offsets <- MCOffsets
  Sessions <- MCSessions
INVARIANTS
  NothingRefused
  NeverCollides
  OnePartEach
PROPERTY WritesWhatIsShown
CHECK_DEADLOCK FALSE
