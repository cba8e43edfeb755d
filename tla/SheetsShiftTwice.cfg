SPECIFICATION Spec
CONSTANTS
  Titles = {"A", "B"}
  Loaded <- MCLoaded2
  Offsets <- MCOffsets
  Sessions <- MCShift
PROPERTY ResavedUnchanged
CHECK_DEADLOCK FALSE
