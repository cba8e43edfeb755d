SPECIFICATION Spec
CONSTANTS
  Loaded <- MCLoaded
  New = "New"
  Cells <- MCCells
  Packages <- MCPackages
  Sessions <- MCSessions
INVARIANTS
  SavesHoldTheBlocks
  BlocksAreWired
CHECK_DEADLOCK FALSE
