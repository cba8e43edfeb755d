SPECIFICATION Spec
CONSTANTS
  MaxOf <- MCMaxOf
  Plans <- MCPlans
  Refs <- MCRefs
  ColSpans <- MCColSpans
  Shapes <- MCShapes
  Tables <- MCTables
  Moves <- MCMoves
  Grids <- MCGrids
  Sheets <- MCSheets
  Patches <- MCPatches
  Packages <- MCPackages
INVARIANTS
  RefsFollowCells
  AnchorsFollowCells
  PartsFollowTheSheet
  MovesCarryTheirCells
  PatchKeepsTheSheet
  CopiesLookAlike
CHECK_DEADLOCK FALSE
