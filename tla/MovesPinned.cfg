SPECIFICATION Spec
CONSTANTS
  MaxOf <- MCMaxOf
  Plans <- MCPlans
  Refs <- MCRefs
  ColSpans <- MCColSpans
  Shapes <- MCShapes
  Tables <- MCTables
  Moves <- MCMoves
  Grids <- MCGrids
  Sheets <- MCSheets
  Patches <- MCPatches
  Packages <- MCPackages
INVARIANT MarkedRefsStay
CHECK_DEADLOCK FALSE
