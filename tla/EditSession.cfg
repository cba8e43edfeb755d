SPECIFICATION Spec
CONSTANTS
  MaxRow = 4
  FirstCustom = 10
  Sessions <- MCSessions
INVARIANTS
  Reopens
  PackageClosed
  RefsFollowRows
  ResultsRecalculated
PROPERTIES
  IndexesFollowSheets
  StylesKept
