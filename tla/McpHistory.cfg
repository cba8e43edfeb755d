SPECIFICATION Spec
CONSTANTS
  Servers = {s1}
  ReadOnly = {}
  Content = {"small", "medium", "large"}
  NoFile = NoFile
  None = None
  Size <- MCSize
  HISTORY_ENTRIES = 2
  HISTORY_BYTES = 4
INVARIANTS
  TypeOK
  HistoryBounded
  UndoWithinBudget
  RestoreIsOfTheHistory
  ReplacesWhatItRead
  GuardHonoured
PROPERTIES
  Answered
  UndoRedoIsLinear
