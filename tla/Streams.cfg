SPECIFICATION Spec
CONSTANTS
  FirstTitles <- MCTitles
  NewTitles = {"B", "C", "bad"}
  BadTitles = {"bad"}
  AppendedRows <- MCRows
  Nil = Nil
  None = None
  Refused = Refused
  MaxCalls = 4
  MaxFaults = 1
  CHUNK_ROWS = 2
  CHUNK_CELL_BUDGET = 4
  Sheets <- MCSheets
  Requests <- MCRequests
  Modes = {"write", "modify", "write_only"}
  Coords <- MCCoords
  Areas <- MCAreas
  ValueRows <- MCValueRows
  QueuedGrids <- MCGrids
  ShiftRows = {1, 2}
  BaseCells <- MCBase
  MaxMade = 3
INVARIANTS
  SavesHoldTheRows
  ReadsWhatIsThere
  WrittenIsReadBack
  SavesTheLastWrites
  RecordsForetellTheSave
CHECK_DEADLOCK FALSE
