SPECIFICATION Spec
CONSTANTS
  Sheets <- MCSheets
  Letters = {1, 2}
  MaxTyped = 1
  Screens <- MCScreens
INVARIANTS
  CursorVisible
  SearchFindsAll
  SheetsRemembered
CHECK_DEADLOCK FALSE
