SPECIFICATION Spec
CONSTANTS
  WIDTH = 2
  HEIGHT = 2
  TAB = 2
  FIRST_ROW = 0
  BYTE = 2
  MainChar = {"m", "NL", "CR", "TAB", "BS"}
  KeyChar = {"k", "NL", "BS"}
  MaxMain = 4
  MaxKeys = 2
INVARIANTS
  WritesInVideoMemory
  CursorOnScreen
  ShowsTheText
  CursorFollows
CHECK_DEADLOCK FALSE
