SPECIFICATION TSpec
CONSTANTS
  LiveWindow = 1
  LineSize <- MCLineSize
  StrayLen = 1
  MaxRows = 4
  MaxFaults = 0
  MaxSwaps = 0
  PrintAfterErase = TRUE
INVARIANT HistoryIsWhole
CHECK_DEADLOCK FALSE
