SPECIFICATION LSpec
CONSTANTS
  MaxTabs = 2
  MaxInst = 2
  MaxRev = 3
  MaxDrops = 1
  TopoCap = 1
INVARIANT NoForeignClose
CHECK_DEADLOCK FALSE
