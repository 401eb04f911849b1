SPECIFICATION MSpec
CONSTANTS
  Batch = 2
  Backfill = 3
  QueueCap = 1
  ChanCap = 1
  WindowCap = 2
  FetchSpan = 2
  Prefetch = 1
  MaxScreens = 2
  MaxRows = 0
  MaxScrolls = 0
  MaxUpsets = 0
INVARIANT MirrorMatchesBaseline
CHECK_DEADLOCK FALSE
