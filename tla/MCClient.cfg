SPECIFICATION CSpec
CONSTANTS
  Batch = 2
  Backfill = 3
  QueueCap = 1
  ChanCap = 1
  WindowCap = 2
  FetchSpan = 2
  Prefetch = 1
  MaxScreens = 1
  MaxRows = 3
  MaxScrolls = 1
  MaxUpsets = 1
  l = l
  k = k
  Hosts = {l, k}
  Local = l
  Cap = 1
  MaxEvents = 2
  MaxEpochs = 2
  MaxChanges = 2
  Window = 3
  Buffer = 1
  OutCap = 2
  Queries = {"a", "b"}
  MaxContent = 2
  MaxEdits = 4
  r1 = r1
  a = a
  b = b
  Readers = {r1}
  Topics = {a, b}
  Filter <- MCFilter
  Capacity = 2
  MaxAppends = 4
  MaxProcesses = 2
INVARIANTS
  RowsAtTheirIndex RestingMirrorIsWhole NoSilentLoss PrintedInOrder
  LiveNotReaped DrawnIsOfQuery RingHoldsTail NoSilentGap
PROPERTIES HungIsReaped NoStuckSearch NoLostWakeup
CHECK_DEADLOCK FALSE
