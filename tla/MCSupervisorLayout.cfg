SPECIFICATION USpec
CONSTANTS
  t1 = t1
  t2 = t2
  Tab <- MCTabs
  Adopted <- MCNone
  Requests <- MCNone
  resumeBudget = 1
  MaxSpawns = 3
SYMMETRY Symmetry
INVARIANT LayoutAgrees
CHECK_DEADLOCK FALSE
