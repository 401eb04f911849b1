SPECIFICATION ESpec
CONSTANTS
  x = x
  none = none
  c1 = c1
  agent = agent
  NoName = none
  Names <- MCNames
  RenameTo <- MCNoNames
  Callers <- MCCallers
  Clients <- MCClients
  ShellsExit = FALSE
  MaxTabID = 2
  MaxWinID = 2
  MaxRevision = 3
  t1 = t1
  Tab <- MCTabs
  Adopted <- MCTabs
  Requests <- MCBoth
  resumeBudget = 1
  MaxSpawns = 3
  LiveWindow = 1
  LineSize <- MCLineSize
  StrayLen = 1
  MaxRows = 5
  MaxFaults = 2
  MaxSwaps = 1
  PrintAfterErase = FALSE
INVARIANTS LiveLabelsUnique NoBlindTab DaemonExitSeen KnownShellsSurvive HistoryIsWhole LengthNotOverstated
PROPERTIES ViewsCatchUp ChildReplaced UpgradeEnds
