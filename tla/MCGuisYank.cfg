SPECIFICATION USpec
CONSTANTS
  none = none
  c1 = c1
  c2 = c2
  NoName = none
  Names <- MCNoNames
  RenameTo <- MCNoNames
  Callers <- MCClients
  Clients <- MCClients
  ShellsExit = FALSE
  MaxTabID = 1
  MaxWinID = 2
  MaxRevision = 3
  g1 = g1
  g2 = g2
  Guis = {g1, g2}
  Scenes <- MCTear
  MaxEdits = 1
  MaxTabs = 4
  MaxWins = 6
SYMMETRY Symmetry
PROPERTY OwnMoveStands
CHECK_DEADLOCK FALSE
