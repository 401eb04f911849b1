SPECIFICATION ScaledSpec
CONSTANTS
  x = x
  none = none
  c1 = c1
  Names <- MCNames
  NoName = none
  RenameTo <- MCRename
  Callers <- MCCallers
  ShellsExit = TRUE
  Upgrades <- MCUpgrades
  MaxTabID = 2
  MaxWinID = 2
  MaxRevision = 3
  MaxLives = 3
  MaxPushes = 1
INVARIANT ResumedIsSound
PROPERTIES QuietCrashLosesNothing FinishedTabsSurvive
CHECK_DEADLOCK FALSE
