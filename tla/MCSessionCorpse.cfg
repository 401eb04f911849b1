SPECIFICATION Spec
CONSTANTS
  x = x
  y = y
  none = none
  c1 = c1
  NoName = none
  Names <- MCNames
  RenameTo <- MCNoRename
  Callers <- MCOneCaller
  ShellsExit = TRUE
  MaxTabID = 3
  MaxWinID = 1
  MaxRevision = 5
SYMMETRY Symmetry
INVARIANT LiveLabelsUnique
