SPECIFICATION DSpec
CONSTANTS
  x = x
  none = none
  c1 = c1
  NoName = none
  Names <- MCNames
  RenameTo <- MCRenameTo
  Callers = {c1}
  ShellsExit = TRUE
  MaxTabID = 2
  MaxWinID = 2
  MaxRevision = 5
  v1 = v1
  v2 = v2
  Viewers = {v1, v2}
  Wants <- MCWants
  MaxDim = 2
  FirstGrid <- MCFirstGrid
  Carried = FALSE
  MaxClaims = 2
  a1 = a1
  g1 = g1
  g2 = g2
  Agents = {a1}
  Guis = {g1, g2}
  ProposedCap = 2
  Waiting = 2
  MaxProposals = 3
  MaxAnswers = 2
  MaxTabs = 2
  MaxInst = 2
  MaxRev = 3
  MaxDrops = 1
  TopoCap = 2
SYMMETRY Symmetry
INVARIANTS
  TypeOK EveryTabInOneWindow FocusNeverDangles IndexInLockstep
  FlipsAreEarned NoTornMirror TypedOnce
  ClosesHitTheirTab RestingSourcesAgree AckIsOwn
PROPERTIES MembershipStamped ImplementsPlacement
CHECK_DEADLOCK FALSE
