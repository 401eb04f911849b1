SPECIFICATION QSpec
CONSTANTS
  Queries = {"a", "b"}
  MaxContent = 2
  MaxEdits = 4
INVARIANT MatchesInSync
CHECK_DEADLOCK FALSE
