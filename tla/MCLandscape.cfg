SPECIFICATION Spec
CONSTANTS
  Session = {s1, s2}
  ApprovalMode = "automatic"
  None = None
  MaxVersions = 3
  MaxQuerySets = 1
  MaxClock = 2
SYMMETRY Symmetry
INVARIANTS NoEditLost LatestIsLast QuerySetWasApproved
CHECK_DEADLOCK FALSE
