SPECIFICATION FairSpec
CONSTANTS
  Requests = {r1, r2, r3}
  None = None
  MaxFaults = 3
CHECK_DEADLOCK FALSE
INVARIANTS
  ArchivedIsFound
  CountsAreLines
PROPERTY NobodyBlocked
