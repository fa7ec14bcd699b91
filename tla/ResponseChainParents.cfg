SPECIFICATION Spec
CONSTANTS
  MaxTurns = 2
  Targets = {"a"}
  Keys = {"k"}
  None = None
  MaxTime = 1
  MaxFaults = 0
  Ttl = 0
  Provider <- MCProvider
  Scope <- MCScope
  Model <- MCModel
  Responses = {"a"}
  Resolved = {"a"}
  Eager = TRUE
CHECK_DEADLOCK FALSE
PROPERTY
  ParentsKept
