SPECIFICATION Spec
CONSTANTS
  MaxTurns = 3
  Targets = {"a"}
  Keys = {"k"}
  None = None
  MaxTime = 0
  MaxFaults = 0
  Ttl = 0
  Provider <- MCProvider
  Scope <- MCScope
  Model <- MCModel
  Responses = {"a"}
  Resolved = {"a"}
  Eager = TRUE
CHECK_DEADLOCK FALSE
INVARIANT ChainReplays
