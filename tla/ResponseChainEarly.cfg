SPECIFICATION Spec
CONSTANTS
  MaxTurns = 2
  Targets = {"a"}
  Keys = {"k"}
  None = None
  MaxTime = 0
  MaxFaults = 0
  Ttl = 0
  Provider <- MCProvider
  Scope <- MCScope
  Model <- MCModel
  Responses = {}
  Resolved = {"a"}
  Eager = TRUE
CHECK_DEADLOCK FALSE
INVARIANT AnsweredOnWholeHistory
