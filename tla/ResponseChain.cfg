SPECIFICATION Spec
CONSTANTS
  MaxTurns = 3
  Targets = {"a", "b", "c"}
  Keys = {k, l}
  None = None
  MaxTime = 0
  MaxFaults = 0
  Ttl = 0
  Provider <- MCProvider
  Scope <- MCScope
  Model <- MCModel
  Responses = {"a", "b"}
  Resolved = {"a", "b", "c"}
  Eager = FALSE
SYMMETRY KeySymmetry
CHECK_DEADLOCK FALSE
INVARIANTS
  ToolIdsMatch
  ContextIntact
