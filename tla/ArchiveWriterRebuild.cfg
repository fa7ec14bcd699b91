SPECIFICATION Spec
CONSTANTS
  Requests = {r1, r2, r3}
  None = None
  MaxFaults = 3
CHECK_DEADLOCK FALSE
INVARIANT IndexCanBeRebuilt
