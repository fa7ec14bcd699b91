SPECIFICATION Spec
CONSTANTS
  Requests = {r1, r2}
  Forced = NoApi
  NoApi = NoApi
  None = None
  MaxFaults = 0
INVARIANT
  ToolSupportIsProbed
CHECK_DEADLOCK FALSE
