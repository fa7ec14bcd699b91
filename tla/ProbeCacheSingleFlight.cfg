SPECIFICATION Spec
CONSTANTS
  Requests = {r1, r2, r3}
  Forced = NoApi
  NoApi = NoApi
  None = None
  MaxFaults = 0
INVARIANT
  SingleFlight
CHECK_DEADLOCK FALSE
