SPECIFICATION Spec
CONSTANTS
  Requests = {r1, r2}
  Forced = NoApi
  NoApi = NoApi
  None = None
  MaxFaults = 1
PROPERTY
  ExpiredIsReprobed
CHECK_DEADLOCK FALSE
