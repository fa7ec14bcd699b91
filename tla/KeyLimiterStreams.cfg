SPECIFICATION Spec
CONSTANTS
  Requests = {r1, r2, r3}
  IpLimit = 3
  KeyLimit = 2
  SlotLimit = 1
  Window = 2
  MaxTime = 2
  NoWindow = NoWindow
INVARIANT
  StreamsCapped
CHECK_DEADLOCK FALSE
