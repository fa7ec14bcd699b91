SPECIFICATION Spec
CONSTANTS
  Requests = {r1, r2, r3, r4}
  IpLimit = 2
  KeyLimit = 1
  SlotLimit = 1
  Window = 2
  MaxTime = 4
  NoWindow = NoWindow
INVARIANTS
  ConcurrencyCapped
  SlotsAccountedFor
  RateCapped
PROPERTIES
  RefusedRateIsSpent
CHECK_DEADLOCK FALSE
