SPECIFICATION Spec
CONSTANTS
  Requests = {r1, r2}
  Forced = "openai_chat"
  NoApi = NoApi
  None = None
  MaxFaults = 1
INVARIANTS
  ResolvesToFirstServed
  VerdictsAreEarned
  HeldByTheLiving
  ProbedOnce
PROPERTIES
  LookupEnds
CHECK_DEADLOCK FALSE
