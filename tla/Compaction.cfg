SPECIFICATION Spec
CONSTANTS
  None = None
  U32 = 8
  DefaultMargin = 2
  TargetCount = 3
  MaxFaults = 1
  Profiles <- MCProfiles
  Requests <- MCRequests
  Space <- MCSpace
CHECK_DEADLOCK FALSE
INVARIANTS
  CallsFit
  AttemptsMirrorCalls
  AnswerAccounted
  RefusalIsOfTheLast
  CompactedWhereAnswered
  LineageTold
