SPECIFICATION Spec
CONSTANTS
  Providers = {"p", "q"}
  Models = {"r", "s"}
  Priorities = {1}
  None = None
  MaxFaults = 1
  Admins = {a1, a2}
  Requests = {q1, q2}
  Asked = {"r"}
  File <- MCFile
  Ops <- MCOps
SYMMETRY MCSymmetry
CHECK_DEADLOCK FALSE
INVARIANTS
  SeededOnce
  ServedFromFile
  FailedCreateUndone
  AuditedOrLogged
  PlainKeysAreTheFiles
