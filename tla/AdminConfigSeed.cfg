SPECIFICATION Spec
CONSTANTS
  Providers = {"p", "q"}
  Models = {"r", "s"}
  Priorities = {1}
  None = None
  MaxFaults = 1
  Admins = {a1}
  Requests = {q1}
  Asked = {"r"}
  File <- MCFile
  Ops <- MCOps
CHECK_DEADLOCK FALSE
PROPERTY
  SeedOnlyIntoEmpty
