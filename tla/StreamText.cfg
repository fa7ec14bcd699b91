SPECIFICATION Spec
CONSTANTS
  Open <- MCOpen
  Close <- MCClose
  Letters = {}
  Items = {i, j}
  None = None
  MaxText = 5
  MaxWire = 1
SYMMETRY ItemSymmetry
CHECK_DEADLOCK FALSE
INVARIANTS
  CutsDoNotMatter
  NothingTakenBack
