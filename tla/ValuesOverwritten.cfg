SPECIFICATION Spec
CONSTANTS
  Versions = {v1, v2, v3}
  None = None
  MaxLoads = 2
  MaxChanges = 3
  Attempts = 1
SYMMETRY VersionSymmetry
INVARIANTS SettledValues
CHECK_DEADLOCK FALSE
