SPECIFICATION Spec
CONSTANTS
  Clusters = {c1, c2, c3, c4, c5}
  Limit = 3
SYMMETRY ClusterSymmetry
INVARIANTS
  WithinLimit
CHECK_DEADLOCK FALSE
