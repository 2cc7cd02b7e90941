SPECIFICATION FairOrderedSpec
CONSTANTS
  Versions = {v1, v2}
  None = None
  MaxLoads = 3
  MaxChanges = 5
  Attempts = 2
INVARIANTS TypeOK SettledValues InstalledMatches
PROPERTIES GateOpens
CHECK_DEADLOCK FALSE
