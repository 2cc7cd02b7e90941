SPECIFICATION EditSpec
CONSTANTS
    None = None
    a = a  b = b  r1 = r1  r2 = r2  v1 = v1  v2 = v2
    Names <- TwoNames
    Revs <- TwoRevs
    Versions <- OneVersion
    UserSpecs <- SwitchSpecs
    MaxEdits = 2
    MaxFaults = 0
    MaxCrashes = 0
INVARIANTS InstalledIsExact
CHECK_DEADLOCK FALSE
