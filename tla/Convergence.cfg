SPECIFICATION FairEitherSpec
CONSTANTS
    None = None
    a = a  b = b  r1 = r1  r2 = r2  v1 = v1  v2 = v2
    Names <- TwoNames
    Revs <- TwoRevs
    Versions <- TwoVersions
    UserSpecs <- SwitchSpecs
    MaxEdits = 2
    MaxFaults = 1
    MaxCrashes = 1
INVARIANTS FinalizerLast SettledIsExact
PROPERTIES HandsOff 
CHECK_DEADLOCK FALSE
