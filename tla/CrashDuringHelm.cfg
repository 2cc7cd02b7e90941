SPECIFICATION FairSettledSpec
CONSTANTS
    None = None
    a = a  b = b  r1 = r1  r2 = r2  v1 = v1  v2 = v2
    Names <- TwoNames
    Revs <- TwoRevs
    Versions <- OneVersion
    UserSpecs <- SwitchSpecs
    MaxEdits = 2
    MaxFaults = 1
    MaxCrashes = 1
PROPERTIES RetriesSucceed
CHECK_DEADLOCK FALSE
