SPECIFICATION FairStableSpec
CONSTANTS
    None = None
    a = a  b = b  r1 = r1  r2 = r2  v1 = v1  v2 = v2
    Names <- TwoNames
    Revs <- OneRev
    Versions <- OneVersion
    UserSpecs <- ManagedSpecs
    MaxEdits = 2
    MaxFaults = 2
    MaxCrashes = 1
INVARIANTS TypeOK NoOrphans
PROPERTIES DeletionCompletes
CHECK_DEADLOCK FALSE
