SPECIFICATION FairSpec
CONSTANTS
  MaxAttempts = 2
  MaxOthers = 2
INVARIANTS TypeOK
PROPERTIES SuccessIsCurrent OwnVerdict InstallNoticed ImplementsJob
CHECK_DEADLOCK FALSE
