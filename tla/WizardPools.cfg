SPECIFICATION FairSpec
CONSTANTS
  Clusters = {c1, c2, c3, c4, c5}
  Limit = 2
INVARIANTS
  TypeOK
  OneAttempt
  PoolFull
PROPERTIES
  ImplementsJobs
  EveryAttemptEnds
  ModalOffersWayOut
CHECK_DEADLOCK FALSE
