SPECIFICATION FairSpec
CONSTANTS
  None = None
  a1 = a1 a2 = a2 k1 = k1 k2 = k2 c1 = c1 c2 = c2
  w1 = w1 w2 = w2 w3 = w3 t1 = t1 t2 = t2 r1 = r1 r2 = r2
  i1 = i1 i2 = i2 s1 = s1 s2 = s2 d = d x1 = x1 x2 = x2
  Apps <- TwoApps
  Keys <- TwoKeys
  Clusters <- TwoClusters
  ClusterOf <- AKeyEach
  Words <- ThreeWords
  Indexed <- IndexedWords
  Short <- ShortWords
  Terms <- TwoTerms
  Hits <- TermHits
  Repos <- TwoRepos
  BuiltIn <- OneBuiltIn
  CheckedClusters <- OneCluster
  Installs <- TwoInstalls
  Secrets <- TwoSecrets
  Accounts <- ThreeAccounts
  AccountOf <- OwnAccounts
  Default = d
  MaxTries = 2
  Jobs = 4
  Limit = 2
  MaxRetries = 3
  Arguments = {x, y}
  Delay = 2
  MaxTime = 4
  MaxPromises = 3
  MaxCalls = 2
  MaxFaults = 1
  MaxAttempts = 2
  MaxOthers = 1
  Versions <- SomeVersions
  Inputs <- EveryInput
INVARIANTS TypeOK RecordsKept CatalogKept Attached PromisesSound VersionLaws StatusLaws ClusterLaws LookupLaws ValidationLaws StoreLaws
PROPERTIES NothingDetached CallsEnd LifecycleSound
CHECK_DEADLOCK FALSE
