SPECIFICATION FairSpec
CONSTANTS
  None = None
  c1 = c1 c2 = c2 i1 = i1 k1 = k1 g1 = g1 g2 = g2 r1 = r1 r2 = r2 here = here
  Instances <- OneInstance
  Clusters <- TwoClusters
  ClusterOf <- InFirstCluster
  KeyOf <- OneKey
  Slugs <- TwoSlugs
  Repos <- TwoRepos
  SuseSlugs <- OneSuseSlug
  SuseRepo = r2
  CatalogOf <- SharedApp
  Here = here
  Deployments <- FirstDeployments
  MaxLoads = 2
  MaxTasks = 2
  MaxChanges = 3
  MaxFaults = 1
INVARIANTS TypeOK Indicators CatalogShown
PROPERTIES PagesSettle
CHECK_DEADLOCK FALSE
