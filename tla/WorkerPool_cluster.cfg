SPECIFICATION FairSpec
CONSTANTS
  n1 = n1
  n2 = n2
  r1 = r1
  r2 = r2
  Node <- TwoNodes
  Root <- TwoRoots
  MaxParallel = 1
  MaxLease = 2
  MaxToken = 2
  Profile <- Profiles
  Constraint <- Constraints
  Faulty <- Second
INVARIANTS
  PoolInv
  CacheAgrees
PROPERTIES
  LeadershipPasses
  LeasesAreReturned
  RootsAreTaken
CHECK_DEADLOCK FALSE
