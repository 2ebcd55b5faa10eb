SPECIFICATION Spec
CONSTANTS
  Readers = {"r1", "r2"}
  Writers = {"w1", "w2"}
  Setups <- CacheSetups
  MaxCommits = 2
  Plans <- ConnPlans
  MaxThreads = 3
  Routes <- RouteSetups
  MaxWorkers = 2
  Threshold = 2
  Deployments <- LockSetups
  Ttl = 2
  MaxByte = 2
INVARIANTS
  TypeOK
  CacheCoherent
  OneServerInFlight
  CountsExact
  BarrierHonoured
  HeldExclusive
  RangesExact
  EdgesAcyclic
  NothingLost
  ReadsMatch
PROPERTIES
  AdoptedIsPrimary
CHECK_DEADLOCK FALSE
