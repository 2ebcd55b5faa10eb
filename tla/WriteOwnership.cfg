SPECIFICATION FairSpec
CONSTANTS
  Mounts = {m1, m2}
  MaxHandles = 2
  Files = {f1}
  EventThreads = 1
  TTL = 2
  NoSession = NoSession
  NoLease = NoLease
  NoHandle = NoHandle
  Free = Free
  Legacy = Legacy
INVARIANTS
  TypeOK
  InFlightIsCurrent
  LegacyExcluded
  ReleaseExact
PROPERTIES
  FencedContent
  OrphanBecomesFree
