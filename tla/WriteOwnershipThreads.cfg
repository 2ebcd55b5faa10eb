SPECIFICATION Spec
CONSTANTS
  Mounts = {m1, m2}
  MaxHandles = 2
  Files = {f1}
  EventThreads = 2
  TTL = 1
  NoSession = NoSession
  NoLease = NoLease
  NoHandle = NoHandle
  Free = Free
  Legacy = Legacy
SYMMETRY Symmetry
INVARIANT
  ReleaseExact
