SPECIFICATION Spec
CONSTANTS
  Mounts = {m1, m2}
  Handles = {h1, h2}
  h1 = h1
  h2 = h2
  Threads = {t1}
  MaxSize = 3
  BlockSize = 2
  BufferedCap = 1
  ReadRanges <- MCReads
  Settings <- Remounted
  MaxCrashes = 0
  Path = Path
SYMMETRY Symmetry
INVARIANTS
  NothingLost
