SPECIFICATION Spec
CONSTANTS
  Mounts = {m1, m2}
  Survivors = {m1, m2}
  Keepers = {}
  Names = {a, b}
  MaxFiles = 2
  MaxLinks = 1
  Handles = {h1}
  TTL = 1
  Hidden = Hidden
  None = None
SYMMETRY Symmetry
INVARIANTS
  TypeOK
  InodeKept
  NamesSound
