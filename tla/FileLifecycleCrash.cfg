SPECIFICATION Spec
CONSTANTS
  Mounts = {m1, m2}
  Survivors = {m1}
  Keepers = {m1, m2}
  Names = {a, b}
  MaxFiles = 1
  MaxLinks = 2
  Handles = {h1}
  TTL = 1
  Hidden = Hidden
  None = None
SYMMETRY Symmetry
INVARIANTS
  InodeKept
  SelectedIsNameless
PROPERTY
  HardlinkSurvives
