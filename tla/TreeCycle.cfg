SPECIFICATION TreeSpec
CONSTANTS
  Trees <- Crossing
  MaxSeed = 1
INVARIANTS
  TreeAcyclic
CHECK_DEADLOCK FALSE
