SPECIFICATION Spec
CONSTANTS
  Trees <- TreeSetups
  MaxSeed = 3
  Owners <- LeaseOwners
  FlockTtl = 2
INVARIANTS
  TypeOK
  NamesExact
  CreatedOnce
  RmdirAnswered
  FlockExclusive
  CopyOnWrite
  RefsExact
  QuotaKept
  PlanTruthful
  CatalogueTrue
  PlanAliasesEqual
  SnapshotKept
  AdmissionSafe
CHECK_DEADLOCK FALSE
