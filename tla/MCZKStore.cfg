SPECIFICATION Spec
CHECK_DEADLOCK FALSE
SYMMETRY Symmetry
CONSTANTS
  NoNode = NoNode
  NoData = NoData
  NoHeld = NoHeld
  NoVariant = NoVariant
  Clients = {c1, c2}
  Names = {n1, n2}
  Variants = {v1}
  Buckets <- MCBuckets
  Bucket <- MCBucket
  Workloads <- MCWorkloads
INVARIANTS
  WellFormed
  ConflictIsReal
  DeletedWasGone
  ListIsPlausible
PROPERTIES
  NoLostUpdate
