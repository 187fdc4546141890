SPECIFICATION SetupSpec
CHECK_DEADLOCK FALSE
CONSTANTS
  NilHasher = NilHasher
  Names <- MCNames
  Variants <- MCVariants
  Categories <- MCCategories
  BasePaths <- MCBasePaths
  NumBuckets <- MCNumBuckets
  Hashers <- MCHashers
  ZnodeNames <- MCZnodeNames
  ACLs = {{}, {"digest"}}
  DefaultZKACL = {"world"}
  DefaultHasher <- MCDefaultHasher
  DefaultNumHashBuckets = 256
  DefaultBucketsZnodeName = "buckets"
  MaxOptions = 4
  Callers = {t1, t2}
  Closers = {p1, p2}
  Servers = 1
  MaxLosses = 1
  MaxNewOptions = 1
INVARIANTS
  LastOptionWins
  IdentsHaveOwnZnodes
  NoContainerLeft
  CloseEnsuresClosed
  SetupConsistent
PROPERTIES
  PollerStops
  ConnectReturns
