SPECIFICATION Spec
CONSTANTS
  Electors = {e1, e2}
  OwnConn = {e1, e2}
  Closers = {}
  NoIdent = NoIdent
  Depth = 1
  InitDepths = {0}
  MinSeq <- MCMinSeq
  MaxSeq = 9
  FirstSeqs = {0}
  Faulty = {}
  MaxFaults = 0
  ClosedCallsHang = TRUE
  LossyEvents = {}
PROPERTIES InitializeSetsUpBasePath
CHECK_DEADLOCK FALSE
