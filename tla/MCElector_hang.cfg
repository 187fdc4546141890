SPECIFICATION FairSpec
CONSTANTS
  Electors = {e1}
  OwnConn = {e1}
  Closers = {e1}
  NoIdent = NoIdent
  Depth = 1
  InitDepths = {1}
  MinSeq <- MCMinSeq
  MaxSeq = 9
  FirstSeqs = {0}
  Faulty = {}
  MaxFaults = 0
  ClosedCallsHang = TRUE
  LossyEvents = {}
PROPERTIES WaitingElectorStops
CHECK_DEADLOCK FALSE
