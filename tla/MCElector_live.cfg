SPECIFICATION FairSpec
CONSTANTS
  Electors = {e1, e2}
  OwnConn = {e1, e2}
  Closers = {e1}
  NoIdent = NoIdent
  Depth = 1
  InitDepths = {1}
  MinSeq <- MCMinSeq
  MaxSeq = 9
  FirstSeqs = {0}
  Faulty = {e1}
  MaxFaults = 1
  ClosedCallsHang = FALSE
  LossyEvents = {e1}
PROPERTIES
  FaultReported
  DeposedIsTold
  SomebodyLeads
  CloseStopsElector
  CloseReleasesLock
CHECK_DEADLOCK FALSE
