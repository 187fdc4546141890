SPECIFICATION Spec
CONSTANTS
  Electors = {e1, e2}
  OwnConn = {e1, e2}
  Closers = {}
  NoIdent = NoIdent
  Depth = 1
  InitDepths = {0}
  MinSeq <- MCMinSeq
  MaxSeq = 9
  FirstSeqs = {0, 9}
  Faulty = {e1, e2}
  MaxFaults = 2
  ClosedCallsHang = TRUE
  LossyEvents = {e1, e2}
SYMMETRY Symmetry
INVARIANTS
  AtMostOneLeader
  SettledViewIsCurrent
  ErrEventHasErr
  ClosedAfterErr
  EventsAlternate
PROPERTIES
  ImplementsElection
CHECK_DEADLOCK FALSE
