SPECIFICATION Spec
CHECK_DEADLOCK FALSE
CONSTANTS
  Chunks = 4
  PipeSize = 2
  ReaderStops = TRUE
  Forks = TRUE
INVARIANTS
  OutputBeforeStatus
  CodeIsReal
PROPERTIES
  CancelIsReported
  ExitIsReported
