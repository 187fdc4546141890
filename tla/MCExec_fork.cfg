SPECIFICATION Spec
CHECK_DEADLOCK FALSE
CONSTANTS
  Chunks = 2
  PipeSize = 2
  ReaderStops = FALSE
  Forks = TRUE
PROPERTIES
  CancelUnblocksReader
