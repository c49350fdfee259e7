SPECIFICATION FairSpec
CONSTANTS
  a = a
  b = b
  Tuple <- MCTuple
  MaxFlowsPerSession = 1
  QueueCap = 1
  OutCap = 1
  MaxFlows = 1
  MaxChunks = 3
  MaxReads = 2
  MaxResets = 1
CHECK_DEADLOCK FALSE
INVARIANTS
  StreamIsWritten
PROPERTIES
  ImplementsBytePipes
  EndIsTold
  ReadsAreSent
  StopReleasesSockets
  ServerStopEndsGoroutines
