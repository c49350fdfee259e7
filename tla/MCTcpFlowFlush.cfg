SPECIFICATION Spec
CONSTANTS
  a = a
  b = b
  Tuple <- MCTuple
  MaxFlowsPerSession = 1
  QueueCap = 1
  OutCap = 1
  MaxFlows = 1
  MaxChunks = 3
  MaxReads = 0
  MaxResets = 0
CHECK_DEADLOCK FALSE
INVARIANTS
  QueuedBeforeCloseIsWritten
