SPECIFICATION Spec
CONSTANTS
  a = a
  b = b
  Tuple <- MCTuples
  MaxFlowsPerSession = 1
  QueueCap = 1
  OutCap = 1
  MaxFlows = 2
  MaxChunks = 3
  MaxReads = 0
  MaxResets = 1
SYMMETRY Symmetry
CHECK_DEADLOCK FALSE
INVARIANTS
  NoOrphanSocket
  OneSocketPerTuple
  DeadFlowIsReported
