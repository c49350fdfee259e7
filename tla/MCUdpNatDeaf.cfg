SPECIFICATION Spec
CONSTANTS
  a = a
  b = b
  h = h
  Packet <- MCPackets
  MaxFlowsPerSession = 2
  UDPFlowIdle = 1
  OutCap = 1
  MaxSockets = 2
  MaxUplinks = 3
  MaxReads = 1
  MaxResets = 0
CHECK_DEADLOCK FALSE
INVARIANTS
  RepliesAreRead
