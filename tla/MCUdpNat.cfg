SPECIFICATION FairSpec
CONSTANTS
  a = a
  b = b
  h = h
  Packet <- MCPackets
  MaxFlowsPerSession = 1
  UDPFlowIdle = 1
  OutCap = 1
  MaxSockets = 2
  MaxUplinks = 3
  MaxReads = 2
  MaxResets = 1
CHECK_DEADLOCK FALSE
INVARIANTS
  SocketsAreMapped
  RepliesInOrder
  OnlyShortTotalsPanic
PROPERTIES
  SilenceClosesAll
  PumpsEnd
