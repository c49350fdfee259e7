SPECIFICATION FairSpec
CONSTANTS
  c1 = c1
  p1 = p1
  p2 = p2
  x = x
  y = y
  Conn <- MCNoConn
  Peer <- MCPeers
  Id <- MCId
  MaxPeers = 1
  InCap = 1
  ReadTimeout = 1
  SessionIdle = 1
  MaxSessions = 2
CHECK_DEADLOCK FALSE
PROPERTIES
  ResetEnds
