SPECIFICATION FairSpec
CONSTANTS
  l1 = l1
  l2 = l2
  w = w
  m1 = m1
  m2 = m2
  Leg <- MCLegs
  StrangerLeg <- MCStranger
  Mac <- MCMacs
  Device = m1
  AllowedDevices <- MCAllowed
  MaxData = 1
  MaxRequests = 2
  MaxStrange = 1
  MaxRestarts = 1
  MaxDeaths = 1
CHECK_DEADLOCK FALSE
INVARIANTS
  NothingForgotten
PROPERTIES
  SessionMirrors
  HandshakeEnds
