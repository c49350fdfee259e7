SPECIFICATION Spec
CONSTANTS
  t1 = t1
  t2 = t2
  u1 = u1
  Leg <- MCLegs
  TcpLeg <- MCTcpLegs
  MaxRTT = 3
  MaxClock = 3
  MaxProbes = 1
SYMMETRY Symmetry
CHECK_DEADLOCK FALSE
INVARIANTS
  PickIsBest
  PickIsLive
  EstimateIsBetween
