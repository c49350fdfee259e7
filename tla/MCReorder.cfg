SPECIFICATION FairSpec
CONSTANTS
  Half = 8
  MaxPend = 2
  Settle = 1
  RetransmitAfter = 1
  SkipAfter = 2
  Limit = 2
  Bases <- MCBases
  MaxSent = 5
  MaxOffers = 5
  MaxEpochs = 1
INVARIANTS
  MemoryBound
  TimerRunsIffBlocked
  PositionAccounted
  OffersAccounted
PROPERTIES
  DeliveredInOrder
  AskedBeforeGivenUp
  AsksOnlyForGaps
  ImplementsOrderedDelivery
  HeldIsReleased
