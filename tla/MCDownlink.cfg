SPECIFICATION FairSpec
CONSTANTS
  Half = 4
  StashLimit = 3
  MaxSent = 9
  MaxEpochs = 1
INVARIANTS
  StashBound
  RetainsUnacked
PROPERTIES
  HoleIsFilled
