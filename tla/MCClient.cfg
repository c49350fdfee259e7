SPECIFICATION FairSpec
CONSTANTS
  Half = 4
  Magic <- MCMagic
  SubHdrLen = 2
  MaxBodyLen = 3
  BufCap = 6
  Noise <- MCNoise
  MaxFrames = 3
  FirstSeq = 7
  FramesCap = 1
  AtLeast = 2
  Bound <- MCBound
CHECK_DEADLOCK FALSE
INVARIANTS
  ReadsWhatWasSent
  CountedOnce
  CollectedIsStream
PROPERTIES
  EveryFrameIsRead
