SPECIFICATION FairSpec
CONSTANTS
  Frame_length = 5
  NumberMod = 3
  SecondMod = 2
  FifoDepth = 2
  WordTags = 4
  FramesPerSecond = 3
INVARIANTS NewSecondStartsAtZero NumbersNeverSkip PayloadContinuous
PROPERTIES OfferStands PpsReachesStream
