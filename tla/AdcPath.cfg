SPECIFICATION Spec
CONSTANTS
  Ratio = 3
  PulseLength = 3
  CoreMax = 2
  FullHold = 4
  FifoDepth = 1
  SampleMod = 4
  ReleaseMod = 2
INVARIANTS WordsAreConsecutive WordsAreFresh WordsContinue
