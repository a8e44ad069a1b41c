SPECIFICATION Spec
CONSTANTS
  Frame_length = 5
  NumberMod = 3
  SecondMod = 2
  FifoDepth = 2
  WordTags = 4
  FramesPerSecond = 2
INVARIANT NumberRestartsOnlyAtNewSecond
