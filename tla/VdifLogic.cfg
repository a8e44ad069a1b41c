SPECIFICATION FairSpec
CONSTANTS
  Frame_length = 5
  NumberMod = 2
  SecondMod = 2
  Samples = {0}
INVARIANTS TypeOK Aligned
PROPERTIES StreamSpec PopsArePayload FramesKeepEnding
