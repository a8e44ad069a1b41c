SPECIFICATION PpsSpec
CONSTANTS
  SecondMod = 3
  period = 11
  duty_cycle = 3
  FrameSamples = 5
INVARIANTS EveryPulseCountsOnce SecondsAreEven FramesInASecond
