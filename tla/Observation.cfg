SPECIFICATION FairSpec
CONSTANTS
  FrameWords = 3
  SkidWords = 2
  FramesPerSecond = 1
  Seconds = {0, 3, 4}
  MaxRuns = 2
INVARIANTS SendsNextFrame ClearLosesNothing NeverRefused
PROPERTIES HostSpec ObservationEnds
CHECK_DEADLOCK FALSE
