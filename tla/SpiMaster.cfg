SPECIFICATION FairSpec
CONSTANTS
  slaves = 2
  cmd_width = 2
  d_width = 2
  MaxDiv = 2
INVARIANT NoContention
PROPERTIES TransferSpec StableWhenSampled TakesItsTime BusyEnds
