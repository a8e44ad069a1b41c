SPECIFICATION FairSpec
CONSTANTS
  RegCount = 2
  AddrMod = 3
  Lanes = {0}
  Bytes = {0, 1}
  Zero = 0
INVARIANT WritesAgree
PROPERTIES FileSpec EveryAccessAnswered
