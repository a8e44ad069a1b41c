SPECIFICATION DriverFairSpec
CONSTANTS
  TransferEdges = 148
  Fastest = 19
  Slowest = 20
  Addresses = {1, 2}
  Datas = {0, 1}
  MaxCalls = 3
INVARIANTS EnableIsSeen ReadReturnsItsAnswer
PROPERTIES SentAsAsked CallsReturn
