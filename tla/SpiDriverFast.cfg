SPECIFICATION DriverSpec
CONSTANTS
  TransferEdges = 148
  Fastest = 3
  Slowest = 16
  Addresses = {255}
  Datas = {0, 1}
  MaxCalls = 4
INVARIANT EnableIsSeen
