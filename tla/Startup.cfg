SPECIFICATION FairSpec
CONSTANTS
  SecondMod = 3
  RESET_RX_CNTR_LIMIT = 2
  MaxStarts = 3
INVARIANT CountsFromTheAnswer
PROPERTIES LoadsTheAnswer LoadIsReleased ConsoleOpens ReceiverRecovers
