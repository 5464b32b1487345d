SPECIFICATION FairSpec
CONSTANTS
  NumBanks = 3
  BlocksPerMsg = 2
  NumBufs = 1
  Timings = {t1}
  MaxQueue = 2
PROPERTIES
  EveryMessageReceived
