SPECIFICATION Spec
CONSTANTS
  NumBanks = 3
  BlocksPerMsg = 2
  NumBufs = 2
  Timings = {t1}
  MaxQueue = 1
INVARIANTS
  FreshBlock
