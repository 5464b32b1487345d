SPECIFICATION FairSpec

CONSTANTS
  r1 = r1
  r2 = r2
  w1 = w1
  f1 = f1
  Readers = {r1, r2}
  BufferUsers = {}
  Writers = {w1}
  Freqs = {f1}
  Presets = {"unset"}
  Overlap = TRUE
  Faults = {"signal"}
  NumBufs = 1
  MaxQueue = 1
  BlockLen = 1
  FifoLen = 1
  MaxSamples = 1

INVARIANTS
  RawReadIsRaw

PROPERTIES
  RawReadReturns
