\* A message left in vring1 until the next doorbell can stop everyone.
CHECK_DEADLOCK FALSE

SPECIFICATION Spec

CONSTANTS
  r1 = r1
  b1 = b1
  f1 = f1
  Readers = {r1}
  BufferUsers = {b1}
  Writers = {}
  Freqs = {f1}
  Presets = {f1}
  Overlap = FALSE
  Faults = {}
  NumBufs = 1
  MaxQueue = 2
  BlockLen = 2
  FifoLen = 1
  MaxSamples = 2

INVARIANTS
  RawReadIsRaw
