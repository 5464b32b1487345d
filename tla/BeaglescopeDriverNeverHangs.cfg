\* A message left in vring1 until the next doorbell can stop everyone.
CHECK_DEADLOCK FALSE

SPECIFICATION Spec

CONSTANTS
  b1 = b1
  f1 = f1
  Readers = {}
  BufferUsers = {b1}
  Writers = {}
  Freqs = {f1}
  Presets = {"unset"}
  Overlap = FALSE
  Faults = {}
  NumBufs = 1
  MaxQueue = 2
  BlockLen = 2
  FifoLen = 1
  MaxSamples = 2

INVARIANTS
  NeverHangs
