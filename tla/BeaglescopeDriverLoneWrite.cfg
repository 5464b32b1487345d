SPECIFICATION Spec

CONSTANTS
  w1 = w1
  w2 = w2
  f1 = f1
  f2 = f2
  Readers = {}
  BufferUsers = {}
  Writers = {w1, w2}
  Freqs = {f1, f2}
  Presets = {"unset"}
  Overlap = TRUE
  Faults = {}
  NumBufs = 1
  MaxQueue = 2
  BlockLen = 2
  FifoLen = 1
  MaxSamples = 2

INVARIANTS
  LoneWrite
