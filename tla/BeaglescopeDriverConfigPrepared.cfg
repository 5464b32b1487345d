SPECIFICATION Spec

CONSTANTS
  r1 = r1
  w1 = w1
  f1 = f1
  f2 = f2
  Readers = {r1}
  BufferUsers = {}
  Writers = {w1}
  Freqs = {f1, f2}
  Presets = {"unset"}
  Overlap = TRUE
  Faults = {}
  NumBufs = 1
  MaxQueue = 2
  BlockLen = 2
  FifoLen = 1
  MaxSamples = 2

INVARIANTS
  ConfigPrepared
