SPECIFICATION Spec

CONSTANTS
  r1 = r1
  f1 = f1
  Readers = {r1}
  BufferUsers = {}
  Writers = {}
  Freqs = {f1}
  Presets = {f1}
  Overlap = TRUE
  Faults = {}
  NumBufs = 1
  MaxQueue = 2
  BlockLen = 2
  FifoLen = 1
  MaxSamples = 2

INVARIANTS
  RawReadAnswered
