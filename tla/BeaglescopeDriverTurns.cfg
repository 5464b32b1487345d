\* A message left in vring1 until the next doorbell can stop everyone.
CHECK_DEADLOCK FALSE

SPECIFICATION FairSpec

CONSTANTS
  r1 = r1
  b1 = b1
  f1 = f1
  w1 = w1
  Readers = {r1}
  BufferUsers = {b1}
  Writers = {w1}
  Freqs = {f1}
  Presets = {"unset"}
  Overlap = FALSE
  Faults = {}
  NumBufs = 1
  MaxQueue = 3
  BlockLen = 1
  FifoLen = 1
  MaxSamples = 1

INVARIANTS
  HungEarly
PROPERTIES
  StopsAfterDisable
