SPECIFICATION Spec
CONSTANTS
  NumBanks = 3
  BlocksPerMsg = 2
  NumBufs = 1
  Timings = {t1, t2}
  MaxQueue = 2
SYMMETRY TimingSymmetry
INVARIANTS
  BufferConservation
  ConfigAgreement
  TimingPreserved
  SyncedRead
  SyncedWrite
  FullRingServed
