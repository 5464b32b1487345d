\* Beside the runs: more buffers, and the refinements with both timings.
SPECIFICATION Spec
CONSTANTS
  NumBanks = 3
  BlocksPerMsg = 2
  NumBufs = 2
  Timings = {t1, t2}
  MaxQueue = 1
SYMMETRY TimingSymmetry
INVARIANTS
  BufferConservation
  ConfigAgreement
  TimingPreserved
  SyncedRead
  SyncedWrite
PROPERTIES
  ImplementsContract
  RunsProgram
