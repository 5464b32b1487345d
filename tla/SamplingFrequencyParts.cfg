\* The same instance; the parts are wrong out of range.
SPECIFICATION Spec

CONSTANTS
  NsPerSec = 4000
  W32 = 4096
  W16 = 32
  Vals <- MCVals

INVARIANTS
  PartsOfPeriod
