\* A half word of 5 bits; the counts underflow above a 25th of NsPerSec.
SPECIFICATION Spec

CONSTANTS
  NsPerSec = 4000
  W32 = 4096
  W16 = 32
  Vals <- MCVals

INVARIANTS
  CountsOdd
  PeriodKept

PROPERTIES
  HigherIsFaster
