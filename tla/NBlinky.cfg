SPECIFICATION FairSpec
CONSTANTS
  Procs = {p1, p2}
  NoByte = NoByte
  Ring = 2
  Longest = 2
INVARIANTS
  LockHasHolder
  OwnerAlone
  OneUnderWay
  OopsExplained
PROPERTIES
  LockReleased
CHECK_DEADLOCK FALSE
