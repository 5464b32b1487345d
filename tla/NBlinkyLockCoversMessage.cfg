SPECIFICATION Spec
CONSTANTS
  Procs = {p1, p2}
  NoByte = NoByte
  Ring = 2
  Longest = 2
INVARIANTS
  LockCoversMessage
CHECK_DEADLOCK FALSE
