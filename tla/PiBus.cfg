SPECIFICATION Spec
CONSTANTS
  Nodes = {n1, n2, n3}
  Matching = {n1, n2}
  NoNode = NoNode
INVARIANTS
  PopulatedOnce
  DriverMeansProbed
  OopsTraced
CHECK_DEADLOCK FALSE
