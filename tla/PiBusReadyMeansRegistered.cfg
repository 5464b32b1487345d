SPECIFICATION Spec
CONSTANTS
  Nodes = {n1, n2, n3}
  Matching = {n1, n2}
  NoNode = NoNode
INVARIANTS
  ReadyMeansRegistered
CHECK_DEADLOCK FALSE
