SPECIFICATION Spec
CONSTANTS
  Num = 2
  IdxMod = 4
  LastMod = 16
  StoreOrders = {"index_first", "element_first"}
  MaxPosts = 18
INVARIANTS
  SingleOwner
  AvailableMeansOffered
PROPERTIES
  ImplementsLoan
CHECK_DEADLOCK FALSE
