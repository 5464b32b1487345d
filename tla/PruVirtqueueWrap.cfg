SPECIFICATION Spec
CONSTANTS
  Num = 2
  IdxMod = 4
  LastMod = 16
  StoreOrders = {"element_first"}
  MaxPosts = 6
INVARIANTS
  NeverStray
CHECK_DEADLOCK FALSE
