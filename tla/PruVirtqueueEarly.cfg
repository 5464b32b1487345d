SPECIFICATION Spec
CONSTANTS
  Num = 4
  IdxMod = 8
  LastMod = 32
  StoreOrders = {"index_first", "element_first"}
  MaxPosts = 7
INVARIANTS
  NeverEarly
CHECK_DEADLOCK FALSE
