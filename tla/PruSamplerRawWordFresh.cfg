SPECIFICATION Spec
CONSTANTS
  Samples = 5
  NumBanks = 3
  Delays = {1, 3, 5, 7}
  TempMod = 16
  MaxCount = 63
INVARIANTS
  RawWordFresh
