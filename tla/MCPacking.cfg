SPECIFICATION PackingSpec
CONSTANTS
  M = 1610612736
  IntMin <- MCIntMin
  IntMax = 3
  UintMax = 7
  Int64Min <- MCInt64Min
  Values <- MCValues
  ArgLists <- MCArgLists
  Lens <- MCLens
  MaxUses = 3
INVARIANTS PackedIsWhole RoundTrip LoneTableIsRightOrRefused NothingOutside MemInv
PROPERTIES DoublingGoesOn
CHECK_DEADLOCK FALSE
