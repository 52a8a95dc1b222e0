SPECIFICATION HeapSpec
CONSTANTS
  Nodes = {x1, x2, x3, x4, x5, x6}
  NoNode = NoNode
  Times = {0, 1, 2}
  FirstCap = 2
SYMMETRY NodeSymmetry
INVARIANTS HeapInv BackPointers HeapOrder TopIsOldest
PROPERTIES LoopsMoveOn IdleSetKept
