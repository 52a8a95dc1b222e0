SPECIFICATION ObjSpec
CONSTANTS
  Loop = Loop
  Servers = {s1}
  Timers = {t1}
  Conns = {c1, c2}
  Decoders = {d1, d2}
  Func = Func
  None = None
  MaxSlots = 5
  Script = {"failed create"}
SYMMETRY ConnAndDecoderSymmetry
INVARIANTS ObjInv RefsHold LinkedMemoryIsAlive RegistryIsAccounted
PROPERTY OnlyMidCloseAborts
CHECK_DEADLOCK FALSE
