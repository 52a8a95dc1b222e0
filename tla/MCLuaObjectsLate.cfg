SPECIFICATION ObjSpec
CONSTANTS
  Loop = Loop
  Servers = {s1}
  Timers = {}
  Conns = {c1, c2}
  Decoders = {d1}
  Func = Func
  None = None
  MaxSlots = 6
  Script = {"late decoder"}
INVARIANTS HandlersGetTheirConn
CHECK_DEADLOCK FALSE
