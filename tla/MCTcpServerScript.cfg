SPECIFICATION Spec
CONSTANTS
  Conns = {c1}
  NoConn = NoConn
  Given = {"ondata"}
  InitialIdle = {0, 1}
  LuaTimeouts = {0, 1}
  MaxIdle = 1
  BufSize = 2
  MaxAvail = 2
  ReadBudget = 2
  MaxEchoes = 1
INVARIANTS ServedIsWatched
PROPERTIES LifecycleKept
