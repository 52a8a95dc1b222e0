SPECIFICATION Spec
CONSTANTS
  Conns = {c1, c2}
  NoConn = NoConn
  Given = {"onconn", "ondata", "onclose"}
  InitialIdle = {0}
  LuaTimeouts = {}
  MaxIdle = 0
  BufSize = 2
  MaxAvail = 1
  ReadBudget = 2
  MaxEchoes = 1
INVARIANTS EveryBufferHasAnOwner
