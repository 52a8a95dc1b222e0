SPECIFICATION Spec
CONSTANTS
  Conns = {c1}
  NoConn = NoConn
  Given = {"onconn", "ondata", "onclose"}
  InitialIdle = {0}
  LuaTimeouts = {}
  MaxIdle = 0
  BufSize = 1
  MaxAvail = 1
  ReadBudget = 2
  MaxEchoes = 0
PROPERTIES OnlyGonePeersAreShutDown
