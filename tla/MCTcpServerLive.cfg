SPECIFICATION DrainSpec
CONSTANTS
  Conns = {c1}
  NoConn = NoConn
  Given = {"onconn", "ondata", "onclose"}
  InitialIdle = {0, 1}
  LuaTimeouts = {}
  MaxIdle = 1
  BufSize = 2
  MaxAvail = 2
  ReadBudget = 2
  MaxEchoes = 2
PROPERTIES TimerKicksOnlySilent GonePeersAreForgotten IdleConnsAreClosed BuffersAreFreed
