SPECIFICATION Spec
CONSTANTS
  Conns = {c1, c2}
  NoConn = NoConn
  Given = {"onconn", "ondata", "onclose"}
  InitialIdle = {0}
  LuaTimeouts = {}
  MaxIdle = 0
  BufSize = 1
  MaxAvail = 1
  ReadBudget = 1
  MaxEchoes = 1
SYMMETRY ConnSymmetry
INVARIANTS IInv PointersAreAnchored StreamAssertions OwedWorkIsWatched NothingUnsentIsClosed
PROPERTIES LifecycleOrder
