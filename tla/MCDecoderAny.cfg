SPECIFICATION DecSpec
CONSTANTS
  Streams <- UpToTwo
  CutAt = {"end", "inHeader", "afterHeader", "inBody"}
INVARIANTS KeptAreLatest ValuesOnce OneCallPerPacket
PROPERTIES WholeCallsReturn
CHECK_DEADLOCK FALSE
