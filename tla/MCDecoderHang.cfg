SPECIFICATION DecSpec
CONSTANTS
  Streams <- UpToTwo
  CutAt = {"end", "inBody"}
PROPERTIES EveryCallReturns
CHECK_DEADLOCK FALSE
