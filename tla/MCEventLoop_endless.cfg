CONSTANTS
  Connections = 1
  ReqLen = 2
  SndBuf = 2
  RxMax = 2
  MaxEvents = 1
  Wrap = 1
  MaxEarly = 0
  NULL = NULL
  Option = "t"
  Env <- Endless
SPECIFICATION FairSpec
PROPERTY DurationEndsRun
CHECK_DEADLOCK FALSE
