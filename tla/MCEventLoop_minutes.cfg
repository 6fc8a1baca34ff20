CONSTANTS
  Connections = 1
  ReqLen = 2
  SndBuf = 2
  RxMax = 2
  MaxEvents = 2
  Wrap = 2
  MaxEarly = 0
  NULL = NULL
  Option = "m"
  Env <- Friendly
SPECIFICATION FairSpec
PROPERTY DurationEndsRun
CHECK_DEADLOCK FALSE
