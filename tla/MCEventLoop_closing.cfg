CONSTANTS
  Connections = 1
  ReqLen = 2
  SndBuf = 2
  RxMax = 2
  MaxEvents = 2
  Wrap = 2
  MaxEarly = 0
  NULL = NULL
  Option = "none"
  Env <- Closing
SPECIFICATION Spec
PROPERTY AllResponsesCounted
CHECK_DEADLOCK FALSE
