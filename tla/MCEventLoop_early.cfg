CONSTANTS
  Connections = 1
  ReqLen = 2
  SndBuf = 1
  RxMax = 2
  MaxEvents = 2
  Wrap = 2
  MaxEarly = 1
  NULL = NULL
  Option = "none"
  Env <- Early
SPECIFICATION Spec
INVARIANT IntervalsAreOfRequests
CHECK_DEADLOCK FALSE
