CONSTANTS
  Connections = 1
  ReqLen = 2
  SndBuf = 1
  RxMax = 2
  MaxEvents = 2
  Wrap = 1
  MaxEarly = 0
  NULL = NULL
  Option = "none"
  Env <- Mixed
SPECIFICATION Spec
INVARIANT NothingDropped
CHECK_DEADLOCK FALSE
