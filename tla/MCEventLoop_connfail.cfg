CONSTANTS
  Connections = 2
  ReqLen = 2
  SndBuf = 1
  RxMax = 2
  MaxEvents = 2
  Wrap = 2
  MaxEarly = 0
  NULL = NULL
  Option = "none"
  Env <- Failing
SPECIFICATION Spec
INVARIANT AllConnectionsWatched
CHECK_DEADLOCK FALSE
