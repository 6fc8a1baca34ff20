CONSTANTS
  Connections = 2
  ReqLen = 2
  SndBuf = 1
  RxMax = 2
  MaxEvents = 1
  Wrap = 1
  MaxEarly = 0
  NULL = NULL
  Option = "none"
  Env <- Friendly
SPECIFICATION FairSpec
PROPERTIES
  EveryRequestEnds
  EveryConnectionSends
CHECK_DEADLOCK TRUE
