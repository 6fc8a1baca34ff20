CONSTANTS
  c1 = c1
  c2 = c2
  c3 = c3
  c4 = c4
  c5 = c5
  NULL = NULL
  Fd <- MCFd
  Conn <- MCConn
  Connections = 2
  TableSize = 2
SPECIFICATION Spec
SYMMETRY Addresses
INVARIANT UnknownIsNull
CHECK_DEADLOCK FALSE
