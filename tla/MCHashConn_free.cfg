CONSTANTS
  c1 = c1
  c2 = c2
  c3 = c3
  c4 = c4
  c5 = c5
  NULL = NULL
  Fd <- MCFd
  Conn <- MCConn
  Connections = 4
  TableSize = 5
SPECIFICATION Spec
SYMMETRY Addresses
INVARIANT FreeIsDefined
CHECK_DEADLOCK FALSE
