SPECIFICATION Spec
CONSTANTS
  RECV_BUFFER_SIZE = 2
  IntMax = 15
  ResponseMax = 9
INVARIANTS TypeOK RoomToReceive BufferIsResponse GrowthBounded
PROPERTIES OnlyClosedIsDropped
CHECK_DEADLOCK FALSE
