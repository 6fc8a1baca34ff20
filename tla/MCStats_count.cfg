SPECIFICATION Spec
CONSTANTS
  INIT_SIZE = 2
  Code = {200, 404}
  MaxResponses = 2
  MaxNow = 1
  Wrap = 16
  Show = 2
  Cuts <- Halves
  Fine = 3
  FineCuts <- ThreeParts
  Whole = 4
  Interrupts = TRUE
INVARIANTS EveryResponseTimed
CHECK_DEADLOCK FALSE
