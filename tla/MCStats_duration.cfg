SPECIFICATION Spec
CONSTANTS
  INIT_SIZE = 2
  Code = {200, 404}
  MaxResponses = 1
  MaxNow = 9
  Wrap = 8
  Show = 2
  Cuts <- Halves
  Fine = 3
  FineCuts <- ThreeParts
  Whole = 4
  Interrupts = FALSE
INVARIANTS DurationIsElapsed
CHECK_DEADLOCK FALSE
