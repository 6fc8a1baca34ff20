SPECIFICATION Spec
CONSTANTS
  INIT_SIZE = 2
  Code = {200, 404}
  MaxResponses = 3
  MaxNow = 5
  Wrap = 16
  Show = 2
  Cuts <- Halves
  Fine = 3
  FineCuts <- ThreeParts
  Whole = 4
  Interrupts = TRUE
INVARIANTS TypeOK WritesInBounds SpaceBounded CountsAgree SummaryIsTrue
CHECK_DEADLOCK FALSE
