\* Every correct response of a set, split anywhere, and any bytes at all.
SPECIFICATION Spec
CONSTANTS
  Digit <- MCDigit
  HexDigit <- MCHexDigit
  Value <- MCValue
  MaxLength = 63
  MaxHeader = 28
  Noise <- MCNoise
  MaxStray = 1
  Responses <- MCResponses
INVARIANTS
  TypeOK
  FramesAsSent
  ReportsAsSent
  AssertionsHold
  StatusInMap
PROPERTY LengthGrows
