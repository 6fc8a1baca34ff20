\* The inductive invariant of HttpParser_proofs on the instance of MCHttpParser.cfg.
SPECIFICATION Spec
CONSTANTS
  Digit <- MCDigit
  HexDigit <- MCHexDigit
  Value <- MCValue
  MaxLength = 63
  MaxHeader = 28
  Noise <- MCNoise
  MaxStray = 1
  Responses <- MCResponses
INVARIANT FrameInv
