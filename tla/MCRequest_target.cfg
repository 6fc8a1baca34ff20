\* The command line of request.c:200 makes a request without target.
SPECIFICATION Spec
CONSTANTS
  HexLetter <- MCHexLetter
  Letter <- MCLetter
  Digit <- MCDigit
  DigitValue <- MCDigitValue
  MaxPort = 99
  UrlSize = 24
  FieldSize <- MCFieldSize
  Counts = {0, 1, 100}
  Ports = {0, 89, 100}
  DataSizes = {0, 3, 4}
  FileSizes <- MCFileSizes
  Headers <- MCHeaders
  Urls <- MCUrls
  MaxOptions = 2
  BODY_SIZE = 4
  BufferSize = 48
  IntMax = 127
INVARIANT TargetGiven
CHECK_DEADLOCK FALSE
