\* -H and the URL may both give a Host header, or neither.
SPECIFICATION Spec
CONSTANTS
  HexLetter <- MCHexLetter
  Letter <- MCLetter
  Digit <- MCDigit
  DigitValue <- MCDigitValue
  MaxPort = 99
  UrlSize = 24
  FieldSize <- MCFieldSize
  Counts = {0, 1, 100}
  Ports = {0, 89, 100}
  DataSizes = {0, 3, 4}
  FileSizes <- MCFileSizes
  Headers <- MCHeaders
  Urls <- MCUrls
  MaxOptions = 2
  BODY_SIZE = 4
  BufferSize = 48
  IntMax = 127
INVARIANT OneHostAlways
CHECK_DEADLOCK FALSE
