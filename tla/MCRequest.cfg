\* Up to three options and few URLs, or none and many, damaged ones too.
SPECIFICATION Spec
CONSTANTS
  HexLetter <- MCHexLetter
  Letter <- MCLetter
  Digit <- MCDigit
  DigitValue <- MCDigitValue
  MaxPort = 99
  UrlSize = 24
  FieldSize <- MCFieldSize
  Counts = {0, 1, 100}
  Ports = {0, 89, 100}
  DataSizes = {0, 3, 4}
  FileSizes <- MCFileSizes
  Headers <- MCHeaders
  Urls <- MCUrls
  MaxOptions = 3
  BODY_SIZE = 4
  BufferSize = 48
  IntMax = 127
INVARIANTS
  TypeOK
  FieldsAsWritten
  SpelledAsRead
  FieldsInside
  BodyIsDeclared
  BodyAsAsked
  LineAsAsked
  OneHost
  PortAsAsked
  LoopGetsWhatWasAsked
CHECK_DEADLOCK FALSE
