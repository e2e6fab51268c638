SPECIFICATION Spec
CONSTANTS
  NULL = NULL
  NumberBits = 3
  NumBits = 2
  NUL = "0"
  FOOBAR_LEN = 2
  Bytes <- MCBytes
  Foo <- MCFoo
  Texts <- MCTexts
  PAYLOAD = 38
  ADDR_LEN = 6
  HardLens = {14, 18}
  Rooms = {3}
  MaxAddrs = 2
  Workers = {w1, w2}
  Readers = {r1}
  Writers = {p1, p2}
INVARIANTS
  PrintedIsCurrent FreedOnce TaskletRan NumCounts ReadsInside AllOrNothing
  FramesFit GoneIsQuiet
PROPERTIES WriterGetsIn ExitReturns QuietRead DeviceCanGo
CHECK_DEADLOCK FALSE
