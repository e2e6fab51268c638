SPECIFICATION Spec
CONSTANTS
  Apps = {a1, a2}
  CommandLines <- MCCommandLines
  Byte = {"8", "x"}
  Number <- MCNumber
  IP_LEN = 2
  NLMSG_ALIGNTO = 1
  NULL = NULL
INVARIANTS HandledAsAsked OneAtATime
PROPERTY AppsEnd
