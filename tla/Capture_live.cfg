SPECIFICATION FairSpec
CONSTANTS
  Clients = {c1, c2}
  Kernel = Kernel
  Cpus = {h1}
  Buffers = {b1}
  Skbs = {s1, s2}
  NULL = NULL
  ACK = ACK
  Kcapd = Kcapd
  NoOwner = NoOwner
  Times = {1}
  MAX_TAB_SIZE = 1
  CAP_MAXFREE = 1
  RcvBuf = 1
PROPERTIES QueuedIsTaken DeadPortCleared CommandsReturn
CHECK_DEADLOCK FALSE
