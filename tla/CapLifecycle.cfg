SPECIFICATION LifeSpec
CONSTANTS
  Clients = {c1, c2}
  Kernel = Kernel
  Cpus = {h1}
  Buffers = {b1}
  Skbs = {s1}
  NULL = NULL
  ACK = ACK
  Kcapd = Kcapd
  NoOwner = NoOwner
  Times = {1}
  MAX_TAB_SIZE = 2
  CAP_MAXFREE = 1
  RcvBuf = 1
SYMMETRY Symmetry
INVARIANTS UsersCounted LivePortRegistered
CHECK_DEADLOCK FALSE
