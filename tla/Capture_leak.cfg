SPECIFICATION Spec
CONSTANTS
  Clients = {c1, c2}
  Kernel = Kernel
  Cpus = {h1, h2}
  Buffers = {b1, b2}
  Skbs = {s1, s2}
  NULL = NULL
  ACK = ACK
  Kcapd = Kcapd
  NoOwner = NoOwner
  Times = {1, 2}
  MAX_TAB_SIZE = 1
  CAP_MAXFREE = 1
  RcvBuf = 1
SYMMETRY Symmetry
INVARIANT UnsentIsHeld
CHECK_DEADLOCK FALSE
