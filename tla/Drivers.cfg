SPECIFICATION Spec
CONSTANTS
  NULL = NULL
  NONE = NONE
  N = 3
  NUL = 0
  Set = 1
  Get = 2
  LOVER = 2
  IOCTL_CHAR128 = 4
  MaxData = 5
  NDebug = 2
  NJprobe = 2
  MaxCount = 2
  Addrs = {a1, a2, a3}
  Cpus = {c1, c2}
  Tasks = {t1, t2, k1}
  Kthreads = {k1}
  Instances = {x1, x2}
INVARIANTS
  OncePerEvent StableHear OutIsOut OnlyRefusedLeak GetIsSet GoneIsUnplanted
  ArraysWhole OwnDuration GoneIsQuiet
PROPERTY TakenByOwner
CHECK_DEADLOCK FALSE
