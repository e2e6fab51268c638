SPECIFICATION RateSpec
CONSTANTS
  Limits = {0, 1, 2, 3}
  HZ = 3
  JiffyBits = 3
  MaxBurst = 6
INVARIANT BurstBounded
