SPECIFICATION WorkSpec
CONSTANTS
  Workers = {w1, w2}
INVARIANT WorkLiveWhenSet
CHECK_DEADLOCK FALSE
