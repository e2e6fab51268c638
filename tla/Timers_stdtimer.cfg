SPECIFICATION TimersSpec
CONSTANT NumBits = 2
INVARIANT SilentIsUnused
CHECK_DEADLOCK FALSE
