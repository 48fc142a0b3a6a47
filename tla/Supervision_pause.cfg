\* Nothing fails.
SPECIFICATION FairSpec
CONSTANT
  Faults = FALSE
INVARIANT
  LatchNeedsFault
CHECK_DEADLOCK FALSE
