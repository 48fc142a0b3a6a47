\* Everything that can fail does.
SPECIFICATION FairSpec
CONSTANT
  Faults = TRUE
INVARIANTS
  TypeOK
  ModeTellsTheHand
PROPERTIES
  StopEndsMotion
  PauseSettles
CHECK_DEADLOCK FALSE
