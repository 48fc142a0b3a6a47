\* An unmanaged node that is never restarted.
SPECIFICATION FairSpec
CONSTANTS
  Managed = FALSE
  TTL = 0
  Ahead = 2
  NoTarget = NoTarget
  NoEpoch = NoEpoch
  MaxSession = 1
  MaxEpoch = 2
  MaxSequence = 1
  MaxWire = 1
PROPERTY
  DeadControllerStops
CHECK_DEADLOCK FALSE
