\* A managed node that is restarted once, two epochs, two commands per epoch.
SPECIFICATION FairSpec
CONSTANTS
  Managed = TRUE
  TTL = 0
  Ahead = 2
  NoTarget = NoTarget
  NoEpoch = NoEpoch
  MaxSession = 2
  MaxEpoch = 2
  MaxSequence = 1
  MaxWire = 1
INVARIANTS
  TypeOK
  BridgeFollowsSession
PROPERTIES
  MotionNeedsArming
  ImplementsCommandAuthority
  DeadSupervisorDisarms
  IsTheManagedNode
CHECK_DEADLOCK FALSE
