\* Two joints, three calls.
SPECIFICATION FairSpec
CONSTANTS
  Dof = 2
  Urdf = {u1, u2}
  MaxStep = 1
  MaxTime = 2
  Calls = 3
INVARIANTS
  TypeOK
  StepsAreWhole
  JointsAgree
PROPERTY
  BridgeEnds
CHECK_DEADLOCK FALSE
