SPECIFICATION Spec
CONSTANTS
  Joints = 2
  Rounds = 2
  Period = 1
  MaxAge = 1
  Horizon = 3
INVARIANTS
  TypeOK
  ReportIsWhole
PROPERTIES
  GridAccounted
  ObservationSound
  RunEnds
