\* Three slots and nine frames: the indices go round the ring three times.
SPECIFICATION Spec
CONSTANTS
  Capacity = 3
  Torn = Torn
  MaxFrames = 9
INVARIANTS
  TypeOK
  NoSharedSlot
PROPERTY
  ImplementsTelemetryLog
