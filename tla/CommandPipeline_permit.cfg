\* A permit given back while its timed-out frame is still on the wire.
SPECIFICATION Spec
CONSTANTS
  N = 2
  BatchSize = 1
  MaxAge = 1
  MaxStep = 1
  NoCommand = NoCommand
  Never = Never
  MaxTime = 2
  MaxGeneration = 3
  MaxSequence = 2
PROPERTY PermitOutlivesTransmission
