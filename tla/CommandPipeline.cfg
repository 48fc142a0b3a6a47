\* Two servos, one read per round, commands that live one unit of time, three
\* generations (open, stopped, open) and two commands.
SPECIFICATION FairSpec
CONSTANTS
  N = 2
  BatchSize = 1
  MaxAge = 1
  MaxStep = 1
  NoCommand = NoCommand
  Never = Never
  MaxTime = 2
  MaxGeneration = 3
  MaxSequence = 2
INVARIANTS
  TypeOK
  BusExclusive
  TornBatchOrder
PROPERTIES
  FaultIsFinal
  StaleNeedsRecovery
  NoMotionAfterGap
  PermitsAreReturned
  PollingIsFair
