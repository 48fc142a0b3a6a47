\* Two application threads, batches of one servo, two critical cycles to a safe stop.
SPECIFICATION FairSpec
CONSTANTS
  Caller = {c1, c2}
  NoCaller = NoCaller
  WarningTicks = 2
  StopTicks = 2
  Servos = 1
  MaxGeneration = 3
INVARIANTS
  TypeOK
  HandleOwnedOnce
PROPERTIES
  NoMotionAfterInhibit
  StoppingEndsThreads
  StopReturns
CHECK_DEADLOCK FALSE
