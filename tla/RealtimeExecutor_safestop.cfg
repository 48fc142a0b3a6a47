\* A safe stop after an operator has recovered the first inhibition.
SPECIFICATION Spec
CONSTANTS
  Caller = {c1, c2}
  NoCaller = NoCaller
  WarningTicks = 2
  StopTicks = 2
  Servos = 1
  MaxGeneration = 3
PROPERTY SafeStopClosesGate
CHECK_DEADLOCK FALSE
