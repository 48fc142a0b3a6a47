\* Three senders racing with stops and recoveries over five generations:
\* open, stopped, open again, stopped, open.
SPECIFICATION FairSpec
CONSTANTS
  Sender = {s1, s2, s3}
  NoThread = NoThread
  MaxGeneration = 5
INVARIANTS
  TypeOK
  PermitAccounting
PROPERTIES
  ImplementsStopGate
  DrainsAfterStop
