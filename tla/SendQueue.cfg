CONSTANTS
  Sockets = {s1, s2}
  Callers = {c1, c2}
  TOKIO_CHANNEL_CAPACITY = 1
  MaxTime = 1
  MaxCalls = 3
SPECIFICATION FairSpec
INVARIANTS NoneStranded NoMissedWakeup NodesBounded
PROPERTY EveryBatchSent
CHECK_DEADLOCK FALSE
