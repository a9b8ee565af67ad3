CONSTANTS
  Clients = {c1}
  PeerKey <- SameKey
  Acceptors = {a1}
  NoClient = NoClient
  ACCEPT_QUEUE_SIZE = 1
  Timers = TRUE
  MaxSockets = 3
  MaxMinute = 2
  MaxDups = 2
  MaxLosses = 1
SPECIFICATION Spec
CHECK_DEADLOCK FALSE
INVARIANTS TypeOK AcceptedOnce OneLiveSocket
