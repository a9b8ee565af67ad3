CONSTANTS
  Clients = {c1, c2}
  PeerKey <- SameKey
  Acceptors = {a1, a2}
  NoClient = NoClient
  ACCEPT_QUEUE_SIZE = 2
  Timers = FALSE
  MaxSockets = 2
  MaxMinute = 1
  MaxDups = 0
  MaxLosses = 0
SPECIFICATION FairSpec
CHECK_DEADLOCK FALSE
INVARIANTS NoLostAccept EndsAgree WorkersRun
PROPERTIES ConnectSucceeds EveryConnectionAccepted
