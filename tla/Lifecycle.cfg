CONSTANTS
  MaxData = 1
  SND_BUF_SIZE = 1
  Readers = {"b"}
  Writers = {"a"}
  ClosesA = {"c1", "c2"}
  ClosesB = {"c1"}
  MaxEvents = 2
SPECIFICATION FairSpec
CHECK_DEADLOCK FALSE
INVARIANTS TypeOK GracefulClose NoFalseEnd NoLostReader
PROPERTIES ReaderTold SocketCollected PeerLearns AckWaitersGoOn
