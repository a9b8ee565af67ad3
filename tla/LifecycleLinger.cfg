CONSTANTS
  MaxData = 1
  SND_BUF_SIZE = 1
  Readers = {"b"}
  Writers = {"a"}
  ClosesA = {"c1"}
  ClosesB = {}
  MaxEvents = 2
SPECIFICATION FairSpec
CHECK_DEADLOCK FALSE
PROPERTY CloseReturns
