CONSTANTS
  MAX_NUMBER = 31
  SND_BUF_SIZE = 2
  FETCH_BATCH_SIZE = 2
  RCV_BUF_SIZE = 1
  U32_MODULUS = 64
  ISN = 3
  PACKETS_BETWEEN_LIGHT_ACK = 2
  ACK_WINDOW_SIZE = 2
  EXP_LIMIT = 3
  CongestionWindows = {2}
  MultiThread = FALSE
  Adversarial = FALSE
  MaxBlocks = 3
  MaxChunks = 2
  MaxPktCount = 4
  MaxAcks = 6
  MaxLosses = 2
SPECIFICATION FairSpec
CHECK_DEADLOCK FALSE
INVARIANTS LinkKept StreamIntegrity
PROPERTIES ImplementsStream EveryBlockDelivered
