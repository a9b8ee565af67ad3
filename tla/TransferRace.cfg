CONSTANTS
  MAX_NUMBER = 31
  SND_BUF_SIZE = 3
  FETCH_BATCH_SIZE = 2
  RCV_BUF_SIZE = 2
  U32_MODULUS = 64
  ISN = 3
  PACKETS_BETWEEN_LIGHT_ACK = 2
  ACK_WINDOW_SIZE = 2
  EXP_LIMIT = 1
  CongestionWindows = {0, 3}
  MultiThread = TRUE
  Adversarial = TRUE
  MaxBlocks = 3
  MaxChunks = 2
  MaxPktCount = 2
  MaxAcks = 2
  MaxLosses = 0
SPECIFICATION Spec
CHECK_DEADLOCK FALSE
INVARIANT StreamIntegrity
