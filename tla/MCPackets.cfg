CONSTANTS
  MAX_NUMBER = 511
  HALF = 32
  MSS = 16
  CHUNKS = 2
  Samples <- MCSamples
  Gaps <- MCGaps
  MaxPackets = 2
SPECIFICATION Spec
CHECK_DEADLOCK FALSE
INVARIANTS ReadAsSent NakNamesGap
