CONSTANTS
  MAX_WINDOW = 18
  FETCH_BATCH_SIZE = 2
  Rates = {0, 1}
  Delays = {20}
  MaxSeq = 4
  MaxReports = 7
SPECIFICATION Spec
CHECK_DEADLOCK FALSE
INVARIANTS BurstBounded NakCounters RatesPositive
