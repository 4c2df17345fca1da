SPECIFICATION BothSpec
CONSTANTS
  FifoDepth = 2
  Target = 32
  Retries = 1
  TxSizes = {1, 2}
  RxSizes = {1, 3}
  Slow = FALSE
  MaxSkips = 1
INVARIANTS QueriedSuccessMeansDelivered
