SPECIFICATION StdioSpec
CONSTANTS
  BufLen = 3
  FifoLen = 1
  DefaultTimeout = 1
  InactiveMax = 1
  Counts = {1, 3}
  MaxWritten = 4
  MaxSent = 3
  ALT_MAX_FD = 6
INVARIANTS ExclusiveIsAlone
CHECK_DEADLOCK FALSE
