CONSTANTS
  Keys = {1, 2}
  ReaderCpus = {1, 2}
  MaxIterations = 4
  Byte = 2
  MaxCount = 2
  MaxChanges = 3
SPECIFICATION ReaderSpec
INVARIANT SumIsTotal
CHECK_DEADLOCK FALSE
