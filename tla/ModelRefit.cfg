SPECIFICATION Spec
CONSTANTS
  Timeout = 1
  Warmup = 1
  Stride = 2
  Window = 0
  MaxNow = 5
  MaxQuestions = 5
  MaxRestarts = 0
  MaxConns = 3
INVARIANT OneFit
CHECK_DEADLOCK FALSE
