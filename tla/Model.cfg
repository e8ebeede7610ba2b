SPECIFICATION Spec
CONSTANTS
  Timeout = 1
  Warmup = 1
  Stride = 1
  Window = 0
  MaxNow = 4
  MaxQuestions = 4
  MaxRestarts = 1
  MaxConns = 2
INVARIANT TypeOK
INVARIANT AnswerIsForQuestion
INVARIANT ScoresApart
PROPERTY KeepsTheFit
PROPERTY CallReturns
CHECK_DEADLOCK FALSE
