SPECIFICATION Spec
\* The session ends: closed, killed, hung or at the bound of its rows.
CHECK_DEADLOCK FALSE
CONSTANTS
  MaxRows = 3
  MaxDepth = 1
INVARIANT FailuresLogAndContinue
