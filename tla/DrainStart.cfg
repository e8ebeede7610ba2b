SPECIFICATION Spec
CHECK_DEADLOCK FALSE
CONSTANTS
  timer = timer
  cpu0 = cpu0
  cpu1 = cpu1
  Producers <- MCTimer
  Cap = 4
  GapSlack = 1
  Cutoffs = {2}
  MaxHead = 6
INVARIANT IntervalDrained
