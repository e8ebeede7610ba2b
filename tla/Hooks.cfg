CONSTANTS
  Tids = {1}
  Cpus = {c1, c2}
  MaxTasks = 2
  MaxEpisodes = 2
  Requests = {r1, r2}
  Locks = {"a", "b"}
  MaxUses = 2
  MaxNesting = 2
  OomCap = 4
  OomLimit = 5
  MaxKills = 10
  Keys = {1, 2, 3}
  ReaderCpus = {1, 2}
  MaxIterations = 4
  Byte = 2
  MaxCount = 2
  MaxChanges = 3
  Pids = {1, 2, 3}
SPECIFICATION MCSpec
INVARIANT MCTypeOK
INVARIANT LeaversForgotten
 
INVARIANT NewestKillsKept
INVARIANT WholeIteration
INVARIANT RowsWhole
PROPERTY MeasuredWithin
\* The bounds on uses, kills, changes and episodes stop the environment.
CHECK_DEADLOCK FALSE
