CONSTANTS
  MaxRows = 5
  MaxDepth = 2
  Files <- MCFiles
  Environs <- MCEnvirons
  OutputDirs = {"", "c"}
  Width = 4
  Malformed = Malformed
  Absent = Absent
  Null = Null
  Subs = {1, 2}
  Intervals = {2, 5}
  MaxTime = 6
  MaxOrdinal = 2
  MaxMissing = 2
SPECIFICATION MCSpec
INVARIANT MCTypeOK
INVARIANT LossReported
PROPERTY OutermostCommits
INVARIANT EnvironmentKept
INVARIANT ComponentsFollowConfig
INVARIANT ReleasedAtEnd
INVARIANT RefusalsExplained
INVARIANT ShownIffRead
\* A session ends, and the bound on the time stops the loop.
CHECK_DEADLOCK FALSE
