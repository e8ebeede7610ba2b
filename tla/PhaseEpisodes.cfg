SPECIFICATION Spec
\* The loop really stops after Shutdown, and the clock at its bound.
CHECK_DEADLOCK FALSE
CONSTANTS
  SysPrimary <- MCSysPrimary
  SysFallback <- MCSysFallback
  VfsPrimary <- MCNoHooks
  VfsFallback <- MCNoHooks
  OptionalHooks = {"offcpu_schedule"}
  OffCpuHook = "offcpu_schedule"
  MaxOrdinal = 2
  PostWindows = {1, 2}
  EndDebounces = {1, 2}
  ManualRequests = TRUE
  MaxClock = 3
  MaxQuiet = 2
INVARIANT CollectorFollowsPhase
INVARIANT EpisodesSummarised
PROPERTY DeadlineFixed
PROPERTY ClosedWindowIsQuiet
PROPERTY ImplementsEpisodeLog
