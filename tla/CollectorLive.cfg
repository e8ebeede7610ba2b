SPECIFICATION CollectorSpec
\* The loop really stops after Shutdown, and the clock at its bound.
CHECK_DEADLOCK FALSE
CONSTANTS
  SysPrimary <- MCNoHooks
  SysFallback <- MCNoHooks
  VfsPrimary <- MCNoHooks
  VfsFallback <- MCNoHooks
  OptionalHooks = {"offcpu_schedule"}
  OffCpuHook = "offcpu_schedule"
  EndDebounces = {1}
  PostWindows = {1, 2}
  Configs <- MCTwoConfigs
  MaxOrdinal = 1
  ManualRequests = TRUE
  MaxClock = 4
  MaxQuiet = 1
INVARIANT CollectorTypeOK
INVARIANT IntervalFollowsPhase
PROPERTY RequestsNotLost
PROPERTY DeepEnds
PROPERTY StopServed
