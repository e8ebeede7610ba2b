SPECIFICATION Spec
CONSTANTS
  Procs = {"a", "b", "c"}
  Tids = {"a1", "a2", "b1", "c1"}
  ProcOf <- MCProcOf
  PinnedSets = {{}, {"c1"}}
  Configs <- MCConfigs
  EffCpus = 2
  RingSlots = 9
  MaxEvals = 4
INVARIANT TypeOK
INVARIANT BudgetRespected
INVARIANT RecorderNeverEmpty
PROPERTY LeaveNeedsHold
