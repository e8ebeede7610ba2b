SPECIFICATION Spec
\* The recorder fills up to its bound, and the collector may end in BASE.
CHECK_DEADLOCK FALSE
CONSTANTS
  timer = timer
  cpu0 = cpu0
  cpu1 = cpu1
  Producers <- MCTwoCpus
  Cap = 4
  GapSlack = 1
  Cutoffs = {2}
  MaxHead = 6
SYMMETRY MCSymmetry
INVARIANT TypeOK
INVARIANT WholeUnlessLapped
INVARIANT NothingElseLost
INVARIANT SlackProtects
