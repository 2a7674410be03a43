SPECIFICATION Spec
CONSTANTS
  Jobs = {j1, j2}
  Commits = {1, 2}
  Hour = 4
  Gap = 2
  Horizons <- ReleasesOrTime
SYMMETRY JobSymmetry
INVARIANTS RestartBudget FencedStaysDown OneVersion OnlyApprovedCode
PROPERTY StatusIsTrue
CHECK_DEADLOCK FALSE
