SPECIFICATION Spec
CONSTANTS
  Jobs = {j1, j2}
  Commits = {1, 2}
  Hour = 4
  Gap = 2
  Horizons <- ReleasesOrTime
SYMMETRY JobSymmetry
INVARIANTS TypeOK SnapshotsAgree RecentIsFilter
PROPERTIES ReleasesGoForward
CHECK_DEADLOCK FALSE
