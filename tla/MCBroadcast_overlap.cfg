SPECIFICATION Spec
CONSTANTS
  Broadcasts = {b1}
  Users = {u1, u2}
  Workers = {w1, w2}
  NoWorker = NoWorker
  GuardBreaks = TRUE
  MaxCooldowns = 1
SYMMETRY Symmetry
INVARIANTS NoSecondCopy ReportIsTrue
