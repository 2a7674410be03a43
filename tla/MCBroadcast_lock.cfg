SPECIFICATION Spec
CONSTANTS
  Broadcasts = {b1}
  Users = {u1}
  Workers = {w1, w2}
  NoWorker = NoWorker
  GuardBreaks = TRUE
  MaxCooldowns = 0
PROPERTY RecoverAlone
