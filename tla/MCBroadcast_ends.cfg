SPECIFICATION FairSpec
CONSTANTS
  Broadcasts = {b1, b2}
  Users = {u1}
  Workers = {w1}
  NoWorker = NoWorker
  GuardBreaks = FALSE
  MaxCooldowns = 1
INVARIANT OneRunning
PROPERTY BroadcastEnds
