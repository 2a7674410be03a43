SPECIFICATION SpecMC
CONSTANTS
  Items = {1, 2}
  Undated = {}
  Bare = {1}
  Similar <- SameStory
  Editions <- TwoEditions
  Starts <- BothStarts
  Skews = {0}
  Windows = {TRUE, FALSE}
  KeepNews = 1
  KeepRows = 1
  DayLength = 2
  Moves = {"edition","now","revise","regen","autopost","pause","mode","approve","reject"}
  MaxTime = 3
  MaxChanges = 2
  MaxMembers = 1
  Runners = {d1}
INVARIANTS AiredOnce ClearedForQueue TextFits OneDigestADay
PROPERTY NowIsClearedOrAsked
CHECK_DEADLOCK FALSE
