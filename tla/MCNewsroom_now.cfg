SPECIFICATION SpecMC
CONSTANTS
  Items = {1, 2}
  Undated = {}
  Bare = {}
  Similar <- SameStory
  Editions <- TwoEditions
  Starts <- BothStarts
  Skews = {0}
  Windows = {TRUE}
  KeepNews = 1
  KeepRows = 1
  DayLength = 2
  Moves = {"now","regen"}
  MaxTime = 1
  MaxChanges = 0
  MaxMembers = 1
  Runners = {d1}
PROPERTY NowIsCleared
CHECK_DEADLOCK FALSE
