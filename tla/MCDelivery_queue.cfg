SPECIFICATION Spec
CONSTANTS
  p1 = p1
  p2 = p2
  p3 = p3
  c1 = c1
  c2 = c2
  o1 = o1
  t1 = t1
  t2 = t2
  Posts = {p1, p2}
  Channels = {c1}
  Owners = {o1}
  Tasks = {t1}
  ChannelOf <- OneChannel
  OwnerOf <- OwnerOfAll
  Parts <- LongFirst
  Manual = {p2}
  Similar <- SameStory
  DailyLimit <- LimitThree
  MaxAttempts = 2
  SlowBookkeeping = FALSE
  MaxRows = 2
  MaxDay = 1
PROPERTIES QueueSendsApprovedOnly
