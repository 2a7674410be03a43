SPECIFICATION Spec
CONSTANTS
  Admins = {m1, m2}
  Checks = {health}
  Reminder = 3
  MaxAlertTime = 10
  a1 = a1
  a2 = a2
  own = own
  main = main
  backup = backup
  Pool = {1}
  Service = service
  Askers = {a1, a2}
  OwnKey <- Owned
  None = none
  Models <- Chain2
  Slots = 1
  Width = 1
  QuotaPause = 2
  TroublePause = 1
  LongestPause = 2
  LongRest = 1
  ShortRest = 1
  MainRest = 1
  CallLimit = 1
  Deadline = 2
  Answers = {"text", "refusal", "quota", "transport"}
  MaxAsks = 2
  Switched = {1}
  MaxFailed = 1
  Channels = {1, 2, 3}
  Places = 2
  Senders = {s1, s2, s3}
  Chats = {k1, k2, k3}
  Spacing = 1
  ChatGap = 2
  TableSize = 2
  MaxBatch = 2
  Groups = {q1, q2, q3}
  Deliveries = {q1}
  Officers = {f1, f2}
  Capacity = 2
  PerMessage = 2
  Repeat = 2
  MaxEvents = 5
  SignTabs = {t1, t2}
  SigningKeys = {g1, g2}
  Nobody = nobody
  KeysLife = 2
  FetchGap = 1
  MaxChallenges = 2
SYMMETRY TabSymmetry
INVARIANTS ToldInTime RoundRobin EveryEventCounted OneSessionPerChallenge
PROPERTIES PausesKept PaceKept
CHECK_DEADLOCK FALSE
