SPECIFICATION Spec
CONSTANTS
  Items = {1, 2, 3}
  Undated = {}
  Bare = {}
  Similar = {}
  Editions <- OneEdition
  Starts <- PacedOnly
  Skews = {0, 1}
  Windows = {TRUE}
  KeepNews = 0
  KeepRows = 0
  DayLength = 2
  Moves = {"withdraw", "source"}
  MaxTime = 2
  MaxChanges = 1
  Readers = {r1, r2}
  NoItem = NoItem
  Hands = {h1, h2}
  MaxPending = 1
  MaxDrafts = 1
  MaxVersions = 3
  MaxPhotos = 1
  MaxForwards = 1
  MaxSwitches = 2
SYMMETRY DeskSymmetry
INVARIANTS NothingLost OneDraftPerForward
PROPERTIES NoEditLost SentAsAgreed
CHECK_DEADLOCK FALSE
