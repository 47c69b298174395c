SPECIFICATION FairSpecAll
CONSTANTS
  Workers = {w1, w2}
  Admins = {}
  NumMaxRetries = 2
  Window = 1
  MaxKills = 1
  Alone = {p}
  Devices = {d1, d2}
INVARIANT LastConnectionIsLatest
PROPERTIES
  EventuallyDeactivated
  ParkedIsTaken
  AlarmSettles
  WindowsClose
CHECK_DEADLOCK FALSE
