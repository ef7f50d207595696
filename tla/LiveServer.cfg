SPECIFICATION ServerSpec
CONSTANTS
  Games = {alpha, beta}
  Default = default
  Workers = {w1, w2}
  Absent = Absent
  MaxGames = 2
  QueueCap = 1
  Idle = 2
  Slowest = 1
  LocalRefresh = FALSE
  Connections = 3
  MaxNow = 3
PROPERTIES TabKeepsItsMatch CapExceededOnlyByOpenTabs EveryStreamServed SessionsReleased
CHECK_DEADLOCK FALSE
