SPECIFICATION Spec
CHECK_DEADLOCK FALSE
CONSTANTS
  QMax = 2
  MaxPackets = 3
  MaxKeys = 1
  MaxUnread = 3
  MaySlow = TRUE
  MayFail = TRUE
INVARIANTS StaleAtMostOne MutedWhilePlaying
PROPERTIES LeavesWhenQuiet ModeTakesEffect SessionReleased
