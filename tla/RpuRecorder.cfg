SPECIFICATION Spec
CONSTANTS
  conv = conv
  pool = pool
  Lanes <- MCLanes
  RegWords <- MCRegWords
  Written <- MCWritten
  Others <- MCOthers
  Values = {0, 1}
  Reset = 0
  RingWords = 15
  MayHang = TRUE
INVARIANTS RunsAsWritten RingFits
