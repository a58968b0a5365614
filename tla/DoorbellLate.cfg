SPECIFICATION Spec
CHECK_DEADLOCK FALSE
CONSTANTS
  Libs = {l1}
  Bell = {l1}
  NoLib = none
  BatchWords = 2
  SeqMod = 4
  Tags = 2
  MaxLate = 2
  MayFault = TRUE
INVARIANTS ReplayedAsRecorded
PROPERTIES FlushReturns
