SPECIFICATION Spec
CONSTANTS
  Libs = {l1, l2}
  Bell = {l1, l2}
  NoLib = none
  BatchWords = 1
  SeqMod = 2
  Tags = 3
  MaxLate = 0
  MayFault = FALSE
INVARIANTS TypeOK NoLostRing NoLostDoorbell RingOwned
PROPERTIES IsRemoteCall
