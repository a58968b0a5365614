SPECIFICATION QueueSpec
CONSTANTS
  Threads = {t1, t2, t3, t4, t5}
  NoThread = none
  MaxWaiting = 3
INVARIANTS QueueTypeOK MutualExclusion LoanHasLender
PROPERTIES NoOvertaking RequestServed LoanEnds
