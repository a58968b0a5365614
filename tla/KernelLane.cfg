SPECIFICATION Spec
INVARIANTS WaitIsForThisJob NoLostLine NoMissedSleep
PROPERTIES R5WaitReturns A53WaitReturns IsRemoteCall
