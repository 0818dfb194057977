SPECIFICATION FairSpec
CONSTANTS
  Worker = {w1, w2, w3}
  Task = {t1, t2, t3}
  MaxSpurious = 1
  Main = Main
  None = None
CHECK_DEADLOCK FALSE
INVARIANTS TypeOK NoLostWakeup NoSleepWhileJoining
PROPERTIES KeepsPromise EnqueuedIsRun DestructorReturns
