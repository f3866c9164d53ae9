CONSTANTS
  Threads = {t1, t2, t3, t4, t5}
  Value = 1
  MaxValue = 3
SPECIFICATION Spec
INVARIANTS WaitersAccounted NoStrandedWakeup
PROPERTY ImplementsCounting
