\* Three threads, both queueing disciplines: safety.
CONSTANTS
  t1 = t1
  t2 = t2
  t3 = t3
  NoThread = NoThread
  Thread <- MCThread3
  PriorityMax = 2
  SemValueMax = 2
  MaxTimeout = 1
SPECIFICATION Spec
SYMMETRY MCSymmetry
INVARIANTS TypeOK SuspListExact NoStrandedWaiter WaiterWakeable
PROPERTIES ReleaseAddsPermit OrderKept
