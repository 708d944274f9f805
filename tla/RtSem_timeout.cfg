\* The thread timer fires for a thread that was resumed before.
CONSTANTS
  t1 = t1
  t2 = t2
  t3 = t3
  NoThread = NoThread
  Thread <- MCThread2
  PriorityMax = 2
  SemValueMax = 2
  MaxTimeout = 1
SPECIFICATION Spec
PROPERTY TimeoutFindsSuspended
