\* Three threads of different priorities, two mutexes.
CONSTANTS
  t1 = t1
  t2 = t2
  t3 = t3
  NoThread = NoThread
  NoMutex = NoMutex
  Thread <- MCThread
  Mutex = {m1, m2}
  InitPrio <- MCPrio
  HoldMax = 2
  Ceilings = {2}
  MaxEnds = 1
CHECK_DEADLOCK FALSE
SPECIFICATION Spec
INVARIANTS TypeOK HolderOwns TakenExact QueueExact OwnerInherits QueuedByPriority
PROPERTY ChainEnds
