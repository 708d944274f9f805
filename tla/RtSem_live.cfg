\* Two threads, timeouts of up to two ticks: every timed wait ends.
CONSTANTS
  t1 = t1
  t2 = t2
  t3 = t3
  NoThread = NoThread
  Thread <- MCThread2
  PriorityMax = 2
  SemValueMax = 2
  MaxTimeout = 2
SPECIFICATION FairSpec
PROPERTY TimedWaitEnds
