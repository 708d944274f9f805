\* Three threads and the interrupt, two places, two contents.
CONSTANTS
  t1 = t1
  t2 = t2
  t3 = t3
  NoThread = NoThread
  Thread <- MCThread
  Flag = "PRIO"
  MaxMsgs = 2
  Msg = {x, y}
  NoMsg = NoMsg
CHECK_DEADLOCK FALSE
SPECIFICATION Spec
INVARIANTS TypeOK SlotsExact NoStrandedSender NoStrandedReceiver
PROPERTY ImplementsQueue
