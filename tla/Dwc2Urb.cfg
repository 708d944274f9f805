\* A control and a bulk URB use two channels, one of which may be leaked.
CONSTANTS
  ctl = ctl
  bulk = bulk
  c1 = c1
  c2 = c2
  NoUrb = NoUrb
  NoChan = NoChan
  Urb <- MCUrb
  Chan <- MCChan
  Control = {ctl}
  Oversize = {bulk}
CHECK_DEADLOCK FALSE
SPECIFICATION Spec
SYMMETRY MCSymmetry
INVARIANTS TypeOK LinkExact NoLostWakeup NoStaleWakeup WaiterKeepsChan
PROPERTY ReturnsUnlinked
