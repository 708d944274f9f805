\* A transfer that completes while its timeout is handled leaves its channel allocated.
CONSTANTS
  ctl = ctl
  bulk = bulk
  c1 = c1
  c2 = c2
  NoUrb = NoUrb
  NoChan = NoChan
  Urb = {ctl}
  Chan = {c1}
  Control = {ctl}
  Oversize = {}
CHECK_DEADLOCK FALSE
SPECIFICATION Spec
INVARIANT NoChanLost
