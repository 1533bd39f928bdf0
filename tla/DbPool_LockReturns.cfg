SPECIFICATION FairSpec
CONSTANTS
  Callers = {c1, c2}
  Loop = Loop
  Uuids = {u1}
  Odbs = {o1}
  Pool = Pool
  ChanCap = 1
  None = None
PROPERTY LockReturns
CHECK_DEADLOCK FALSE
