SPECIFICATION TimerSpec
CONSTANTS
  Callers = {c1}
  Loop = Loop
  Uuids = {u1}
  Odbs = {o1}
  Pool = Pool
  ChanCap = 1
  None = None
PROPERTY InactivityLocks
CHECK_DEADLOCK FALSE
