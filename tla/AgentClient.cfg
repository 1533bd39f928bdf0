SPECIFICATION Spec
CONSTANTS
  u1 = u1
  u2 = u2
  k1 = k1
  k2 = k2
  Openers = {g1}
  Uuids = {u1, u2}
  Odbs = {o1, o2, o3}
  ChanCap = 2
  Keys = {k1, k2}
  KeysOf <- KeySets
  None = None
SYMMETRY Symmetry
CHECK_DEADLOCK FALSE
INVARIANTS TypeOK PushedIsTracked PushedGoWithLock CloseTakesAll
