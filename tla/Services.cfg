SPECIFICATION Spec
CONSTANTS
  u1 = u1
  u2 = u2
  p1 = p1
  p2 = p2
  k1 = k1
  k2 = k2
  Openers = {g1}
  Uuids = {u1, u2}
  Odbs = {o1, o2, o3}
  ChanCap = 2
  Paths = {p1, p2}
  Keys = {k1, k2}
  PathOf <- Path
  KeysOf <- KeySets
  None = None
SYMMETRY Symmetry
CONSTRAINT OneDisturbed
CHECK_DEADLOCK FALSE
INVARIANTS TypeOK KeysGoWithLock KeysServed CollectionsFollowPool
