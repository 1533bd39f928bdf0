SPECIFICATION Spec
CONSTANTS
  Callers = {c1, c2}
  Loop = Loop
  Uuids = {u1}
  Odbs = {o1, o2}
  Pool = Pool
  ChanCap = 1
  None = None
SYMMETRY Symmetry
INVARIANTS TypeOK LockedIsWiped WipeMeetsExtractionOnly
PROPERTY ImplementsPoolEvents
CHECK_DEADLOCK FALSE
