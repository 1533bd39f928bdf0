SPECIFICATION Spec
CONSTANTS
  Conns = {c1, c2}
  Ctls = {k1}
  Tokens = {t1, t2}
  Secrets = {s1, s2, s3, s4}
  None = None
  Torn = Torn
SYMMETRY Symmetry
CHECK_DEADLOCK FALSE
CONSTRAINT Uncontended
INVARIANTS TypeOK UsedStaysUnlockable AllOrNothing
PROPERTY KeepsDatabase
