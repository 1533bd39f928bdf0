SPECIFICATION Spec
CONSTANTS
  Threads = {t1, t2}
  Handles = {h1, h2}
  Edits = {e1, e2}
  ExtEdits = {x1}
  Inodes = {i1, i2, i3}
  None = None
SYMMETRY Symmetry
CONSTRAINT Bounds
INVARIANTS TypeOK NoLostEdit DiskAlwaysReadable PlainWhenUnlocked
  MemoryMatchesFingerprint FingerprintCurrent WriteLockDiscipline
CHECK_DEADLOCK FALSE
