SPECIFICATION Spec
CONSTANTS
  Apps = {a1, a2, a3}
  MaxEntries = 2
  Ttls = {0, 1, 3}
  MaxTime = 6
SYMMETRY Symmetry
INVARIANTS TypeOK CacheBounded SilentOnlyInQuietTime RepeatOnlyAfterEviction
