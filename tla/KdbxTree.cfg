SPECIFICATION Spec
CONSTANTS
  Slots = {1, 2, 3}
  Cost <- Costs
  Titles = {"git", "github"}
  Attrs <- AttrSets
  PrivateKeys = {k1, k2}
  DefaultItems = 2
  DefaultSize = 9
  MaxOps = 3
  MaxFailures = 1
SYMMETRY Symmetry
CHECK_DEADLOCK FALSE
INVARIANTS TypeOK ShownAsMeant ReplaceIsSearch StoredIsFound AttachmentsKeptUnlessShifted GeneratedIsServed
PROPERTIES HistoryComplete
