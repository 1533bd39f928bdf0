SPECIFICATION Spec
CONSTANTS
  Callers = {c1, c2}
  Uuids = {u1, u2}
  Cells = {k1, k2}
  Items = {i1, i2}
  Values = {v1, v2}
  Empty = Empty
  Garbage = Garbage
  Sids = {s1}
  Prompts = {p1}
  MaxRead = 2
  MaxCalls = 2
  None = None
SYMMETRY Symmetry
CHECK_DEADLOCK FALSE
INVARIANTS TypeOK ServedSecret NothingAfterLock ConfirmedUnlessOff PromptReport
