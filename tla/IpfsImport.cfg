SPECIFICATION Spec
CONSTANTS
  Users = {u1, u2}
  Cids = {c1, c2}
  Areas = {a1, a2}
  DefaultArea = a1
  MaxImports = 1
INVARIANT RecordsWereAsked
CHECK_DEADLOCK FALSE
