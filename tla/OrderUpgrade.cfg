SPECIFICATION Spec
CONSTANTS
  Orders = {o1, o2}
  Instances = {i1}
  Handlers <- OneRequest
  MaxHours = 1
  Requested = {1}
  o1 = o1
  o2 = o2
  i1 = i1
  i2 = i2
SYMMETRY Sym
INVARIANTS TypeOK CoveredByPayment
PROPERTIES EndedForGood NoRebirth RunningHasSpace ImplementsLifecycle
CHECK_DEADLOCK FALSE
