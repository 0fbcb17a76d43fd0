SPECIFICATION Spec
CONSTANTS
  Orders = {o1}
  Instances = {i1, i2}
  Handlers <- OneRequest
  MaxHours = 1
  Requested = {1}
  o1 = o1
  o2 = o2
  i1 = i1
  i2 = i2
SYMMETRY Sym
INVARIANT CoveredByPayment
PROPERTY ImplementsLifecycle
CHECK_DEADLOCK FALSE
