SPECIFICATION Spec
CONSTANTS
  Orders = {o1}
  Instances = {i1}
  Handlers <- OneRequest
  MaxHours = 2
  Requested = {2}
  o1 = o1
  o2 = o2
  i1 = i1
  i2 = i2
SYMMETRY Sym
PROPERTY TimedOutRenewalUnpaid
CHECK_DEADLOCK FALSE
