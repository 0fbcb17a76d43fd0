SPECIFICATION FairSpec
CONSTANTS
  Orders = {o1}
  Instances = {i1}
  Handlers <- TwoRequests
  MaxHours = 2
  Requested = {2}
  o1 = o1
  o2 = o2
  i1 = i1
  i2 = i2
PROPERTIES ChainExpiryEndsOrder RenewalResolves PaidIsServed
CHECK_DEADLOCK FALSE
