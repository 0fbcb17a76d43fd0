SPECIFICATION Spec
CONSTANTS
  Requests = {r1, r2}
  Accounts = {a1, a2}
  Hours = 3
  DayOf <- ShortDays
  hourlyQuota = 5
  maxUserQuota = 2
SYMMETRY Sym
INVARIANTS TypeOK OverdraftBounded ClaimsBounded TransfersCharged
CHECK_DEADLOCK FALSE
