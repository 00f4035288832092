SPECIFICATION MCSpec
CONSTANTS
  Old = {o1, o2}
  Typed = {t1}
  PaidOf <- Paid
  FeeOf <- Fees
  Requests = {r1, r2}
  Amounts = {3}
  Worth = 6
  NoEntry = none
  Dues = {2}
  NoDue = unset
  LastDay = 5
  View = 3
  Near = 1
  Every = 2
  MaxOutage = 1
  Editors = {x1, x2}
  TakenOver = TRUE
  Workers = {w1}
  NoSweep = idle
  MaxCalls = 2
SYMMETRY Interchangeable
INVARIANTS ReceivedIsWhatStands ClaimCoversLine NoRoundMissed
CHECK_DEADLOCK FALSE
