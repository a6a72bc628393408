SPECIFICATION Spec
CONSTANTS
  Workers = {w1, w2}
  Payouts = {1, 2}
  Requests = {r1}
  Net = 2
  Deltas = {0, 1}
  MaxFaults = 1
INVARIANTS
  PaidOnce
  SettledAsSent
CHECK_DEADLOCK FALSE
PROPERTIES
  DuesConserved
  StuckResolved
  ExpiredSettled
