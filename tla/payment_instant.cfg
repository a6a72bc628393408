SPECIFICATION Spec
CONSTANTS
  w1 = w1
  w2 = w2
  Workers = {w1, w2}
  Hosted = FALSE
  Total = 2
  Callout = 1
  Extra = {1}
  RefundAmounts = {1}
  Dashboard = {"capture"}
  MaxAmount = 3
  MaxDisputes = 0
  CommissionPct = 40
SYMMETRY Symmetry
CHECK_DEADLOCK FALSE
INVARIANTS
  ChargedOnce
  BooksMatchPsp
  VoidedNotCharged
PROPERTY AccountSpec
