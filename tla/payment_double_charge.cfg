SPECIFICATION Spec
CONSTANTS
  w1 = w1
  w2 = w2
  Workers = {w1, w2}
  Hosted = TRUE
  Total = 3
  Callout = 1
  Extra = {}
  RefundAmounts = {}
  Dashboard = {}
  MaxAmount = 3
  MaxDisputes = 0
  CommissionPct = 40
SYMMETRY Symmetry
CHECK_DEADLOCK FALSE
INVARIANT ChargedOnce
