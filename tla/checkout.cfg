SPECIFICATION Spec
CONSTANTS
  Workers = {w1, w2, w3}
  Sessions = {s1, s2}
CHECK_DEADLOCK FALSE
INVARIANTS
  PromotedOnce
  HoldBehindRow
PROPERTY UnpaidResolved
