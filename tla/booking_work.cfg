SPECIFICATION Spec
CONSTANTS
  Workers = {w1, w2}
  Lines = {l1, l2}
  Items = {i1}
  Kinds = {"plain", "over"}
  Base = 1
  LinePrice = 1
  ItemPrice = 1
  MaxEdits = 3
SYMMETRY Symmetric
INVARIANTS
  OneOutcome
  CompletedJobWasDone
  CompletedIsInvoiced
  HoldWithinBill
PROPERTY
  CompletedStands
CHECK_DEADLOCK FALSE
