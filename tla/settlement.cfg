SPECIFICATION Spec
CONSTANTS
  Totals = {0, 1, 3}
  Callout = 2
  MaxAttempts = 2
  MaxCrashes = 1
  CommissionPct = 40
INVARIANTS
  CompletedIsPaid
  CancelledIsReleased
PROPERTIES
  DispatchStarts
  NothingKeptHeld
CHECK_DEADLOCK FALSE
