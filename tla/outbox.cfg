SPECIFICATION Spec
CONSTANTS
  Instances = {i1, i2}
  MaxBookings = 2
  MaxEvents = 2
  BatchSize = 2
  MaxAttempts = 2
  MaxCrashes = 1
INVARIANTS
  DoneMeansRan
  OneOwner
PROPERTIES
  RetryOnLaterTick
  EventuallySettled
  DeliverySpec
CHECK_DEADLOCK FALSE
