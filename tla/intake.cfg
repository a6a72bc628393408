SPECIFICATION Spec
CONSTANTS
  Workers = {w1, w2}
  Keys = {k1, k2}
  Customers = {c1, c2}
  Referred = c1
  Referrer = c2
  Price = 3
  Discount = 1
  Credit = 2
  MaxRedemptions = 1
  PerUserLimit = 1
  MaxBookings = 2
  MaxFaults = 1
INVARIANTS
  WalletNeverNegative
  PromoWithinCaps
  ReferralSettled
  OneBookingPerKey
CHECK_DEADLOCK FALSE
