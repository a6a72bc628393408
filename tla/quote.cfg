SPECIFICATION QuoteSpec
CONSTANTS
  Callers = {w1, w2}
  Lines = {l1, l2}
  OffCatalogue = {l2}
  Prices = {1, 2}
  Firm = {3}
  Threshold = 3
  Reductions = {1}
  MaxCreated = 2
INVARIANTS
  ReviewGate
  SerialQuote
CHECK_DEADLOCK FALSE
