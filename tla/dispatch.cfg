SPECIFICATION Spec
CONSTANTS
  Workers = {w1, w2}
  Techs = {t1, t2}
  Near = {t1}
  InitialRadius = 1
  RadiusStep = 1
  MaxRadius = 3
  MayStall = TRUE
  MaxMishaps = 1
CHECK_DEADLOCK FALSE
INVARIANTS
  OneWinner
  ExhaustSparesAccepted
PROPERTY DispatchEnds
