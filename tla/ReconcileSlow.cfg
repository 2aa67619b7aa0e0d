SPECIFICATION Spec
CONSTANTS
  None = None
  Payments = {p1}
  Workers = {v, w}
  Tokens = {t1, t2, t3}
  BatchSize = 1
  StaleAfter = 2
  LeaseTime = 2
  MaxAttempts = 2
  StepTime = 3
  MaxTime = 9
CHECK_DEADLOCK FALSE
INVARIANTS
  ReviewAfterGrace
PROPERTIES
  LeaseKeepsOthersOut
  KeepsLeases
