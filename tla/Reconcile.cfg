SPECIFICATION Spec
CONSTANTS
  None = None
  Payments = {p1, p2}
  Workers = {v, w}
  Tokens = {t1, t2, t3, t4}
  BatchSize = 2
  StaleAfter = 2
  LeaseTime = 3
  MaxAttempts = 2
  StepTime = 1
  MaxTime = 7
SYMMETRY Interchangeable
CHECK_DEADLOCK FALSE
INVARIANTS
  TypeOK
  ReviewAfterGrace
  OneWorkerPerPayment
