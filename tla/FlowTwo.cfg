SPECIFICATION Spec
CONSTANTS
  None = None
  Payments = {p1, p2}
  WebhookIds = {w1, w2}
  Tokens = {t1, t2, t3}
  Handlers = {h1}
  Relays = {r1, r2}
  Reconcilers = {c1}
  BatchSize = 2
  ClaimSize = 2
  ReconciliationMaxAttempts = 1
  MaxFaults = 0
SYMMETRY Interchangeable
CHECK_DEADLOCK FALSE
INVARIANTS
  NothingLost
  DuplicatesNeedFaults
PROPERTIES
  KeepsContract
