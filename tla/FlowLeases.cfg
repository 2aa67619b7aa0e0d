SPECIFICATION Spec
CONSTANTS
  None = None
  Payments = {p1}
  WebhookIds = {w1, w2}
  Tokens = {t1, t2, t3}
  Handlers = {h1}
  Relays = {r1}
  Reconcilers = {c1, c2}
  BatchSize = 1
  ClaimSize = 1
  ReconciliationMaxAttempts = 2
  MaxFaults = 2
SYMMETRY Interchangeable
CHECK_DEADLOCK FALSE
INVARIANTS
  OneWebhookEvent
PROPERTIES
  KeepsLeases
