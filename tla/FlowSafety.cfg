SPECIFICATION Spec
CONSTANTS
  None = None
  Payments = {p1}
  WebhookIds = {w1, w2}
  Tokens = {t1, t2}
  Handlers = {h1, h2}
  Relays = {r1}
  Reconcilers = {c1}
  BatchSize = 1
  ClaimSize = 1
  ReconciliationMaxAttempts = 2
  MaxFaults = 2
SYMMETRY Interchangeable
CHECK_DEADLOCK FALSE
INVARIANTS
  TypeOK
  NothingLost
  OneWebhookEvent
  NoticesAgree
  WebhookNeverRefused
  NobodyForgotten
PROPERTIES
  SettledRowsStay
  KeepsContract
