SPECIFICATION FairSpec
CONSTANTS
  None = None
  Payments = {p1}
  WebhookIds = {w1}
  Tokens = {t1, t2}
  Handlers = {h1}
  Relays = {r1}
  Reconcilers = {c1}
  BatchSize = 1
  ClaimSize = 1
  ReconciliationMaxAttempts = 2
  MaxFaults = 2
CHECK_DEADLOCK FALSE
PROPERTIES
  ConfirmedResultIsStored
