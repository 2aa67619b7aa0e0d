SPECIFICATION FairSpec
CONSTANTS
  None = None
  Calls = {c, d}
  Lookups = {l}
  Keys = {k}
  MaxAttempts = 2
  BaseDelay = 1
  MaxDelay = 1
  TotalTimeout = 2
  RetryAfters = {9}
  Lag = 1
CHECK_DEADLOCK FALSE
INVARIANTS
  TypeOK
  BudgetKept
  NoBlindRetry
PROPERTIES
  KeepsContract
  CallsEnd
