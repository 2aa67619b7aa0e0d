SPECIFICATION FairSpec
CONSTANTS
  None = None
  Callers = {a, b, c, d}
  FailureThreshold = 3
  RecoveryTimeout = 2
INVARIANTS
  TypeOK
  OneProbe
  OpensAfterConsecutiveFailures
PROPERTIES
  LateCallsChangeNothing
  RefusalEnds
