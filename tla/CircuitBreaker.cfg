SPECIFICATION BreakerFairSpec
CONSTANTS
  Callers = {c1, c2, c3}
  FailureThreshold = 3
  SuccessThreshold = 2
  RecoveryTimeout = 2
  FailureBound = 5
INVARIANTS
  ClosedBelowThreshold
  TrialIsClean
PROPERTIES
  ImplementsProtocol
  EventuallyTried
