SPECIFICATION Spec
CONSTANTS
  Scenarios <- MixedRequests
  PsnMod = 16
  FirstPsn = 15
  RetryCount = 3
INVARIANT ReadDataPlaced
CHECK_DEADLOCK FALSE
