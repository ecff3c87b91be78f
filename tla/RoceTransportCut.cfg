SPECIFICATION Spec
CONSTANTS
  Scenarios <- ReadAndMessage
  PsnMod = 16
  FirstPsn = 15
  RetryCount = 3
INVARIANT WritesPlaced
CHECK_DEADLOCK FALSE
