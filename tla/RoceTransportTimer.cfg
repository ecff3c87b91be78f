SPECIFICATION Spec
CONSTANTS
  Scenarios <- LostWrite
  PsnMod = 16
  FirstPsn = 15
  RetryCount = 3
INVARIANT TimerCovers
CHECK_DEADLOCK FALSE
