SPECIFICATION Spec
CONSTANTS
  Scenarios <- Tolerated
  PsnMod = 16
  FirstPsn = 15
  RetryCount = 3
INVARIANTS WritesInOrder ReadsPlaced NothingForgotten CompletionsEarned
PROPERTY Completes
CHECK_DEADLOCK FALSE
