SPECIFICATION Spec
CONSTANTS
  Jobs <- MixedJobs
  Depth = 2
  PmtuWords = 3
INVARIANTS RxInStep TxInStep
PROPERTY Drains
CHECK_DEADLOCK FALSE
