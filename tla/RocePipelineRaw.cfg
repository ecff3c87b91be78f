SPECIFICATION Spec
CONSTANTS
  Jobs <- SharedRaw
  Depth = 2
  PmtuWords = 3
INVARIANT TxTogether
CHECK_DEADLOCK FALSE
