SPECIFICATION Spec
CONSTANTS
  Jobs <- InvalidRead
  Depth = 2
  PmtuWords = 3
INVARIANT RxTogether
CHECK_DEADLOCK FALSE
