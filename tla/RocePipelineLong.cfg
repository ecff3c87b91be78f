SPECIFICATION Spec
CONSTANTS
  Jobs <- LongResponse
  Depth = 2
  PmtuWords = 3
PROPERTY AllThrough
CHECK_DEADLOCK FALSE
