SPECIFICATION Spec
CONSTANTS
  Jobs <- StaleJobs
  Depth = 1
  BufferWords = 7
INVARIANT ScaleOffered
CHECK_DEADLOCK FALSE
