SPECIFICATION Spec
CONSTANTS
  Jobs <- SmallJobs
  Depth = 1
  BufferWords = 7
INVARIANTS TxPackets RxSegments ScaleOffered
PROPERTY Drains
CHECK_DEADLOCK FALSE
