CONSTANTS
  SeqSpace = 10
  BufSize = 5
  Short = 5
  Starts <- BothBuilds
  StreamLen = 5
  Segments <- FixedSegments
  Depth = 2
SPECIFICATION LiveSpec
INVARIANTS TypeOK StreamDelivered PointerOrder Decided
PROPERTY WholeStream
