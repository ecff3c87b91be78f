CONSTANTS
  SeqSpace = 16
  BufSize = 8
  Short = 8
  Starts <- RingOnly
  StreamLen = 2
  Segments <- JoinedSegments
  Depth = 2
SPECIFICATION Spec
INVARIANTS Decided
