CONSTANTS
  SessionId = 1
  SeqSpace = 8
  BufSize = 4
  Isn = 7
  StreamLen = 3
  WriteLens = {3}
  Mss = 2
  Windows = {3}
  CongWindows = {3}
  RetryLimit = 1
  SegCap = 1
  AckCap = 1
  Depth = 1
SPECIFICATION Spec
INVARIANTS PeerStream
CHECK_DEADLOCK FALSE
