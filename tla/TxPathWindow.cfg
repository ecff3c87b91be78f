CONSTANTS
  SessionId = 0
  SeqSpace = 9
  BufSize = 3
  Isn = 8
  StreamLen = 2
  WriteLens = {1}
  Mss = 1
  Windows = {1, 2}
  CongWindows = {2}
  RetryLimit = 1
  SegCap = 1
  AckCap = 2
  Depth = 1
SPECIFICATION Spec
INVARIANTS InWindow
CHECK_DEADLOCK FALSE
