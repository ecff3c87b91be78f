CONSTANTS
  SessionId = 0
  SeqSpace = 9
  BufSize = 3
  Isn = 7
  StreamLen = 3
  WriteLens = {1}
  Mss = 1
  Windows = {2}
  CongWindows = {2}
  RetryLimit = 1
  SegCap = 1
  AckCap = 1
  Depth = 1
SPECIFICATION Spec
INVARIANTS Armed
CHECK_DEADLOCK FALSE
