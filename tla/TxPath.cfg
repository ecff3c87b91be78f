CONSTANTS
  SessionId = 0
  SeqSpace = 8
  BufSize = 4
  Isn = 7
  StreamLen = 6
  WriteLens = {3}
  Mss = 2
  Windows = {3}
  CongWindows = {3}
  RetryLimit = 1
  SegCap = 1
  AckCap = 2
  Depth = 1
SPECIFICATION Spec
INVARIANTS TypeOK PeerStream PointerOrder
CHECK_DEADLOCK FALSE
