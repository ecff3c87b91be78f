CONSTANTS
  MaxSessions = 1
  Byte = 1
  Peers <- OnePeer
  LowPorts <- Low
  HighPorts <- Upper
  Segments <- Mixed
  None = None
  Depth = 1
SPECIFICATION Spec
INVARIANTS TypeOK IdsConserved TableOwned
