CONSTANTS
  MaxSessions = 2
  Byte = 1
  Peers <- OnePeer
  LowPorts <- Low
  HighPorts = {}
  Segments <- Syns
  None = None
  Depth = 1
SPECIFICATION Spec
INVARIANTS FreeIdsFree
