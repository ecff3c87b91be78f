SPECIFICATION Spec
CONSTANTS
  Jobs <- SmallJobs
  Me <- MyIp
  Gateway <- GatewayIp
  Broadcast <- Everyone
  Depth = 1
  BufferWords = 6
INVARIANTS RxRouted TxFramed
PROPERTY Served
CHECK_DEADLOCK FALSE
