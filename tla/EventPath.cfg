CONSTANTS
  MaxSessions = 2
  RxEvents <- RxMixed
  TimerEvents <- TimerRt
  AppEvents <- AppTx
  Delay = 2
  Depth = 1
  Wrap = 3
SPECIFICATION LiveSpec
INVARIANTS TypeOK GateMeansIdle AckKept
PROPERTIES AckSent
