CONSTANTS
  MaxSessions = 2
  RxEvents <- RxResets
  TimerEvents <- NoEvents
  AppEvents <- NoEvents
  Delay = 2
  Depth = 1
  Wrap = 3
SPECIFICATION Spec
INVARIANTS AckKeptAll
