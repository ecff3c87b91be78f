\* One session, the case of most contention, with the FIFO depth of the code;
\* StateTableProofs proves the safety properties for any set of sessions.
CONSTANTS
  Sessions = {s1}
  None = None
  Depth = 2
SPECIFICATION LiveSpec
INVARIANTS TypeOK LockSafe
PROPERTIES Atomic RxServed TxServed
