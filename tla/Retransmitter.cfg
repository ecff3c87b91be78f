SPECIFICATION Spec
CONSTANTS
  Qps = {1, 2}
  TableSize = 3
  Depth = 2
  PsnMod = 8
  Scripts <- SharedTable
INVARIANTS IndicesConserved LockFree
PROPERTIES Implements ReadyAgain
CHECK_DEADLOCK FALSE
