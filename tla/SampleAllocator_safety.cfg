SPECIFICATION FairSpec
CONSTANTS
  Threads = {1, 2, 3}
  MaxCount = 2
  MaxSignals = 2
  MaxReleasing = 2
INVARIANTS
  TypeOK
  AllAccounted
  AliveWhileUsed
  WaiterIsWoken
PROPERTIES
  DecommitEndsCalls
CHECK_DEADLOCK FALSE
