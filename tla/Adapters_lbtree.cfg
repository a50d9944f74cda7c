CONSTANTS
  NThreads = 2
  NKeys = 2
  Setups <- LBTreeBatch
  MaxCalls = 2
SPECIFICATION ASpec
INVARIANTS
  UpdateOverwrites
CHECK_DEADLOCK FALSE
