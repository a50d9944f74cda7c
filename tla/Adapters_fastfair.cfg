CONSTANTS
  NThreads = 2
  NKeys = 2
  Setups <- FastFairBatch
  MaxCalls = 2
SPECIFICATION ASpec
INVARIANTS
  LookupNeverMisses
CHECK_DEADLOCK FALSE
