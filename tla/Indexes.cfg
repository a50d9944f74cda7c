\* Hash table: a request for three buckets gives four, of two slots each; four
\* keys of one bucket grow its chain to two full buckets.
\* B+tree: nodes of two keys and up to twenty keys: four levels, with
\* single-child inner nodes on two of them.
\* Adapters: two threads with three calls each, all on one key.
\* DPTree: three keys; a buffer of two that is half of all keys is merged.
CONSTANTS
  Keys = {1, 4, 8, 12, 16}
  Vals = {0, 5}
  Absent = Absent
  bucket_count = 3
  INLINE_SLOTS = 2
  FANOUT = 2
  MaxKeys = 20
  NewVals = {50}
  MaxWrites = 1
  NThreads = 2
  NKeys = 1
  Setups <- AdapterRuns
  MaxCalls = 3
  NLoad = 3
  MergeAt = 2
  MergeShare = 2
SPECIFICATION ISpec
INVARIANTS
  ITypeOK
  OneSlotPerKey
  ChainsPacked
  CountsExact
  LookupFinds
  ScanInOrder
PROPERTIES
  HashImplementsMap
  TreeImplementsMap
  AdaptersAtomic
  
CHECK_DEADLOCK FALSE
