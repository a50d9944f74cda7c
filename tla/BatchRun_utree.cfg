\* uTree, which declares thread_safe but not concurrent_safe.
CONSTANTS
  NQueries = 2
  NWorkers = 2
  IndexName = "utree"
  Mix = {"search", "update"}
SPECIFICATION BSpec
INVARIANTS
  WrappedUnlessConcurrentSafe
