\* Two clients, a ring of two cells for three queries, stale loads, an index
\* that needs the lock.
CONSTANTS
  Producer = p
  Producers = {p}
  Consumers = {c1, c2}
  NQueries = 3
  Items <- MCItems
  NoItem = NoItem
  Capacity = 2
  MaxEnqueues = 0
  RelaxedLoads = TRUE
  Mix = {"search", "update"}
  IndexName = "btree"
SPECIFICATION PSpec
SYMMETRY ClientSymmetry
INVARIANTS
  ExitOnlyWhenDrained
  EachQueryOnce
  IndexExclusion
  ProducerNeverBlocked
