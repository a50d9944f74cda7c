\* Batch: three workers, five queries: a shard of one, a shard of one, a shard
\* of three.  Poisson: two clients, backpressure and lock contention.
CONSTANTS
  NQueries = 5
  NWorkers = 3
  IndexName = "btree"
  Mix = {"search", "update"}
  Producer = p
  Consumers = {c1, c2}
  NoItem = NoItem
SPECIFICATION ModesSpec
INVARIANTS
  StartTogether
  BatchEachQueryOnce
  BatchIndexExclusion
PROPERTIES
  BatchRunTerminates
  PoissonRunTerminates
