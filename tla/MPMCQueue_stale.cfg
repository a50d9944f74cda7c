\* Two producers, two consumers, loads that may be stale, a ring of two cells
\* that three enqueues wrap.
CONSTANTS
  Producers = {p1, p2}
  Consumers = {c1, c2}
  Items = {v1, v2}
  NoItem = NoItem
  Capacity = 2
  MaxEnqueues = 3
  RelaxedLoads = TRUE
SPECIFICATION QSpec
SYMMETRY Symmetry
INVARIANTS
  NoCellRace
  BoundedOccupancy
  FIFODelivery
  QInv
PROPERTIES
  FullMeansFull
  EmptyMeansEmpty
  SeqAdvances
  ImplementsFIFO
