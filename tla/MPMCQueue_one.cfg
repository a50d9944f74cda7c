\* A ring of one cell: 1 is a power of two, and --queue-capacity 1 asks for it.
CONSTANTS
  Producers = {p1}
  Consumers = {c1}
  Items = {v1}
  NoItem = NoItem
  Capacity = 1
  MaxEnqueues = 3
  RelaxedLoads = FALSE
SPECIFICATION QSpec
INVARIANTS
  BoundedOccupancy
