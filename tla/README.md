# TLA+ model of AuxIndexBench

AuxIndexBench (`src/`) measures an index that is called from a larger program:
threads run a stream of operations against an index and touch other memory
between two operations. Its numbers are only worth something if no query is lost
or counted twice, if threads do not corrupt the index or the queue, and if the
queue does not distort the arrival process. These are what the modules here
state and check with TLC. Except for what must eventually happen, and for the
counterexamples, TLAPS also proves them for every size of the system.

## The system

| Part | Source | State | Operations | What is hard about it |
|---|---|---|---|---|
| Ring buffer | `mpmc_queue.hpp` | cells with a sequence number and a value, `enq_pos_`, `deq_pos_` | `try_enqueue`, `try_dequeue`, `approx_size` | every atomic access interleaves; relaxed loads; laps; full and empty seen half way |
| Poisson mode | `bench.cpp` `run_poisson`, `client_thread` | queue, `done`, `produced`, `consumed`, histograms, `idx_lock` | arrive, retry, dequeue, lock, index call, record, shutdown, join | shutdown against late dequeues, backpressure, searches that skip the lock |
| Batch mode | `bench.cpp` `run_batch`, `batch_worker` | start gate, shards, histograms, `idx_lock` | spawn, gate, sample, lock, index call, record, join | the gate, uneven shards, writes without a lock |
| Lock policy | `bench.cpp:862-868`, `:512-513`, adapters | `thread_safe()`, `concurrent_safe()`, `std::shared_mutex` | take and drop the lock | two flags, three documents about them |
| Built-in indexes | `index.hpp`, `hash_index.hpp` | nodes, buckets | bulk load, lookup, update, remove, scan | single-child inner nodes, chains, tombstones |
| External adapters | `adapters/`, `third_party/` | a vendored tree | as above | update as delete and insert, or as update or insert; inserts that keep an old value; tombstones |
| Statistics | `histogram.hpp` | buckets, total, sum, max | add, merge, percentile | bucket edges, clamping |
| Stream generation | `op_mix.hpp`, `traffic_model.hpp`, `hash_key_gen.hpp`, `ZipfGen`, `InterArrivalGen` | tables, random generators | sample, `lambda_at`, `next` | rounding; mostly floating point |
| Workload | `workload.hpp` | buffers, permutations | `run` | index arithmetic, a buffer shared by clients |
| main, reports, perfctr | `bench.cpp`, `perfctr.hpp` | arguments, best and merged results | resolve capacity, repeat, print | best-of-N mixed with merged histograms |

The parts meet in three places: a mode drives the queue, the lock and the index;
the lock policy depends on the mix, the number of threads and the index; and
`main` chooses the queue capacity and merges what the modes return.

## Modules

| Module | Models |
|---|---|
| `MPMCQueue` | the ring buffer, one step per access to shared memory; its properties and its inductive invariant |
| `BoundedFIFO` | what the ring buffer promises: an atomic bounded queue with a hand-over to the consumer |
| `IndexAccess` | index flags, lock policy, `std::shared_mutex` |
| `PoissonRun` | `run_poisson` and `client_thread` over `MPMCQueue` and `IndexAccess` |
| `BatchRun` | `run_batch` and `batch_worker` over `IndexAccess` |
| `PoissonClock` | the clock readings of Poisson mode: time stamps, lateness, the recorded durations |
| `ArrivalSchedule` | the schedule that `run_poisson` generates: `lambda_at`, `next_ns` |
| `Driver` | `main`: refused arguments, lock flag, queue capacity, repeats, report |
| `KVIndex` | what the built-in indexes promise: a map whose removed keys stay with the value 0 |
| `HashIndex`, `BPlusTree` | the built-in indexes, each shown to implement `KVIndex` |
| `AtomicIndex` | what threads may expect of a shared index: each call takes effect at one moment |
| `Adapters` | the external indexes behind their adapters, shown to implement `AtomicIndex` |
| `DPTree` | DPTree behind its adapter: buffer tree, base tree and merges |
| `Workload` | the addresses that a query touches after its lookup |
| `Histogram` | per-thread recording, merging and percentiles |
| `OpMix` | the table operations are drawn from |
| `Powers` | powers of two and rounding up to one |
| `MPMCQueueProofs` | the queue: its invariant, the safety theorems, the refinement of `BoundedFIFO` |
| `PoissonProofs` | Poisson mode: shutdown, backpressure, lock; each query served once |
| `ModeProofs` | `BatchRun`, `PoissonClock`, `OpMix` |
| `HashIndexProofs` | the hash table: its invariant, the safety theorems, the refinement of `KVIndex` |
| `TreeProofs` | the B+tree: its invariant, lookup and scan, the refinement of `KVIndex` |
| `QueryProofs` | `ArrivalSchedule`, `Workload`, `Adapters` with the refinement of `AtomicIndex`, `DPTree` |
| `ReportProofs` | `Driver`, `Histogram` |
| `SumTheorems` | lemmas on sums over finite sets and on powers of two |
| `MCMPMCQueue`, `MCPoissonRun`, `MCBatchRun`, `MCAdapters`, `MCDPTree`, `MCWorkload`, `MCArrivalSchedule` | the modules as TLC instantiates them, with symmetry sets where used |
| `MCModes`, `MCIndexes`, `MCMeasurement` | several modules that share no state: each behaviour, selected by `part`, moves one of them |

Operators commented as *Mutant* are single-definition variants of the operator
that follows them, each a plausible slip in that code. `PROJECT.json` pairs each
with the property that notices it.

### MPMCQueue

The variables are the fields (`seq`, `value`, `enq_pos`, `deq_pos`), the locals
of each call (`pos`, `arg`, `out`, `ret`), the label `pc` of the next access, and
two histories (`sent`, `rcvd`) with one entry per ticket. A ticket is a position
that a compare-exchange moved past. A call is the step that loads the position
(`TryEnqueue`, `TryDequeue`), then a probe of the cell's sequence number with
three outcomes (`EnqReady`, `EnqFull`, `EnqBehind`), the exchange with two
(`EnqClaim`, `EnqClaimFails`, the latter also spuriously, as
`compare_exchange_weak` may), the plain write and the publishing store; dequeue
mirrors it.

Memory order: with `RelaxedLoads`, a load of a position returns any value between
the last one the thread read and the current one, and a load of a sequence number
any value the cell has had. This is weaker than what the acquire loads give, and
all safety results hold with it. What the release and acquire pair contributes is
kept: a thread that read the published number sees the value written before it.
Positions are naturals: wrapping `size_t` takes 2^64 operations.

### PoissonRun

The producer is the thread of `run_poisson`; `at` holds where each thread is
outside the queue's code. The queue's steps are those of `MPMCQueue`, not an
abstraction of it. A query is its number in the stream and its operation is
chosen in `PInit`, as the code pregenerates it. `TestDone`, `LoadEnqPos` and
`LoadDeqPos` are the three loads of the shutdown test of `bench.cpp:271-272`; the
first of them, an acquire load of `done`, makes the load of `enq_pos_` current, and
the load of `deq_pos_` may be stale. A client that has not been started yet is one
that has not moved. Queries arrive at any time; the schedule and the clock have
modules of their own.

### PoissonClock, ArrivalSchedule and Driver

`PoissonClock` reads the clock where the code does: the producer stamps an entry
(`Stamp`), offers it and, after every failed attempt, stamps it again (`Refresh`); a
client reads the clock after the dequeue, after the index call and after the
workload, and records five differences (`Finish`). The queue is the atomic FIFO that
`QueueImplementsFIFO` proves the ring buffer to be, and the clock may advance
between any two steps. Differences are unsigned and wrap, so that a stamp taken in
the wrong order shows up.

`ArrivalSchedule` takes one step per iteration of the two catch-up loops of
`lambda_at` and one for the rest of a query. Every random draw is a choice. Rates are
multiples of the base rate; the sine factor is a choice, 0 where the code clamps the
rate to 1, and the mean correction, a constant factor, is left out, as are the smallest,
largest and summed rate that the report prints. Time does not wrap: a schedule of 2^64
nanoseconds does not end.

`Driver` takes `main` from parsed arguments to the report. A call of a mode is one step
that returns a wall time, a lateness and one sample per query. With `--repeats 0` no
mode is called and the report shows the initial `best`.

### BatchRun

Workers are started one by one by `Spawn`; `ArriveAtGate` and `PassGate` are the
spin barrier; `Sample`, `Acquire`, `Release`, `Record` are the loop body, where
the sampler may return any operation of the mix, or a scan (see `OpMix`). `Join` is
the joins and the merge.

### HashIndex, BPlusTree and KVIndex

Both indexes keep the last call with its arguments and result in `call`, so that
`KVIndex` can say what each call must have done and returned. In `HashIndex` a chain
is a sequence of buckets and a bucket the sequence of its slots in use; the number
of buckets is rounded up as the constructor does; `bulk_load` is a loop of `insert`,
and keys may repeat because the driver draws them at random. In `BPlusTree` the
nodes are a sequence in order of allocation and a pointer is an index into it. What
the code finds by following pointers (`first_key`, the descent, the leaf chain `Along`) is
a recursive function over the nodes; a scan is a piece of what the chain holds. The
load takes one step per node. It is given keys in order, as the adapter sorts them;
the driver loads `1 .. N`, the model even numbers, so that there are absent keys
between them. The map the tree implements is read off the leaves, without inner
nodes or links; `LookupFinds` and `ScanInOrder` then compare the descent and the leaf
chain with it. These calls are atomic here: whether they may overlap is the question
of `IndexAccess` and the two modes.

### Adapters, AtomicIndex and DPTree

Each adapter is a table: the native calls that its `lookup`, `update` and `remove` make,
in order. What a native call does to the entries of its key is read off the vendored
code under `third_party/`: FAST&FAIR's insert does not look for the key, those of FPTree
and LB+-Tree give up on a key that is there, BzTree's `Upsert` and uTree's insert store in
any case. The header that the wB+-Tree adapter includes is not in the repository; its
calls are modelled from their use. Two threads make the calls of `batch_worker` or of
`client_thread`, under the lock that `IndexAccess` gives for the mode.

A native call is one step: that it is atomic is assumed, as the adapters' comments claim
for the trees with their own concurrency control; what an adapter makes of two of them is
the question. Reading the trees casts doubt on the assumption in two places, which are
hazards without a property: FPTree's `find` reads the value after it has let the leaf go,
and uTree's `remove` ends the process when another thread has changed the list beside it.
FAST&FAIR and LB+-Tree have runs of their own (see Findings), and uTree deletes keys only
in Poisson mode. In Poisson mode writes and scans always take the lock, also for indexes
that are `thread_safe()`; the comment of `bench.cpp:862-865`, which reads as if the lock
were not engaged at all then, describes batch mode.

`DPTree` is not `thread_safe()`, so a write is one step, together with the merge that it may
trigger. Both trees are maps from keys to entries, with the encoding of values and
tombstones that the adapter's `lookup` decodes. The buffer keeps the first entry of a key,
as `stx::btree_map::insert` does; a merge applies upserts and deletions to the base tree.
The thresholds (1000 entries, a tenth of all) are constants.

### Workload

The tables of the constructor are kept, with every outcome of its two shuffles; a call
records the addresses it touches. The contents of the buffer only feed a sink. An index
beyond the permutation of lines reads whatever is there, so the line is then any of the
buffer or one outside. The constructor checks no sizes. Walks stay in the buffer if
`SizesFit`: for Polluter at most one line per call more than there are, for the others
objects of whole words that divide the buffer. The sizes of the experiment scripts fit;
`workload_sizes` shows what happens to others. That walks spread needs less: as many lines
as a call has, or whole words.

### Histogram and OpMix

`percentile` takes the product `(uint64_t)(total_ * p)` as its argument, for every
value from 0 to `total_`, which covers every `p` without floating point. For TLC octaves
and sub-buckets are scaled down (the code has 40 and 8); sample sums do not wrap. In `OpMix` a share is a quotient
of integers; a floating-point sum that should be a whole number of bins may fall
just below it, so its truncation is a choice between two targets. Whether a given
mix really loses a bin depends on its rounding; the results hold for either.

## Runs

| Run | Checks | Bounds |
|---|---|---|
| `queue_stale_loads` | no two threads in a cell; at most `Capacity` items; FIFO delivery; full and empty are reported for a reason; sequence numbers grow; the inductive invariant; refinement of `BoundedFIFO` | 2 producers, 2 consumers, 2 cells, 3 enqueues, stale loads: a cell is used twice, so a thread can be overtaken by a lap |
| `queue_one_cell` | *violation*: a ring of one cell overwrites an item | 1 producer, 1 consumer |
| `poisson_backpressure` | clients leave only when the stream is drained; each query once; a writer is alone in the index; the producer never waits while each query so far has a cell of its own | 2 clients, 3 queries, 2 cells, stale loads: the producer meets a full queue |
| `modes` | batch: start together; each query once; a writer is alone in the index. Both modes: the run ends | 3 workers, 5 queries: shards of 1, 1 and 3; 2 clients, 3 queries, 2 cells |
| `batch_concurrent_safe_doc` | *violation*: `index_iface.hpp:65-67` | 2 workers, 2 queries |
| `indexes` | types of the first three parts, no node over its fanout. Hash table: one slot per key; chains without gaps; counters agree with the table; refinement of `KVIndex`. B+tree: lookups find what the leaves hold; scans are in order and complete; refinement of `KVIndex`. Adapters: refinement of `AtomicIndex`. DPTree: one map through writes and merges | 5 keys, 4 of them in one bucket, buckets of 2 slots; fanout 2, 0 to 20 keys, one call after the load; 4 indexes in 2 modes, 2 threads with 3 calls on one key; 3 keys, merges from 2 entries on |
| `fastfair_lookup_misses` | *violation*: `fastfair_adapter.hpp:59-62` | 2 threads, 2 keys, 2 calls |
| `lbtree_update_ignored` | *violation*: `lbtree_adapter.hpp:82` | 2 threads |
| `dptree_write_ignored` | *violation*: an update or remove stands | 2 keys |
| `measurement` | histograms: merging equals recording in one, percentiles are accurate; sampler: the table is full, shares to within one bin, only scan is drawn unasked; workload: touches stay in the buffer, spread, and do not overlap; schedule: timers on their grid, it ends; clock: durations add up, responses are accounted for, a hidden wait holds up the next query; main: queue capacity, reported run | 2 threads, 2 samples each out of 7, 5 octaves of 4; all mixes with weights 0 to 3, 16 bins; up to 3 lines, calls that fit and calls that do not; 3 arrivals; 3 queries, 2 clients, a queue of 1, 3 ticks of the clock; 6144 command lines, 3 repeats |
| `burst_tick_zero` | *violation*: `traffic_model.hpp:91`, `:167` | 2 arrivals |
| `workload_sizes` | *violation*: `workload.hpp:97-98` | 2 lines, calls of 5 |

Two cells and more tickets than cells are the smallest ring that shows every
outcome of a probe; a second producer and consumer make every exchange fail.
Three queries over two cells fill the queue and wrap it. Fanout 2 and 20 keys give
ten leaves under levels of four, two and one inner nodes, the last of the four and
of the two with a single child. Four keys of one bucket fill two buckets of a chain.
The samples lie on both sides of octaves and beyond the last one. Two threads on one
key meet in every pair of native calls. Gaps of none, one and several periods make the
timers catch up by any number of iterations; two queries due at once on a queue of one
make the producer wait. No run has more workers than queries: that case is left to the
theorem `BatchServesEachOnce`. Deadlock is
checked except in `indexes`, `measurement` and the violation runs of the adapters and of the
workload, whose systems stop when the bounded calls, the merge, the constructor, the
schedule or the stream are done.

`TreeImplementsMap` and `HashImplementsMap` compare with `KVIndex`, in which an update of an
absent key returns false and stores nothing: so do both `update` functions, although the
comment of `index.hpp:107` says "upsert". `WaitDelaysNext` and `ReportsFastest` say what the
code does and no more: a wait that ends before the next query is due shows in no
measurement, and a late repeat that is not the fastest is not warned about, though the
latencies that the warning speaks of come from all repeats.

Fairness: threads are scheduled by the operating system and both waiting loops
yield the core, so every thread takes steps (weak fairness of each thread's
steps). A `compare_exchange_weak` that can succeed again and again succeeds at
some time (strong fairness of the two claims). A thread waiting for the
`shared_mutex` needs no stronger assumption: the stream is finite, so the others
stop taking it. The schedule is generated by one thread that runs on (weak fairness of
its next step); that is also the fairness of the counterexample of `burst_tick_zero`.

## Proofs

The theorems hold for every value of the constants that the assumption named in each
module admits. The constants that only bound a model (`MaxEnqueues`, `MaxCalls`,
`MaxTime`, `MaxSamples`, ...) are arbitrary too.

**The queue** (`MPMCQueueProofs`), for any sets of producers, consumers and items, any
`Capacity >= 2`, any number of operations, with or without stale loads:

* `QueueInvariant`: `QInv` always holds.
* `QueueTypeCorrect`, `QueueRaceFree`, `QueueBounded`, `QueueDelivers`,
  `QueueSeqAdvances`: types, and the safety properties of `queue_stale_loads`.
* `QueueFullMeansFull`, `QueueEmptyMeansEmpty`: for calls whose load of the sequence
  number was current, whatever the others load; only then are they true.
* `QueueImplementsFIFO`: the refinement of `BoundedFIFO`.

`Capacity >= 2` is needed: `queue_one_cell` is the counterexample for one cell.

None of the safety properties is inductive. `NoCellRace`, for instance, needs to
know that a thread about to exchange holds a comparison that is still worth
something. The strengthening says what each cell is doing. The `Capacity` tickets
from `deq_pos` on occupy all cells, one each (`LapCells`). The cell of an enqueued
one is being written or published with its item, the cell of another is free or
still being read one lap behind (`CellShape`, `CellOwned`). A ticket has one owner
(`TicketsOwnedOnce`), whose cell is in the state it left it in (`WriterShape`,
`ReaderShape`). Cells never fall behind tickets that were taken (`SeqPassed`), so a
comparison made before an exchange can only have become too low, and then the
exchange fails (`ClaimShape`). There is one lemma per step that changes shared
memory; the others change only the thread's own `pc` and `pos`
(`ProducerPrivateStep`, `ConsumerPrivateStep`). The arithmetic of cells
(`SlotPeriodic`, `SlotInjective`) rests on `DivMod` and `SmallMultiple`.

**Poisson mode** (`PoissonProofs`), for any number of clients and
queries, any `Capacity >= 2`, any mix and any index, with or without stale loads:

* `PoissonInvariant`: `PInv` always holds. It joins the queue's `QInv` with what only the
  composition knows: where the producer is, `enq_pos` is the number of queries it has
  offered (`ProducerInv`); a client that has seen `done` knows that `enq_pos` is final, and one
  that has loaded `enq_pos` holds that number (`ClientInv`); the lock and the places of the
  clients agree (`ClientLockInv`). That each step of the composed system keeps `QInv` is
  taken from the lemmas of `MPMCQueueProofs`: a step is a step of the queue or leaves
  it alone.
* `PoissonDrains`: the shutdown test loads `done`, then `enq_pos_`, then `deq_pos_`. With a size
  of 0 the last is the number of queries, and positions do not fall.
* `PoissonNeverBlocks`: with at least as many cells as queries no ticket is a lap behind
  another, so a cell that looks taken would have to be read by a client one lap back.
* `PoissonExcludes`, as in batch mode.
* `PoissonServesEachOnce`, if there is a client. `LedgerInv` follows a query: its ticket is its
  place in the stream (`OfferInv`), a ticket that was taken is held by one client or has
  been recorded by one, never both (`HolderInv`, `BookInv`).

**Batch mode, the clock and the mix** (`ModeProofs`), for any number of workers and queries,
any mix and any index:

* `BatchStartsTogether`. `StartTogether` speaks of workers past the gate; inductive is that
  the gate's value is the number of workers that have not decremented it (`GateInv`). A
  worker passes at 0, when nobody is left to arrive.
* `BatchExcludes`, from `LockInv`: who is inside an index call holds the lock in the mode of
  its operation, a writer holds it alone, and who is elsewhere holds nothing.
* `ShardsPartition`: every query is in the shard of exactly one worker, however unevenly
  the stream divides. `BatchServesEachOnce` adds that a histogram holds the queries of the
  shard up to where its worker is.
* `ClockAddsUp`, `ClockAccounts`, `ClockShowsWait`, for any schedule and any number of
  clients: `ClockInv` orders the readings of one query whatever step of its way it is at,
  so no difference wraps.
* `MixIsFair`, `MixDrawsAsked`, for any weights and table size: there are targets, each
  within one bin of the exact cumulative share, between which the bins of one operation
  lie (`MixInv`).

**The hash table** (`HashIndexProofs`), for any keys, number of buckets and slots per bucket:
`HashTypeCorrect`, `HashOneSlot`, `HashPacked`, `HashCounts` and `HashIsMap`, the refinement of
`KVIndex`. `HashInv` says of every chain that it is packed, holds no key twice and only keys
of its bucket. A call changes one chain, so there is one lemma per way of changing it; the
counters are sums over the chains, of which one term changes.

**The B+tree** (`TreeProofs`), for any fan-out and any number of keys and of calls:
`LookupIsRight`, `ScanIsRight`, `NodesFit` and `TreeIsMap`, the refinement of `KVIndex`.

* `TreeInv` says what a tree is, also while it is being built: a row of linked leaves that
  share out the sorted keys (`Leaves`); inner nodes, each over a run of leaves `a[n] .. b[n]`,
  whose children are over consecutive parts of that run and whose keys are the first ones
  under the children after the first (`Inners`); a level that is over all the leaves, and
  one being built that is over those read so far (`Levels`, `Parents`). `a`, `b` and the
  places of the keys are not in the code: the invariant says that they exist. A node is
  made after its children, which is why the descent ends.
* A lookup is right because each step down keeps every leaf that could hold the key under
  the node it goes to (`InsideStep`), and a leaf is under itself only (`DescendFits`). A node
  with one child and no key is no exception: the step then keeps the whole run.
* A scan is right because the leaf chain from a leaf on holds the values from its place on
  (`AlongUpward`), and the place where the scan starts has exactly the smaller keys before
  it (`ScanStarts`).
* The descent, `first_key` and `Along` are recursive functions, for which one lemma says that
  such a function exists and what it computes (`DescentExists`, `DescentEnds`). Induction over
  numbers enters as the hypothesis `Numbers` of the lemmas that need it, and is discharged
  once, from `SumTheorems`, at the end (`NumbersHold`).

**The parts of a query** (`QueryProofs`):

* `TimersKeepTime`, for any periods and arrivals: each timer is a multiple of its period and
  not more than one period ahead of the clock while a loop runs.
* `TouchesStayInBuffer`, for any sizes that satisfy `SizesFit`, and `WalksKeepApart`, for any
  sizes; both for any outcome of the shuffles. `WorkInv` says that the tables are those of
  the constructor and that a call took one of its walks.
* `AdaptersInvariant`, `AdaptersAreAtomic`, for any number of threads, keys and calls, any
  mix, both modes and every adapter but those of FAST&FAIR and LB+-Tree, which have
  counterexamples, and of DPTree. The refinement mapping lets a call take effect with the native call that decides it; for
  wB+Tree, whose update is a delete and an insert, with the delete, which the lock hides.
  `AInv` says what each call still has to do, and what the tree then holds of its key.
* `AdaptersAnswer`, in the same setting: an answer is 0 or a value that was loaded or written
  for the key that was asked for.
* `DPTreeIsMap`, for any keys and thresholds. Entries of the buffer are tombstones or encode
  a value, those of the base tree encode values, so a merge changes no answer.

**The report** (`ReportProofs`):

* `MainReportsFastest`, `MainQueueFits`, for any command line with wall times below the
  initial `best`.
* `HistLosesNothing`, `HistPercentiles`, for any threads, samples and number of octaves, and
  any power of two of sub-buckets: `HistInv` says of every histogram which samples it
  describes; recording and merging join two disjoint sets of samples
  (`CombinedDescribes`). The walk of `percentile` counts the samples up to a bucket
  (`AccumCounts`), buckets keep the order of samples (`BucketsGrow`), so it stops at the
  bucket of the sample of its rank (`PercentileBucket`), whose lower edge is close
  (`EdgeIsClose`).

`SumTheorems` is where recursion is met. A sum over a finite set and a power of two are
recursive functions, and what they compute needs an induction. The lemmas
`SubsetInduction` and `NatSetInduction` speak of the set of good cases instead of a
predicate: if it were not everything, `WFMin` would give a smallest counterexample.

Only model-checked: liveness (`PoissonRunTerminates`, `BatchRunTerminates`, `ScheduleFinished`), which the
prover does not reach; and `ITypeOK`, the type invariant of the run that puts the two tables
and the adapters side by side. Its three parts are proved one by one: `HashTypeCorrect`,
`NodesFit` and `AdaptersAnswer`.

## Findings

* A queue of capacity 1 is accepted (`mpmc_queue.hpp:29`, `--queue-capacity 1`) and
  loses items, because the sequence number of a published cell and of a free cell
  are then equal.
* `index_iface.hpp:65-67` says that the driver wraps an index whose
  `concurrent_safe()` is false; the driver never asks, and uTree
  (`utree_adapter.hpp:97-98`) runs unwrapped. `EXTERNAL_INDEXES.md:118-122` says that even
  indexes with their own concurrency control are wrapped when the mix writes;
  `bench.cpp:868` does not wrap them in batch mode.
* `fastfair_adapter.hpp:59-62` says that lookups and updates may run without a lock. The
  adapter's update is a delete and an insert (`:39-40`); a lookup between them misses the
  key. (The native insert does not look for the key, so that two updates that overlap
  also leave it in the tree twice.)
* `lbtree_adapter.hpp:82` says that the insert of LB+-Tree overwrites an existing key. The
  vendored one does nothing then (`lbtree.cc:714-717`), and the update of a loaded key is
  lost.
* DPTree's buffer keeps the first entry of a key (`dptree.hpp:1286`, `:1294`, `stx/btree.h:2281-2283`):
  an update or remove of a key that was written since the last merge is lost, although
  `update` and `remove` return true. `FirstBufferedStands` says exactly which writes stand.
* The walk of Polluter wraps once (`workload.hpp:116`): with `--bytes` at least two lines above
  `--universe` it reads beyond the permutation and may touch memory outside the buffer. The
  slots of objects are rounded up (`:67`), so the last object of a size that does not divide
  the buffer also reaches beyond it.
* With `--burst-tick 0` and `--burst-prob` above 0 the loop of `traffic_model.hpp:96-105` does
  not end, although `mean_burst` (`:167`) provides for such a tick.

## Not modelled

* The inside of the vendored trees under `third_party/`: nodes, latches, persistence. That
  their calls are atomic is an assumption of `Adapters`; that the leaves of DPTree's base
  tree hold the map they should is one of `DPTree`.
* The CIRC-Tree and NBTree adapters: they call no index.
* Key generators, the mean correction of the traffic model, the distribution of any
  draw: floating point and statistics.
* The contents of the workload's buffers. All clients of Poisson mode share one buffer
  and Polluter writes it without synchronisation (`bench.cpp:944`); the values only reach a
  sink.
* Argument and mix parsing, reports, `perfctr` and the experiment scripts: text and
  system calls without state that the rest depends on.
* `--clients 0`, which unlike `--workers 0` is not raised to 1: a run then never ends when
  the queue is full and otherwise discards every query. The runs have two clients.
* Wrapping of 64-bit positions and times.
