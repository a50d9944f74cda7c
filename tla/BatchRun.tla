------------------------------ MODULE BatchRun ------------------------------
(***************************************************************************)
(* run_batch and batch_worker of bench.cpp: the query stream is cut into   *)
(* one contiguous shard per worker; the workers wait for each other at a   *)
(* spin barrier, then run their shard against the index, locked or not as  *)
(* main's policy says, and are joined.  Queries are numbered from 0.       *)
(***************************************************************************)
EXTENDS IndexAccess, FiniteSetsExt

CONSTANTS
  NQueries,   \* qkeys.size()
  NWorkers,   \* a.workers after main raised it to at least 1
  IndexName,  \* --index
  Mix         \* the operations of --op-mix

ASSUME BatchAssumption ==
  /\ NQueries \in Nat
  /\ NWorkers \in Nat \ {0}
  /\ IndexName \in Indexes
  /\ Mix \subseteq Ops

Workers == 0 .. NWorkers - 1
Queries == 0 .. NQueries - 1

(* The shard [ShardBegin(w), ShardEnd(w)) of a worker: the last worker     *)
(* also takes what the division leaves over.                               *)
per == NQueries \div NWorkers

ShardBegin(w) == w * per

(* Mutant: the rest of the division is nobody's.                           *)
ShardEndEven(w) == ShardBegin(w) + per

ShardEnd(w) == IF w = NWorkers - 1 THEN NQueries ELSE ShardBegin(w) + per

Shard(w) == ShardBegin(w) .. ShardEnd(w) - 1

use_lock == needs_lock(IndexName, Mix, NWorkers)

VARIABLES
  spawned,  \* how many workers run_batch has started
  at,       \* where each worker is
  gate,     \* start_gate
  i,        \* each worker's loop index
  op,       \* each worker's current operation
  hist,     \* how often each query was added to each worker's histograms
  result    \* what run_batch returns

bvars == <<spawned, at, gate, i, op, hist, result, lock>>

NoSamples == [q \in Queries |-> 0]

Move(w, label) == at' = [at EXCEPT ![w] = label]

(* run_batch before it starts a worker, with the gate at g.                *)
BInitGate(g) ==
  /\ spawned = 0
  /\ at = [w \in Workers |-> "unborn"]
  /\ gate = g
  /\ i = [w \in Workers |-> ShardBegin(w)]
  /\ op = [w \in Workers |-> "search"]
  /\ hist = [w \in Workers |-> NoSamples]
  /\ result = [joined |-> FALSE, h |-> NoSamples]
  /\ LockInit

(* Mutant: the gate does not count the last worker.                        *)
BInitGateShort == BInitGate(NWorkers - 1)

BInit == BInitGate(NWorkers)

(* run_batch starts the next worker.                                       *)
Spawn ==
  /\ spawned < NWorkers
  /\ Move(spawned, "start")
  /\ spawned' = spawned + 1
  /\ UNCHANGED <<gate, i, op, hist, result, lock>>

(* The barrier: decrement, then spin while the gate is positive.           *)
ArriveAtGate(w) ==
  /\ at[w] = "start"
  /\ gate' = gate - 1
  /\ Move(w, "spin")
  /\ UNCHANGED <<spawned, i, op, hist, result, lock>>

(* Pass once the gate is at most low.                                      *)
Pass(w, low) ==
  /\ at[w] = "spin"
  /\ gate <= low
  /\ Move(w, "loop")
  /\ UNCHANGED <<spawned, gate, i, op, hist, result, lock>>

(* Mutant: the gate is never low enough.                                   *)
PassGateNever(w) == Pass(w, -1)

PassGate(w) == Pass(w, 0)

(* The sampler chooses the operation of the next query of the shard.       *)
Sample(w) ==
  /\ at[w] = "loop"
  /\ i[w] < ShardEnd(w)
  /\ \E o \in Sampled(Mix) : op' = [op EXCEPT ![w] = o]
  /\ Move(w, "lock")
  /\ UNCHANGED <<spawned, gate, i, hist, result, lock>>

Acquire(w) ==
  /\ at[w] = "lock"
  /\ TakeLock(w, BatchLock(use_lock, op[w]))
  /\ Move(w, "index")
  /\ UNCHANGED <<spawned, gate, i, op, hist, result>>

(* The index call returns and the lock's scope ends.                       *)
Release(w) ==
  /\ at[w] = "index"
  /\ DropLock(w)
  /\ Move(w, "work")
  /\ UNCHANGED <<spawned, gate, i, op, hist, result>>

(* The worker's own Workload runs; the query enters the histograms.        *)
Record(w) ==
  /\ at[w] = "work"
  /\ hist' = [hist EXCEPT ![w][i[w]] = @ + 1]
  /\ i' = [i EXCEPT ![w] = @ + 1]
  /\ Move(w, "loop")
  /\ UNCHANGED <<spawned, gate, op, result, lock>>

Leave(w) ==
  /\ at[w] = "loop"
  /\ i[w] >= ShardEnd(w)
  /\ Move(w, "exited")
  /\ UNCHANGED <<spawned, gate, i, op, hist, result, lock>>

(* join every worker and merge the histograms.                             *)
Join ==
  /\ ~result.joined
  /\ spawned = NWorkers
  /\ \A w \in Workers : at[w] = "exited"
  /\ result' = [joined |-> TRUE,
                h |-> [q \in Queries |->
                         SumFunction([w \in Workers |-> hist[w][q]])]]
  /\ UNCHANGED <<spawned, at, gate, i, op, hist, lock>>

WorkerStep(w) ==
  \/ ArriveAtGate(w) \/ PassGate(w) \/ Sample(w) \/ Acquire(w)
  \/ Release(w) \/ Record(w) \/ Leave(w)

(* The run is over once run_batch has returned.                            *)
Terminated == result.joined /\ UNCHANGED bvars

BNext == Spawn \/ (\E w \in Workers : WorkerStep(w)) \/ Join \/ Terminated

BSpec == BInit /\ [][BNext]_bvars

(* Every thread keeps running; a waiting worker gets the lock once the     *)
(* others, whose shards are finite, stop taking it.                        *)
BFairSpec ==
  BSpec /\ WF_bvars(Spawn) /\ WF_bvars(Join)
        /\ \A w \in Workers : WF_bvars(WorkerStep(w))

-----------------------------------------------------------------------------
(* Properties                                                              *)

Inside == {"loop", "lock", "index", "work", "exited"}

(* "All workers start together (barrier)" (bench.cpp:380-381): no worker   *)
(* runs a query while another has not reached the gate.                    *)
StartTogether ==
  (\E w \in Workers : at[w] \in Inside) =>
    \A v \in Workers : at[v] \notin {"unborn", "start"}

(* The shards cover the query stream and do not overlap: the merged        *)
(* histograms hold exactly one sample of every query (bench.cpp:480-496),  *)
(* also when the division leaves a rest.                                   *)
BatchEachQueryOnce == result.joined => result.h = [q \in Queries |-> 1]

(* While the index is not thread_safe, a writer is alone in it             *)
(* (bench.cpp:382-388).                                                    *)
BatchIndexExclusion ==
  ~thread_safe(IndexName) =>
    \A w, v \in Workers :
      w # v /\ at[w] = "index" /\ at[v] = "index" => op[w] \notin Writes

(* The run ends: the barrier opens, the shards are served and every worker *)
(* is joined.                                                              *)
BatchTerminates == <>result.joined

(* What index_iface.hpp:65-67 says: an index that is not concurrent_safe   *)
(* is wrapped in the shared_mutex for what runs concurrently.              *)
WrappedUnlessConcurrentSafe ==
  has_writes(Mix) /\ ~concurrent_safe(IndexName) =>
    \A w, v \in Workers :
      w # v /\ at[w] = "index" /\ at[v] = "index" => w \in writer \cup readers

=============================================================================
