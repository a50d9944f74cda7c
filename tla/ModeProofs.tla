----------------------------- MODULE ModeProofs -----------------------------
(***************************************************************************)
(* The two modes, for any number of threads and of queries: batch mode and *)
(* the table from which OpMix draws its operations, and the times that a   *)
(* Poisson run records.  The three share no state; each section has an     *)
(* inductive invariant of its own.                                         *)
(***************************************************************************)
EXTENDS BatchRun, PoissonClock, OpMix, SumTheorems

(* BatchRun: the barrier, the lock and the queries served.                 *)

Labels == {"unborn", "start", "spin"} \cup Inside

(* The workers that have not decremented the gate yet.                     *)
Waiting == {w \in Workers : at[w] \in {"unborn", "start"}}

(* The gate counts them, and nobody is past it while there are any.        *)
GateInv ==
  /\ at \in [Workers -> Labels]
  /\ spawned \in Nat
  /\ gate = Cardinality(Waiting)
  /\ (\E w \in Workers : at[w] \in Inside) => Waiting = {}
  /\ \A w \in Workers : at[w] = "unborn" <=> w >= spawned

(* Who holds the lock is in the index, and a worker in the index holds the *)
(* lock in the mode of its operation; the operation is one of the mix.     *)
LockInv ==
  /\ at \in [Workers -> Labels]
  /\ op \in [Workers -> Ops]
  /\ \A w \in Workers : at[w] \in {"lock", "index"} => op[w] \in Sampled(Mix)
  /\ writer = {} \/ readers = {}
  /\ \A v, w \in writer : v = w
  /\ \A w \in writer \cup readers : w \in Workers /\ at[w] = "index"
  /\ use_lock =>
       \A w \in Workers :
         at[w] = "index" =>
           IF op[w] \in Writes THEN w \in writer ELSE w \in readers

-----------------------------------------------------------------------------
(* Only workers wait at the gate, so they can be counted.                  *)
LEMMA WaitingFinite == IsFiniteSet(Waiting)
<1>1. IsFiniteSet(Workers)
  BY FS_Interval, BatchAssumption DEF Workers
<1> QED
  BY <1>1, FS_Subset DEF Waiting

(* The join at the end of run_batch touches neither the gate nor the lock. *)
LEMMA JoinKeeps == Join => UNCHANGED <<spawned, at, gate, op, writer, readers>>
  BY Zenon DEF Join, lock

(* At the start the gate counts every worker.                              *)
LEMMA GateInit == BInit => GateInv
<1> SUFFICES ASSUME BInit PROVE GateInv
  OBVIOUS
<1>1. Waiting = Workers
  BY DEF Waiting, BInit, BInitGate
<1>2. Cardinality(Workers) = NWorkers
  BY FS_Interval, BatchAssumption DEF Workers
<1> QED
  BY <1>1, <1>2, BatchAssumption
  DEF GateInv, BInit, BInitGate, Labels, Inside, Workers

(* A step that neither wakes nor counts a worker, and lets none pass.      *)
LEMMA GateKept ==
  ASSUME GateInv, NEW w \in Workers, NEW l \in Labels,
         at[w] \notin {"unborn", "start"}, l \notin {"unborn", "start"},
         l \in Inside => at[w] \in Inside \/ gate <= 0,
         Move(w, l), UNCHANGED <<gate, spawned>>
  PROVE  GateInv'
<1>1. at' \in [Workers -> Labels]
  BY DEF GateInv, Move
<1>2. Waiting' = Waiting
  BY DEF GateInv, Waiting, Move
<1>3. gate <= 0 => Waiting = {}
  BY WaitingFinite, FS_EmptySet, FS_CardinalityType DEF GateInv
<1>4. (\E v \in Workers : at'[v] \in Inside) => Waiting' = {}
  BY <1>2, <1>3 DEF GateInv, Move
<1> QED
  BY <1>1, <1>2, <1>4 DEF GateInv, Move

(* Every step keeps the gate equal to the number of workers that have not  *)
(* arrived.                                                                *)
LEMMA GateStep == GateInv /\ [BNext]_bvars => GateInv'
<1> SUFFICES ASSUME GateInv, [BNext]_bvars PROVE GateInv'
  BY Zenon
<1>1. CASE Spawn
  <2>1. spawned \in Workers /\ at[spawned] = "unborn"
    BY <1>1, BatchAssumption DEF Spawn, GateInv, Workers
  <2>2. Waiting' = Waiting
    BY <1>1, <2>1 DEF Spawn, Move, GateInv, Waiting
  <2>3. at' \in [Workers -> Labels]
    BY <1>1, <2>1 DEF Spawn, Move, GateInv, Labels
  <2>4. \A w \in Workers : at'[w] = "unborn" <=> w >= spawned'
    BY <1>1, <2>1 DEF Spawn, Move, GateInv, Workers
  <2>5. ~\E w \in Workers : at'[w] \in Inside
    BY <1>1, <2>1 DEF Spawn, Move, GateInv, Waiting, Inside
  <2> QED
    BY <1>1, <2>2, <2>3, <2>4, <2>5 DEF Spawn, GateInv
<1>2. ASSUME NEW w \in Workers, ArriveAtGate(w) PROVE GateInv'
  <2>1. w \in Waiting /\ Waiting' = Waiting \ {w}
    BY <1>2 DEF ArriveAtGate, Move, GateInv, Waiting
  <2>2. Cardinality(Waiting') = Cardinality(Waiting) - 1
    BY <2>1, WaitingFinite, FS_RemoveElement
  <2>3. at' \in [Workers -> Labels]
    BY <1>2 DEF ArriveAtGate, Move, GateInv, Labels
  <2>4. ~\E v \in Workers : at'[v] \in Inside
    BY <1>2, <2>1 DEF ArriveAtGate, Move, GateInv, Inside
  <2>5. \A v \in Workers : at'[v] = "unborn" <=> v >= spawned'
    BY Zenon, <1>2 DEF ArriveAtGate, Move, GateInv
  <2> QED
    BY <1>2, <2>2, <2>3, <2>4, <2>5 DEF ArriveAtGate, GateInv
<1>3. ASSUME NEW w \in Workers, PassGate(w) PROVE GateInv'
  <2>1. gate \in Nat
    BY Zenon, WaitingFinite, FS_CardinalityType DEF GateInv
  <2>2. gate' = gate
    BY <1>3, <2>1 DEF PassGate, Pass
  <2> QED
    BY <1>3, <2>2, GateKept DEF PassGate, Pass, Labels, Inside
<1>4. ASSUME NEW w \in Workers,
             Sample(w) \/ Acquire(w) \/ Release(w) \/ Record(w) \/ Leave(w)
      PROVE  GateInv'
  <2>1. PICK l \in Inside : at[w] \in Inside /\ Move(w, l) /\ UNCHANGED <<gate, spawned>>
    BY Zenon, <1>4 DEF Sample, Acquire, Release, Record, Leave, Inside
  <2> QED
    BY Zenon, <2>1, GateKept DEF Labels, Inside
<1>5. CASE UNCHANGED <<at, gate, spawned>>
  BY Zenon, <1>5 DEF GateInv, Waiting
<1> QED
  BY <1>1, <1>2, <1>3, <1>4, <1>5, JoinKeeps DEF BNext, WorkerStep, Terminated, bvars

-----------------------------------------------------------------------------
(* At the start nobody holds the lock.                                     *)
LEMMA LockStart == BInit => LockInv
  BY DEF BInit, BInitGate, LockInit, LockInv, Labels, Ops

(* Every step keeps the holders of the lock and the places of the workers  *)
(* in agreement.                                                           *)
LEMMA LockStep == GateInv /\ LockInv /\ [BNext]_bvars => LockInv'
<1> SUFFICES ASSUME GateInv, LockInv, [BNext]_bvars PROVE LockInv'
  BY Zenon
<1> USE DEF LockInv
<1>1. ASSUME NEW w \in Workers, Sample(w) PROVE LockInv'
  <2>1. PICK o \in Sampled(Mix) : op' = [op EXCEPT ![w] = o]
    BY Zenon, <1>1 DEF Sample
  <2>2. Sampled(Mix) \subseteq Ops
    BY BatchAssumption DEF Sampled, Ops
  <2> QED
    BY <1>1, <2>1, <2>2 DEF Sample, Move, lock, Labels, Inside
<1>2. ASSUME NEW w \in Workers, Acquire(w) PROVE LockInv'
  <2>1. /\ at' = [at EXCEPT ![w] = "index"] /\ op' = op
        /\ at[w] = "lock" /\ w \notin writer \cup readers
    BY Zenon, <1>2 DEF Acquire, Move
  <2>2. at' \in [Workers -> Labels]
    BY <2>1 DEF Labels, Inside
  <2>3. CASE BatchLock(use_lock, op[w]) = "unique"
    <3>1. writer' = {w} /\ readers' = {} /\ writer = {}
      BY Zenon, <1>2, <2>3 DEF Acquire, TakeLock
    <3>2. op[w] \in Writes /\ use_lock
      BY Zenon, <2>3 DEF BatchLock
    <3> QED
      BY ZenonT(60), <2>1, <2>2, <3>1, <3>2, <1>2, <2>3 DEF Acquire, TakeLock
  <2>4. CASE BatchLock(use_lock, op[w]) = "shared"
    <3>1. writer' = {} /\ writer = {} /\ readers' = readers \cup {w}
      BY Zenon, <1>2, <2>4 DEF Acquire, TakeLock
    <3>2. op[w] \notin Writes /\ use_lock
      BY Zenon, <2>4 DEF BatchLock
    <3> QED
      BY ZenonT(60), <2>1, <2>2, <3>1, <3>2
  <2>5. CASE BatchLock(use_lock, op[w]) = "none"
    <3>1. UNCHANGED <<writer, readers>>
      BY Zenon, <1>2, <2>5 DEF Acquire, TakeLock, lock
    <3>2. ~use_lock
      BY <2>5 DEF BatchLock
    <3> QED
      BY Zenon, <2>1, <2>2, <3>1, <3>2
  <2> QED
    BY Zenon, <2>3, <2>4, <2>5 DEF BatchLock
<1>3. ASSUME NEW w \in Workers, Release(w) PROVE LockInv'
  BY Zenon, <1>3 DEF Release, DropLock, Move, Labels, Inside
<1>4. ASSUME NEW w \in Workers, NEW l \in Labels, at[w] \notin {"lock", "index"},
             l \notin {"lock", "index"}, Move(w, l), UNCHANGED <<op, writer, readers>>
      PROVE  LockInv'
  BY Zenon, <1>4 DEF Move
<1>5. ASSUME NEW w \in Workers, ArriveAtGate(w) \/ PassGate(w) \/ Record(w) \/ Leave(w)
      PROVE  LockInv'
  BY Zenon, <1>4, <1>5 DEF ArriveAtGate, PassGate, Pass, Record, Leave, lock, Labels, Inside
<1>6. CASE Spawn
  <2>1. spawned \in Workers /\ at[spawned] = "unborn"
    BY <1>6, BatchAssumption DEF Spawn, GateInv, Workers
  <2> QED
    BY Zenon, <1>4, <1>6, <2>1 DEF Spawn, lock, Labels
<1>7. CASE UNCHANGED <<at, op, writer, readers>>
  BY <1>7
<1> QED
  BY Zenon, <1>1, <1>2, <1>3, <1>5, <1>6, <1>7, JoinKeeps
  DEF BNext, WorkerStep, Terminated, bvars, lock

(* What the lock records is enough to exclude a writer from the others.    *)
LEMMA LockExcludes == LockInv => BatchIndexExclusion
<1> SUFFICES ASSUME LockInv, ~thread_safe(IndexName),
                    NEW w \in Workers, NEW v \in Workers,
                    w # v, at[w] = "index", at[v] = "index"
             PROVE  op[w] \notin Writes
  BY DEF BatchIndexExclusion
<1>1. CASE use_lock
  BY <1>1 DEF LockInv
<1>2. CASE ~use_lock
  <2>1. NWorkers > 1
    BY BatchAssumption DEF Workers
  <2>2. Mix \cap Writes = {}
    BY <1>2, <2>1 DEF use_lock, needs_lock, has_writes
  <2>3. op[w] \in Mix \cup {"scan"}
    BY DEF LockInv, Sampled
  <2> QED
    BY <2>2, <2>3 DEF Writes
<1> QED
  BY <1>1, <1>2

(* Both invariants hold in every reachable state of batch mode.            *)
LEMMA BatchInvariant == BSpec => [](GateInv /\ LockInv)
<1>1. BInit => GateInv /\ LockInv
  BY GateInit, LockStart
<1>2. GateInv /\ LockInv /\ [BNext]_bvars => (GateInv /\ LockInv)'
  BY GateStep, LockStep
<1> QED
  BY <1>1, <1>2, PTL DEF BSpec

(* The spin barrier of batch_worker (bench.cpp:405-408) holds for any      *)
(* number of workers: none runs a query before the last one has been       *)
(* started and has decremented start_gate.                                 *)
THEOREM BatchStartsTogether == BSpec => []StartTogether
<1>1. GateInv => StartTogether
  BY DEF GateInv, StartTogether, Waiting
<1> QED
  BY <1>1, BatchInvariant, PTL

(* main's lock policy with batch_worker's locking (bench.cpp:418-454,      *)
(* 860-868) keeps a writer alone in an index that is not thread_safe, for  *)
(* any index, any mix and any number of workers, the bins the sampler      *)
(* gives to scan unasked included.                                         *)
THEOREM BatchExcludes == BSpec => []BatchIndexExclusion
  BY LockExcludes, BatchInvariant, PTL

-----------------------------------------------------------------------------
(* The workers' even shares fit into the stream (bench.cpp:482).           *)
LEMMA PerType == per \in Nat /\ per * NWorkers <= NQueries
  BY BatchAssumption DEF per

(* A worker's shard ends before that of a later worker begins.             *)
LEMMA ShardsInOrder ==
  ASSUME NEW v \in Workers, NEW w \in Workers, v < w
  PROVE  ShardEnd(v) <= ShardBegin(w)
<1>1. v # NWorkers - 1 /\ v \in Nat /\ w \in Nat /\ v + 1 <= w
  BY BatchAssumption DEF Workers
<1>2. ASSUME NEW a \in Nat, NEW b \in Nat, a <= b, NEW d \in Nat PROVE a * d <= b * d
  BY <1>2
<1>3. (v + 1) * per <= w * per
  BY <1>1, <1>2, PerType
<1> QED
  BY <1>1, <1>3, PerType DEF ShardEnd, ShardBegin

(* run_batch's arithmetic (bench.cpp:482-485) gives every query to exactly *)
(* one worker, for any number of both: also when the division leaves a     *)
(* rest and when there are more workers than queries.                      *)
THEOREM ShardsPartition ==
  \A q \in Queries :
    /\ \E w \in Workers : q \in Shard(w)
    /\ \A v, w \in Workers : q \in Shard(v) /\ q \in Shard(w) => v = w
<1> SUFFICES ASSUME NEW q \in Queries
             PROVE  /\ \E w \in Workers : q \in Shard(w)
                    /\ \A v, w \in Workers : q \in Shard(v) /\ q \in Shard(w) => v = w
  OBVIOUS
<1>1. q \in Nat /\ q < NQueries
  BY BatchAssumption DEF Queries
<1>2. \E w \in Workers : q \in Shard(w)
  <2>1. CASE q >= (NWorkers - 1) * per
    <3>1. NWorkers - 1 \in Workers
      BY BatchAssumption DEF Workers
    <3>2. q \in Shard(NWorkers - 1)
      BY <1>1, <2>1, BatchAssumption, PerType DEF Shard, ShardBegin, ShardEnd
    <3> QED
      BY <3>1, <3>2
  <2>2. CASE q < (NWorkers - 1) * per
    <3>1. per > 0
      BY <1>1, <2>2, BatchAssumption, PerType
    <3> DEFINE w == q \div per
    <3>2. w \in Nat /\ w * per <= q /\ q < w * per + per
      BY <1>1, <3>1, PerType
    <3>3. w < NWorkers - 1
      BY <1>1, <2>2, <3>1, <3>2, BatchAssumption, PerType
    <3> QED
      BY <1>1, <3>2, <3>3, BatchAssumption, PerType
      DEF Shard, ShardBegin, ShardEnd, Workers
  <2> QED
    BY <1>1, <2>1, <2>2, BatchAssumption, PerType
<1>3. ASSUME NEW v \in Workers, NEW w \in Workers, q \in Shard(v), q \in Shard(w)
      PROVE  v = w
  <2>1. ASSUME NEW x \in Workers, NEW y \in Workers, x < y,
               q \in Shard(x), q \in Shard(y)
        PROVE  FALSE
    <3>1. ShardEnd(x) \in Int /\ ShardBegin(y) \in Int
      BY BatchAssumption, PerType DEF ShardEnd, ShardBegin, Workers
    <3> QED
      BY <1>1, <2>1, <3>1, ShardsInOrder DEF Shard
  <2> QED
    BY <1>3, <2>1, BatchAssumption DEF Workers
<1> QED
  BY Zenon, <1>2, <1>3

-----------------------------------------------------------------------------
(* What a worker has recorded: the part of its shard before its index,     *)
(* each query once, and nothing of the other shards.                       *)
Samples(w, d) == [q \in Queries |-> IF q \in Shard(w) /\ q < d THEN 1 ELSE 0]

(* A worker between its loop test and its record is at a query of its      *)
(* shard; one that has left the loop is past the end.                      *)
RecordInv ==
  /\ at \in [Workers -> Labels]
  /\ i \in [Workers -> Nat]
  /\ hist = [w \in Workers |-> Samples(w, i[w])]
  /\ \A w \in Workers :
       /\ i[w] >= ShardBegin(w)
       /\ at[w] \in {"lock", "index", "work"} => i[w] < ShardEnd(w)
       /\ at[w] = "exited" => i[w] >= ShardEnd(w)
  /\ BatchEachQueryOnce

(* A shard is an interval of the query stream.                             *)
LEMMA ShardBounds ==
  ASSUME NEW w \in Workers
  PROVE  /\ ShardBegin(w) \in Nat
         /\ ShardEnd(w) \in Nat
         /\ ShardBegin(w) <= ShardEnd(w)
         /\ ShardEnd(w) <= NQueries
<1>1. w \in Nat /\ w <= NWorkers - 1 /\ per \in Nat /\ NQueries \in Nat
      /\ NWorkers \in Nat /\ NWorkers > 0
  BY BatchAssumption, PerType DEF Workers
<1>2. ASSUME NEW a \in Nat, NEW b \in Nat, a <= b, NEW d \in Nat PROVE a * d <= b * d
  BY <1>2
<1>3. NWorkers * per <= NQueries
  BY <1>1 DEF per
<1>4. w * per <= (NWorkers - 1) * per
  BY <1>1, <1>2
<1>5. (NWorkers - 1) * per + per = NWorkers * per
  BY <1>1
<1>6. w * per \in Nat /\ (NWorkers - 1) * per \in Nat
  BY <1>1
<1> QED
  BY <1>1, <1>3, <1>4, <1>5, <1>6 DEF ShardBegin, ShardEnd

(* Nothing is recorded before the first query.                             *)
LEMMA RecordInit == BInit => RecordInv
<1> SUFFICES ASSUME BInit PROVE RecordInv
  OBVIOUS
<1>1. \A w \in Workers : Samples(w, ShardBegin(w)) = NoSamples
  <2> TAKE w \in Workers
  <2>1. \A q \in Queries : ~(q \in Shard(w) /\ q < ShardBegin(w))
    BY ShardBounds, BatchAssumption DEF Shard, Queries
  <2> QED
    BY <2>1 DEF Samples, NoSamples
<1>2. hist = [w \in Workers |-> Samples(w, i[w])]
  BY <1>1 DEF BInit, BInitGate
<1>3. i \in [Workers -> Nat]
  BY ShardBounds DEF BInit, BInitGate
<1>4. \A w \in Workers : i[w] >= ShardBegin(w) /\ at[w] = "unborn"
  BY ShardBounds DEF BInit, BInitGate
<1>5. BatchEachQueryOnce /\ at \in [Workers -> Labels]
  BY DEF BInit, BInitGate, BatchEachQueryOnce, Labels
<1> QED
  BY <1>2, <1>3, <1>4, <1>5 DEF RecordInv

(* A worker that moves without touching its index or histograms.           *)
LEMMA RecordKept ==
  ASSUME RecordInv, NEW w \in Workers, NEW l \in Labels, Move(w, l),
         l \in {"lock", "index", "work"} => i[w] < ShardEnd(w),
         l = "exited" => i[w] >= ShardEnd(w),
         UNCHANGED <<i, hist, result>>
  PROVE  RecordInv'
<1>1. at' \in [Workers -> Labels]
  BY Zenon DEF RecordInv, Move
<1>2. BatchEachQueryOnce'
  BY Zenon DEF RecordInv, BatchEachQueryOnce
<1>3. \A v \in Workers : at'[v] = IF v = w THEN l ELSE at[v]
  BY DEF RecordInv, Move
<1>4. \A v \in Workers :
        /\ i'[v] >= ShardBegin(v)
        /\ at'[v] \in {"lock", "index", "work"} => i'[v] < ShardEnd(v)
        /\ at'[v] = "exited" => i'[v] >= ShardEnd(v)
  BY Zenon, <1>3 DEF RecordInv
<1> QED
  BY <1>1, <1>2, <1>4 DEF RecordInv

(* Recording the current query of the shard.                               *)
LEMMA RecordRecords ==
  ASSUME RecordInv, NEW w \in Workers, Record(w)
  PROVE  RecordInv'
<1> DEFINE k == i[w]
<1>1. /\ k \in Nat /\ k \in Queries /\ k \in Shard(w) /\ k >= ShardBegin(w)
      /\ k < ShardEnd(w)
  BY ShardBounds, BatchAssumption DEF RecordInv, Record, Shard, Queries
<1>2. at' = [at EXCEPT ![w] = "loop"] /\ i' = [i EXCEPT ![w] = k + 1]
      /\ hist' = [hist EXCEPT ![w][k] = @ + 1] /\ UNCHANGED result
  BY DEF Record, Move
<1>3. \A v \in Workers : i'[v] = IF v = w THEN k + 1 ELSE i[v]
  BY <1>2 DEF RecordInv
<1>4. i' \in [Workers -> Nat] /\ at' \in [Workers -> Labels]
  BY <1>1, <1>2 DEF RecordInv, Labels, Inside
<1>5. \A v \in Workers : at'[v] = IF v = w THEN "loop" ELSE at[v]
  BY Zenon, <1>2 DEF RecordInv
<1>6. \A v \in Workers :
        /\ i'[v] >= ShardBegin(v)
        /\ at'[v] \in {"lock", "index", "work"} => i'[v] < ShardEnd(v)
        /\ at'[v] = "exited" => i'[v] >= ShardEnd(v)
  BY <1>1, <1>3, <1>5, ShardBounds DEF RecordInv
<1>7. [hist[w] EXCEPT ![k] = @ + 1] = Samples(w, k + 1)
  <2>1. hist[w] = Samples(w, k)
    BY Zenon DEF RecordInv
  <2>2. \A q \in Queries : q \in Int
    BY DEF Queries
  <2>3. ASSUME NEW q \in Queries
        PROVE  Samples(w, k + 1)[q] = IF q = k THEN Samples(w, k)[q] + 1
                                      ELSE Samples(w, k)[q]
    BY <1>1, <2>2 DEF Samples
  <2> QED
    BY Zenon, <1>1, <2>1, <2>3 DEF Samples
<1>8. hist' = [v \in Workers |-> Samples(v, i'[v])]
  <2>1. hist' = [hist EXCEPT ![w] = [hist[w] EXCEPT ![k] = @ + 1]]
    BY Zenon, <1>2
  <2> QED
    BY Zenon, <1>3, <1>7, <2>1 DEF RecordInv
<1>9. BatchEachQueryOnce'
  BY Zenon, <1>2 DEF RecordInv, BatchEachQueryOnce
<1> QED
  BY Zenon, <1>4, <1>6, <1>8, <1>9 DEF RecordInv

(* Merging: the shards partition the queries, so each is counted by        *)
(* exactly one worker.                                                     *)
LEMMA RecordJoins == RecordInv /\ Join => RecordInv'
<1> SUFFICES ASSUME RecordInv, Join PROVE RecordInv'
  OBVIOUS
<1>1. ASSUME NEW q \in Queries
      PROVE  SumFunction([w \in Workers |-> hist[w][q]]) = 1
  <2> DEFINE g == [w \in Workers |-> hist[w][q]]
  <2>1. PICK y \in Workers : q \in Shard(y)
    BY Zenon, ShardsPartition
  <2>2. \A w \in Workers : i[w] >= ShardEnd(w)
    BY Zenon DEF Join, RecordInv
  <2>3. \A w \in Workers : g[w] = IF q \in Shard(w) THEN 1 ELSE 0
    <3> TAKE w \in Workers
    <3>1. q \in Shard(w) => q < i[w]
      BY <2>2, ShardBounds DEF Shard, RecordInv
    <3> QED
      BY <3>1 DEF RecordInv, Samples
  <2>4. \A w \in Workers : w # y => g[w] = 0
    BY Zenon, <2>1, <2>3, ShardsPartition
  <2>5. g[y] = 1
    BY Zenon, <2>1, <2>3
  <2>6. IsFiniteSet(Workers)
    BY FS_Interval, BatchAssumption DEF Workers
  <2>7. DOMAIN g = Workers
    BY Zenon
  <2> HIDE DEF g
  <2>8. SumFunctionOnSet(g, Workers) = 1
    BY <2>4, <2>5, <2>6, SumOne
  <2> QED
    BY <2>7, <2>8 DEF SumFunction, g
<1>2. result'.joined /\ result'.h = [q \in Queries |-> 1]
  BY Zenon, <1>1 DEF Join
<1>3. BatchEachQueryOnce'
  BY <1>2 DEF BatchEachQueryOnce
<1>4. UNCHANGED <<at, i, hist>>
  BY Zenon DEF Join
<1> QED
  BY Zenon, <1>3, <1>4 DEF RecordInv

(* Every step keeps the books.                                             *)
LEMMA RecordStep == RecordInv /\ [BNext]_bvars => RecordInv'
<1> SUFFICES ASSUME RecordInv, [BNext]_bvars PROVE RecordInv'
  OBVIOUS
<1> USE DEF Labels, Inside
<1>1. CASE Spawn
  <2>1. spawned \in Workers \/ at' = at
    BY <1>1 DEF Spawn, Move, RecordInv
  <2>2. CASE spawned \in Workers
    BY <1>1, <2>2, RecordKept DEF Spawn
  <2>3. CASE at' = at
    BY <1>1, <2>3, Zenon DEF Spawn, RecordInv, BatchEachQueryOnce
  <2> QED
    BY <2>1, <2>2, <2>3
<1>2. ASSUME NEW w \in Workers, WorkerStep(w) PROVE RecordInv'
  <2>1. CASE ArriveAtGate(w)
    BY Zenon, <2>1, RecordKept DEF ArriveAtGate
  <2>2. CASE PassGate(w)
    BY <2>2, RecordKept DEF PassGate, Pass
  <2>3. CASE Sample(w)
    BY <2>3, RecordKept DEF Sample
  <2>4. CASE Acquire(w)
    BY Zenon, <2>4, RecordKept DEF Acquire, RecordInv
  <2>5. CASE Release(w)
    BY Zenon, <2>5, RecordKept DEF Release, RecordInv
  <2>6. CASE Record(w)
    BY <2>6, RecordRecords
  <2>7. CASE Leave(w)
    BY <2>7, RecordKept DEF Leave
  <2> QED
    BY Zenon, <1>2, <2>1, <2>2, <2>3, <2>4, <2>5, <2>6, <2>7 DEF WorkerStep
<1>3. CASE Join
  BY <1>3, RecordJoins
<1>4. CASE UNCHANGED bvars
  BY Zenon, <1>4 DEF bvars, RecordInv, BatchEachQueryOnce
<1> QED
  BY <1>1, <1>2, <1>3, <1>4 DEF BNext, Terminated

(* run_batch's merged histograms hold exactly one sample of every query,   *)
(* for any number of queries and of workers.                               *)
THEOREM BatchServesEachOnce == BSpec => []BatchEachQueryOnce
<1>1. RecordInv => BatchEachQueryOnce
  BY DEF RecordInv
<1> QED
  BY <1>1, RecordInit, RecordStep, PTL DEF BSpec

-----------------------------------------------------------------------------
(* PoissonClock: a recorded duration is a difference of two readings made  *)
(* by different threads.  The invariant says in which order the readings   *)
(* of one query were made, whatever step of its way it is at.              *)

(* The queries whose entry has a time stamp.                               *)
Stamped(q) == q \in 1 .. n /\ (q = n => prod # "spin")

(* Where the producer and the queue are.                                   *)
ProducerTypes ==
  /\ now \in 0 .. MaxTime
  /\ arrival \in Seq(Nat)
  /\ n \in 1 .. Len(arrival) + 1
  /\ prod \in {"spin", "offer", "full"}
  /\ prod # "spin" => n <= Len(arrival)
  /\ prod = "full" => n \in blocked
  /\ stamp \in [1 .. Len(arrival) -> Int]
  /\ lag \in [1 .. Len(arrival) -> 0 .. MaxTime]
  /\ \A q \in blocked : Stamped(q)
  /\ fifo \in Seq(Nat)
  /\ \A j \in 1 .. Len(fifo) : fifo[j] \in 1 .. n - 1

(* A query is due, then stamped; its lateness is all of the time between   *)
(* unless the stamp was refreshed.  It was due when the lateness says, and *)
(* that is after the query before it had its last stamp.                   *)
StampInv ==
  \A q \in 1 .. Len(arrival) : Stamped(q) =>
    /\ arrival[q] + lag[q] <= stamp[q]
    /\ stamp[q] <= now
    /\ q \notin blocked => stamp[q] = arrival[q] + lag[q]
    /\ q > 1 => stamp[q - 1] <= arrival[q] + lag[q]

(* A client reads the clock after its query was stamped, and in order.     *)
ClientInv(me) ==
  /\ me.q = 0 => me.start = NoTime /\ me.lookup = NoTime
  /\ me.q # 0 => me.q < n
  /\ me.start # NoTime => stamp[me.q] <= me.start /\ me.start <= now
  /\ me.lookup # NoTime =>
       me.start # NoTime /\ me.start <= me.lookup /\ me.lookup <= now

ClientsInv ==
  /\ client \in [CClients -> [q : Nat, start : Int, lookup : Int]]
  /\ \A c \in CClients : ClientInv(client[c])

(* The record r of the query q.                                            *)
RecordOf(q, r) ==
  /\ q < n
  /\ r.end \in Nat /\ stamp[q] <= r.end /\ r.end <= MaxTime
  /\ r.e2e = r.end - stamp[q]
  /\ r.e2e = r.queue + r.service
  /\ r.service = r.lookup + r.poll

RecordsInv ==
  /\ DOMAIN rec = 1 .. Len(arrival)
  /\ \A q \in Recorded : RecordOf(q, rec[q])

ClockInv == ProducerTypes /\ StampInv /\ ClientsInv /\ RecordsInv

-----------------------------------------------------------------------------
(* A difference of two readings in order does not wrap.                    *)
LEMMA NoWrap ==
  ASSUME NEW a \in 0 .. MaxTime, NEW b \in 0 .. MaxTime, b <= a
  PROVE  Minus(a, b) = a - b
<1>1. MaxTime \in Nat /\ MaxTime > 0
  BY ClockAssumption
<1>2. a - b \in 0 .. WRAP - 1 /\ WRAP \in Nat \ {0}
  BY <1>1 DEF WRAP
<1>3. ASSUME NEW x \in Nat, NEW w \in Nat \ {0}, x < w PROVE x % w = x
  BY <1>3
<1> QED
  BY <1>2, <1>3 DEF Minus

(* The numbers that the steps below compare.                               *)
LEMMA ClockTypes ==
  ASSUME ProducerTypes
  PROVE  /\ MaxTime \in Nat /\ now \in Nat /\ n \in Nat /\ Len(arrival) \in Nat
         /\ \A q \in 1 .. Len(arrival) :
              arrival[q] \in Nat /\ lag[q] \in Nat /\ stamp[q] \in Int
<1>1. MaxTime \in Nat /\ now \in Nat /\ Len(arrival) \in Nat
  BY ClockAssumption DEF ProducerTypes
<1>2. ASSUME NEW q \in 1 .. Len(arrival)
      PROVE  arrival[q] \in Nat /\ lag[q] \in Nat /\ stamp[q] \in Int
  <2>1. lag[q] \in 0 .. MaxTime
    BY Zenon DEF ProducerTypes
  <2>2. arrival[q] \in Nat
    BY SMTT(30) DEF ProducerTypes
  <2>3. stamp[q] \in Int
    BY Zenon DEF ProducerTypes
  <2> QED
    BY <1>1, <2>1, <2>2, <2>3
<1>3. n \in Nat
  BY <1>1 DEF ProducerTypes
<1> QED
  BY <1>1, <1>2, <1>3

(* What the invariant says of one stamped query.                           *)
LEMMA StampOf ==
  ASSUME ClockInv, NEW q \in 1 .. Len(arrival), Stamped(q)
  PROVE  /\ arrival[q] \in Nat /\ lag[q] \in Nat /\ stamp[q] \in Int /\ stamp[q] >= 0
         /\ arrival[q] + lag[q] <= stamp[q]
         /\ q \notin blocked => stamp[q] = arrival[q] + lag[q]
         /\ q > 1 => stamp[q - 1] <= arrival[q] + lag[q]
<1>1. ProducerTypes /\ StampInv
  BY DEF ClockInv
<1>2. arrival[q] \in Nat /\ lag[q] \in Nat /\ stamp[q] \in Int
  BY <1>1, ClockTypes
<1>3. /\ arrival[q] + lag[q] <= stamp[q]
      /\ q \notin blocked => stamp[q] = arrival[q] + lag[q]
      /\ q > 1 => stamp[q - 1] <= arrival[q] + lag[q]
  BY Zenon, <1>1 DEF StampInv
<1>4. stamp[q] >= 0
  BY <1>2, <1>3
<1> QED
  BY <1>2, <1>3, <1>4

(* run_poisson starts in the invariant.                                    *)
LEMMA ClockInitInv == ClockInit => ClockInv
<1> SUFFICES ASSUME ClockInit PROVE ClockInv
  OBVIOUS
<1>1. ProducerTypes
  BY ClockAssumption DEF ClockInit, ProducerTypes, Stamped, NoTime
<1>2. StampInv
  BY ClockAssumption DEF ClockInit, StampInv, Stamped
<1>3. ClientsInv
  BY DEF ClockInit, ClientsInv, ClientInv, Idle, NoTime
<1>4. RecordsInv
  BY ClockAssumption DEF ClockInit, RecordsInv, Recorded
<1> QED
  BY <1>1, <1>2, <1>3, <1>4 DEF ClockInv

(* The clock advances: every reading stays in the past.                    *)
LEMMA AdvanceInv == ClockInv /\ Advance => ClockInv'
<1> SUFFICES ASSUME ClockInv, Advance PROVE ClockInv'
  OBVIOUS
<1> USE DEF ClockInv, Advance
<1>1. ProducerTypes'
  BY ClockAssumption DEF ProducerTypes, Stamped
<1>2. StampInv'
  BY ClockTypes DEF StampInv, Stamped
<1>3. ClientsInv'
  BY SMTT(30) DEF ClientsInv, ClientInv, ProducerTypes, NoTime
<1>4. RecordsInv'
  BY DEF RecordsInv, Recorded, RecordOf, NoRecord
<1> QED
  BY <1>1, <1>2, <1>3, <1>4

(* The producer stamps the query n, which nobody else has seen.            *)
LEMMA StampStepInv == ClockInv /\ Stamp => ClockInv'
<1> SUFFICES ASSUME ClockInv, Stamp PROVE ClockInv'
  OBVIOUS
<1>0. MakeEntry(now)
  BY DEF Stamp
<1> USE <1>0 DEF ClockInv, MakeEntry
<1>1. /\ n \in 1 .. Len(arrival) /\ arrival[n] \in Nat
      /\ lag' = [lag EXCEPT ![n] = now - arrival[n]]
  <2>1. n \in 1 .. Len(arrival)
    BY DEF ProducerTypes
  <2>2. arrival[n] \in 0 .. MaxTime /\ now \in 0 .. MaxTime
    BY SMTT(30), <2>1, ClockTypes DEF ProducerTypes
  <2>3. Minus(now, arrival[n]) = now - arrival[n]
    BY <2>2, NoWrap
  <2> QED
    BY <2>1, <2>2, <2>3
<1>2. ProducerTypes'
  BY SMTT(60), <1>1, ClockAssumption DEF ProducerTypes, Stamped
<1>3. n \notin blocked
  BY DEF ProducerTypes, Stamped
<1>4. StampInv'
  <2> SUFFICES ASSUME NEW q \in 1 .. Len(arrival), Stamped(q)'
               PROVE  /\ arrival[q] + lag'[q] <= stamp'[q]
                      /\ stamp'[q] <= now
                      /\ q \notin blocked => stamp'[q] = arrival[q] + lag'[q]
                      /\ q > 1 => stamp'[q - 1] <= arrival[q] + lag'[q]
    BY DEF StampInv
  <2>1. CASE q = n
    <3>1. stamp'[n] = now /\ arrival[n] + lag'[n] = now
      BY SMTT(30), <1>1 DEF ProducerTypes
    <3>2. n > 1 => Stamped(n - 1) /\ stamp'[n - 1] = stamp[n - 1]
      BY <1>1 DEF ProducerTypes, Stamped
    <3> QED
      BY <1>1, <2>1, <3>1, <3>2 DEF StampInv, ProducerTypes
  <2>2. CASE q # n
    <3>1. Stamped(q) /\ q < n
      BY <2>2, ClockTypes DEF Stamped
    <3>2. stamp'[q] = stamp[q] /\ lag'[q] = lag[q]
      BY <1>1, <2>2 DEF ProducerTypes
    <3>3. q > 1 => stamp'[q - 1] = stamp[q - 1]
      BY <3>1, ClockTypes DEF ProducerTypes
    <3> QED
      BY <3>1, <3>2, <3>3 DEF StampInv
  <2> QED
    BY <2>1, <2>2
<1>5. \A q \in 1 .. Len(arrival) : q < n => stamp'[q] = stamp[q]
  BY DEF ProducerTypes
<1>6. ClientsInv'
  <2>1. n \in 1 .. Len(arrival) + 1 /\ Len(arrival) \in Nat
    BY ClockTypes DEF ProducerTypes
  <2> QED
    BY <1>5, <2>1 DEF ClientsInv, ClientInv, NoTime
<1>7. RecordsInv'
  BY <1>5 DEF RecordsInv, Recorded, RecordOf
<1> QED
  BY <1>2, <1>4, <1>6, <1>7

(* The entry enters the queue, or is found not to fit.                     *)
LEMMA OfferInv == ClockInv /\ Offer => ClockInv'
<1> SUFFICES ASSUME ClockInv, Offer PROVE ClockInv'
  OBVIOUS
<1> USE DEF ClockInv, Offer
<1>1. ProducerTypes'
  <2>1. CASE fifo' = Append(fifo, n) /\ n' = n + 1 /\ prod' = "spin" /\ UNCHANGED blocked
    BY SMTT(60), <2>1 DEF ProducerTypes, Stamped
  <2>2. CASE blocked' = blocked \cup {n} /\ prod' = "full" /\ UNCHANGED <<fifo, n>>
    BY <2>2 DEF ProducerTypes, Stamped
  <2> QED
    BY <2>1, <2>2
<1>2. StampInv'
  <2>1. \A q \in 1 .. Len(arrival) : Stamped(q)' => Stamped(q)
    BY ClockTypes DEF Stamped
  <2>2. blocked \subseteq blocked'
    OBVIOUS
  <2> QED
    BY <2>1, <2>2 DEF StampInv
<1>3. n' \in Nat /\ n <= n'
  BY SMTT(30) DEF ProducerTypes
<1>4. ClientsInv'
  BY SMTT(30), <1>3 DEF ClientsInv, ClientInv, ProducerTypes
<1>5. RecordsInv'
  BY <1>3 DEF RecordsInv, Recorded, RecordOf, ProducerTypes
<1> QED
  BY <1>1, <1>2, <1>4, <1>5

(* The query n, which does not fit yet, is stamped again.                  *)
LEMMA RefreshInv == ClockInv /\ Refresh => ClockInv'
<1> SUFFICES ASSUME ClockInv, Refresh PROVE ClockInv'
  OBVIOUS
<1> USE DEF ClockInv, Refresh
<1>1. ProducerTypes'
  BY SMTT(30), ClockAssumption DEF ProducerTypes, Stamped
<1>2. \A q \in 1 .. Len(arrival) : stamp'[q] = IF q = n THEN now ELSE stamp[q]
  BY DEF ProducerTypes
<1>3. StampInv'
  <2> SUFFICES ASSUME NEW q \in 1 .. Len(arrival), Stamped(q)'
               PROVE  /\ arrival[q] + lag[q] <= stamp'[q]
                      /\ stamp'[q] <= now
                      /\ q \notin blocked => stamp'[q] = arrival[q] + lag[q]
                      /\ q > 1 => stamp'[q - 1] <= arrival[q] + lag[q]
    BY DEF StampInv
  <2>1. Stamped(q) /\ q <= n
    BY ClockTypes DEF Stamped
  <2>2. q > 1 => stamp'[q - 1] = stamp[q - 1]
    BY <1>2, <2>1, ClockTypes
  <2>3. n \in blocked
    BY DEF ProducerTypes
  <2> QED
    BY SMTT(30), <1>2, <2>1, <2>2, <2>3, ClockTypes DEF StampInv
<1>4. n \in 1 .. Len(arrival) + 1 /\ Len(arrival) \in Nat
  BY ClockTypes DEF ProducerTypes
<1>5. ClientsInv'
  BY <1>2, <1>4 DEF ClientsInv, ClientInv, NoTime
<1>6. RecordsInv'
  BY <1>2, <1>4 DEF RecordsInv, Recorded, RecordOf
<1> QED
  BY <1>1, <1>3, <1>5, <1>6

(* A step of a client leaves the producer's part alone.                    *)
LEMMA ClientKeeps ==
  ASSUME ClockInv, UNCHANGED <<now, arrival, n, prod, stamp, lag, blocked>>
  PROVE  /\ StampInv'
         /\ UNCHANGED fifo => ProducerTypes'
         /\ UNCHANGED rec => RecordsInv'
<1>1. StampInv'
  BY DEF ClockInv, StampInv, Stamped
<1>2. UNCHANGED fifo => ProducerTypes'
  BY DEF ClockInv, ProducerTypes, Stamped
<1>3. UNCHANGED rec => RecordsInv'
  BY DEF ClockInv, RecordsInv, Recorded, RecordOf
<1> QED
  BY <1>1, <1>2, <1>3

(* The invariant of the clients when one of them has become new.           *)
LEMMA ClientBecomes ==
  ASSUME ClockInv, NEW c \in CClients, NEW new, Becomes(c, new),
         new \in [q : Nat, start : Int, lookup : Int], ClientInv(new)
  PROVE  ClientsInv'
<1>1. \A d \in CClients : client'[d] = IF d = c THEN new ELSE client[d]
  BY DEF Becomes, ClockInv, ClientsInv
<1>2. client' \in [CClients -> [q : Nat, start : Int, lookup : Int]]
  BY DEF Becomes, ClockInv, ClientsInv
<1>3. ASSUME NEW d \in CClients PROVE ClientInv(client'[d])
  BY <1>1 DEF ClockInv, ClientsInv
<1>4. ASSUME NEW d \in CClients PROVE ClientInv(client[d])'
  BY <1>3 DEF Becomes, ClientInv
<1> QED
  BY <1>2, <1>4 DEF ClientsInv

(* A client that takes a query has not read the clock for it.              *)
LEMMA TakeInv ==
  ASSUME ClockInv, NEW c \in CClients, Take(c)
  PROVE  ClockInv'
<1> DEFINE new == [client[c] EXCEPT !.q = Head(fifo)]
<1>1. fifo \in Seq(Nat) /\ fifo # <<>> /\ n \in Nat
  BY ClockTypes DEF Take, ClockInv, ProducerTypes
<1>2. Head(fifo) \in Nat /\ Head(fifo) \in 1 .. n - 1
  BY SMTT(30), <1>1 DEF ClockInv, ProducerTypes
<1>3. client[c] \in [q : Nat, start : Int, lookup : Int] /\ ClientInv(client[c])
  BY DEF ClockInv, ClientsInv
<1>4. new \in [q : Nat, start : Int, lookup : Int] /\ ClientInv(new)
  BY SMTT(30), <1>1, <1>2, <1>3 DEF ClientInv, Take
<1>5. ClientsInv'
  BY Zenon, <1>4, ClientBecomes DEF Take
<1>6. ProducerTypes'
  <2>1. fifo' \in Seq(Nat) /\ Len(fifo') = Len(fifo) - 1
    BY <1>1 DEF Take
  <2>2. \A j \in 1 .. Len(fifo') : fifo'[j] = fifo[j + 1] /\ j + 1 \in 1 .. Len(fifo)
    BY SMTT(60), <1>1 DEF Take
  <2> QED
    BY <2>1, <2>2 DEF ClockInv, ProducerTypes, Stamped, Take, Becomes
<1> QED
  BY <1>5, <1>6, ClientKeeps DEF Take, Becomes, ClockInv

(* A client reads the clock before the index call.                         *)
LEMMA StartInv ==
  ASSUME ClockInv, NEW c \in CClients, Start(c)
  PROVE  ClockInv'
<1> DEFINE new == [client[c] EXCEPT !.start = now]
<1>1. client[c] \in [q : Nat, start : Int, lookup : Int] /\ ClientInv(client[c])
  BY DEF ClockInv, ClientsInv
<1>2. client[c].q \in 1 .. Len(arrival) /\ Stamped(client[c].q) /\ now \in Nat
  BY SMTT(60), <1>1, ClockTypes DEF Start, ClientInv, Stamped, ClockInv, ProducerTypes
<1>3. stamp[client[c].q] <= now
  BY <1>2 DEF ClockInv, StampInv
<1>4. new \in [q : Nat, start : Int, lookup : Int] /\ ClientInv(new)
  BY <1>1, <1>2, <1>3 DEF ClientInv, Start
<1>5. ClientsInv'
  BY <1>4, ClientBecomes DEF Start
<1> QED
  BY <1>5, ClientKeeps DEF Start, Becomes, ClockInv

(* A client reads the clock after the index call.                          *)
LEMMA LookedUpInv ==
  ASSUME ClockInv, NEW c \in CClients, LookedUp(c)
  PROVE  ClockInv'
<1> DEFINE new == [client[c] EXCEPT !.lookup = now]
<1>1. client[c] \in [q : Nat, start : Int, lookup : Int] /\ ClientInv(client[c])
  BY DEF ClockInv, ClientsInv
<1>2. new \in [q : Nat, start : Int, lookup : Int] /\ ClientInv(new)
  BY SMTT(30), <1>1, ClockTypes DEF ClientInv, LookedUp, ClockInv
<1>3. ClientsInv'
  BY <1>2, ClientBecomes DEF LookedUp
<1> QED
  BY <1>3, ClientKeeps DEF LookedUp, Becomes, ClockInv

(* Where a client is that has looked up its query: the readings are there  *)
(* and in order.                                                           *)
LEMMA FinishReadings ==
  ASSUME ClockInv, NEW c \in CClients, Finish(c), NEW me, me = client[c]
  PROVE  /\ me.q \in 1 .. Len(arrival) /\ me.q < n
         /\ stamp[me.q] \in 0 .. MaxTime /\ me.start \in 0 .. MaxTime
         /\ me.lookup \in 0 .. MaxTime /\ now \in 0 .. MaxTime
         /\ stamp[me.q] <= me.start /\ me.start <= me.lookup /\ me.lookup <= now
<1>1. me \in [q : Nat, start : Int, lookup : Int] /\ ClientInv(me)
  BY DEF ClockInv, ClientsInv
<1>2. me.lookup # NoTime /\ me.q # 0
  BY <1>1 DEF Finish, Complete, ClientInv
<1>3. /\ me.q \in Nat /\ me.q < n /\ me.start \in Int /\ me.lookup \in Int
      /\ stamp[me.q] <= me.start /\ me.start <= me.lookup /\ me.lookup <= now
  BY <1>1, <1>2 DEF ClientInv
<1>4. /\ n \in 1 .. Len(arrival) + 1 /\ Len(arrival) \in Nat /\ MaxTime \in Nat
      /\ now \in 0 .. MaxTime
  BY ClockTypes DEF ClockInv, ProducerTypes
<1>5. me.q \in 1 .. Len(arrival) /\ me.q \in 1 .. n /\ me.q # n
  BY SMTT(30), <1>2, <1>3, <1>4
<1>6. stamp[me.q] \in Int /\ stamp[me.q] >= 0
  BY <1>5, StampOf DEF Stamped
<1>7. me.start \in 0 .. MaxTime /\ me.lookup \in 0 .. MaxTime /\ stamp[me.q] \in 0 .. MaxTime
  <2>1. /\ stamp[me.q] \in Int /\ 0 <= stamp[me.q] /\ stamp[me.q] <= me.start
        /\ me.start \in Int /\ me.start <= me.lookup
        /\ me.lookup \in Int /\ me.lookup <= now
        /\ now \in Int /\ now <= MaxTime /\ MaxTime \in Int
    BY <1>3, <1>4, <1>6
  <2> QED
    BY <2>1
<1> QED
  BY Zenon, <1>3, <1>4, <1>5, <1>7

(* A client records its query, whose readings were made in order.          *)
LEMMA FinishInv ==
  ASSUME ClockInv, NEW c \in CClients, Finish(c)
  PROVE  ClockInv'
<1>1. PICK me : me = client[c]
  OBVIOUS
<1>2. PICK r : r = [service |-> now - me.start, lookup |-> me.lookup - me.start,
                    poll |-> now - me.lookup, queue |-> me.start - stamp[me.q],
                    e2e |-> now - stamp[me.q], end |-> now]
  BY Zenon
<1>3. /\ me.q \in 1 .. Len(arrival) /\ me.q < n
      /\ stamp[me.q] \in 0 .. MaxTime /\ me.start \in 0 .. MaxTime
      /\ me.lookup \in 0 .. MaxTime /\ now \in 0 .. MaxTime
      /\ stamp[me.q] <= me.start /\ me.start <= me.lookup /\ me.lookup <= now
  BY Zenon, <1>1, FinishReadings
<1>4. /\ Minus(now, me.start) = r.service /\ Minus(me.lookup, me.start) = r.lookup
      /\ Minus(now, me.lookup) = r.poll /\ Minus(me.start, stamp[me.q]) = r.queue
      /\ Minus(now, stamp[me.q]) = r.e2e /\ r.end = now
      /\ r.e2e = now - stamp[me.q] /\ r.e2e = r.queue + r.service
      /\ r.service = r.lookup + r.poll
  <2>1. me.start <= now /\ stamp[me.q] <= now
    BY <1>3
  <2>2. /\ Minus(now, me.start) = now - me.start
        /\ Minus(me.lookup, me.start) = me.lookup - me.start
        /\ Minus(now, me.lookup) = now - me.lookup
        /\ Minus(me.start, stamp[me.q]) = me.start - stamp[me.q]
        /\ Minus(now, stamp[me.q]) = now - stamp[me.q]
    BY Zenon, <1>3, <2>1, NoWrap
  <2>3. /\ now - stamp[me.q] = (me.start - stamp[me.q]) + (now - me.start)
        /\ now - me.start = (me.lookup - me.start) + (now - me.lookup)
    BY SMTT(30), <1>3
  <2>4. /\ r.service = now - me.start /\ r.lookup = me.lookup - me.start
        /\ r.poll = now - me.lookup /\ r.queue = me.start - stamp[me.q]
        /\ r.e2e = now - stamp[me.q] /\ r.end = now
    BY <1>2
  <2> QED
    BY Zenon, <2>2, <2>3, <2>4
<1>5. rec' = [rec EXCEPT ![me.q] = r]
  BY Zenon, <1>1, <1>2, <1>4 DEF Finish, Complete
<1>6. RecordOf(me.q, r)
  <2>1. now \in Nat /\ stamp[me.q] <= now /\ now <= MaxTime
    BY <1>3, ClockAssumption
  <2> QED
    BY Zenon, <1>3, <1>4, <2>1 DEF RecordOf
<1>7. RecordsInv'
  <2>1. DOMAIN rec = 1 .. Len(arrival) /\ DOMAIN rec' = 1 .. Len(arrival)
    BY <1>5 DEF ClockInv, RecordsInv
  <2>2. ASSUME NEW q \in Recorded' PROVE RecordOf(q, rec'[q])
    <3>1. CASE q = me.q
      BY <1>3, <1>5, <1>6, <2>1, <3>1
    <3>2. CASE q # me.q
      BY <1>5, <2>1, <2>2, <3>2 DEF Recorded, ClockInv, RecordsInv
    <3> QED
      BY <3>1, <3>2
  <2>3. UNCHANGED <<n, stamp, arrival>>
    BY DEF Finish, Complete, Becomes
  <2> QED
    BY <2>1, <2>2, <2>3 DEF RecordsInv, RecordOf
<1>8. Idle \in [q : Nat, start : Int, lookup : Int] /\ ClientInv(Idle)
  BY DEF Idle, NoTime, ClientInv
<1>9. ClientsInv'
  BY <1>8, ClientBecomes DEF Finish, Complete
<1> QED
  BY Zenon, <1>7, <1>9, ClientKeeps DEF Finish, Complete, Becomes, ClockInv

-----------------------------------------------------------------------------
(* The invariant holds in every reachable state, for any set of clients,   *)
(* any schedules and any capacity of the queue (bench.cpp:246-320,         *)
(* 552-573).                                                               *)
THEOREM ClockInvariant == ClockSpec => []ClockInv
<1>1. ClockInv /\ UNCHANGED clockvars => ClockInv'
  BY ZenonT(60) DEF clockvars, ClockInv, ProducerTypes, StampInv, ClientsInv, ClientInv, RecordsInv,
         Recorded, RecordOf, Stamped
<1>2. ClockInv /\ [ClockNext]_clockvars => ClockInv'
  <2> SUFFICES ASSUME ClockInv, ClockNext PROVE ClockInv'
    BY <1>1
  <2>1. CASE Advance \/ Stamp \/ Offer \/ Refresh
    BY <2>1, AdvanceInv, StampStepInv, OfferInv, RefreshInv
  <2>2. ASSUME NEW c \in CClients, Take(c) \/ Start(c) \/ LookedUp(c) \/ Finish(c)
        PROVE  ClockInv'
    BY <2>2, TakeInv, StartInv, LookedUpInv, FinishInv
  <2> QED
    BY <2>1, <2>2 DEF ClockNext
<1> QED
  BY ClockInitInv, <1>2, PTL DEF ClockSpec

(* No duration that a client or the producer records wraps, and the parts  *)
(* add up (bench.cpp:246-252, 312-320).                                    *)
THEOREM ClockAddsUp == ClockSpec => []DurationsAddUp
<1>1. ClockInv => DurationsAddUp
  <2> SUFFICES ASSUME ClockInv PROVE DurationsAddUp
    OBVIOUS
  <2>1. ASSUME NEW q \in Recorded PROVE RecordOf(q, rec[q]) /\ rec[q].e2e <= MaxTime
    <3>1. RecordOf(q, rec[q]) /\ q \in 1 .. Len(arrival)
      BY DEF ClockInv, RecordsInv, Recorded
    <3>2. Stamped(q)
      BY <3>1, ClockTypes DEF RecordOf, Stamped, ClockInv
    <3>3. stamp[q] \in Int /\ stamp[q] >= 0 /\ MaxTime \in Nat
      BY <3>1, <3>2, StampOf, ClockAssumption
    <3> QED
      BY <3>1, <3>3 DEF RecordOf
  <2>2. \A q \in DOMAIN lag : lag[q] <= MaxTime
    <3>1. lag \in [1 .. Len(arrival) -> 0 .. MaxTime] /\ MaxTime \in Nat
      BY ClockAssumption DEF ClockInv, ProducerTypes
    <3> QED
      BY <3>1
  <2>3. ASSUME NEW q \in Recorded
        PROVE  /\ rec[q].e2e <= MaxTime
               /\ rec[q].e2e = rec[q].queue + rec[q].service
               /\ rec[q].service = rec[q].lookup + rec[q].poll
    BY <2>1 DEF RecordOf
  <2> QED
    BY Zenon, <2>2, <2>3 DEF DurationsAddUp
<1> QED
  BY ClockInvariant, <1>1, PTL

(* Lateness and end-to-end time account for the whole response, unless the *)
(* query met a full queue and its stamp was refreshed (bench.cpp:569).     *)
THEOREM ClockAccounts == ClockSpec => []ResponseAccounted
<1>1. ClockInv => ResponseAccounted
  <2> SUFFICES ASSUME ClockInv, NEW q \in Recorded
               PROVE  /\ q \in blocked => lag[q] + rec[q].e2e <= rec[q].end - arrival[q]
                      /\ q \notin blocked => lag[q] + rec[q].e2e = rec[q].end - arrival[q]
    BY DEF ResponseAccounted
  <2>1. RecordOf(q, rec[q]) /\ q \in 1 .. Len(arrival)
    BY DEF ClockInv, RecordsInv, Recorded
  <2>2. Stamped(q)
    BY <2>1, ClockTypes DEF RecordOf, Stamped, ClockInv
  <2>3. /\ arrival[q] \in Nat /\ lag[q] \in Nat /\ stamp[q] \in Int
        /\ arrival[q] + lag[q] <= stamp[q]
        /\ q \notin blocked => stamp[q] = arrival[q] + lag[q]
    BY <2>1, <2>2, StampOf
  <2>4. rec[q].end \in Nat /\ rec[q].e2e = rec[q].end - stamp[q]
    BY <2>1 DEF RecordOf
  <2> QED
    BY <2>3, <2>4
<1> QED
  BY ClockInvariant, <1>1, PTL

(* The wait that a refreshed stamp hides shows in the lateness of the next *)
(* query, which main warns about (bench.cpp:951-954).                      *)
THEOREM ClockShowsWait == ClockSpec => []WaitDelaysNext
<1>1. ClockInv => WaitDelaysNext
  <2> SUFFICES ASSUME ClockInv, NEW q \in blocked, q + 1 < n
               PROVE  arrival[q + 1] + lag[q + 1] >= stamp[q]
    BY DEF WaitDelaysNext
  <2>1. q \in 1 .. n /\ n \in 1 .. Len(arrival) + 1 /\ Len(arrival) \in Nat
    BY ClockTypes DEF ClockInv, ProducerTypes, Stamped
  <2>2. q \in Nat /\ q + 1 > 1 /\ q + 1 \in 1 .. Len(arrival) /\ q + 1 \in 1 .. n
        /\ q + 1 # n /\ (q + 1) - 1 = q
    BY <2>1
  <2>3. Stamped(q + 1)
    BY <2>2 DEF Stamped
  <2>4. /\ stamp[(q + 1) - 1] <= arrival[q + 1] + lag[q + 1]
        /\ arrival[q + 1] \in Nat /\ lag[q + 1] \in Nat
    BY <2>2, <2>3, StampOf
  <2>5. stamp[q] \in Int
    BY <2>1, <2>2, ClockTypes DEF ClockInv
  <2> QED
    BY <2>2, <2>4, <2>5
<1> QED
  BY ClockInvariant, <1>1, PTL

-----------------------------------------------------------------------------
(* OpMix: the table is filled up to a target for each operation.  The      *)
(* invariant relates the targets so far to the exact cumulative shares.    *)

(* The targets T of the operations before i, in order: each within one bin *)
(* of the cumulative share below it, and none past the one after it; an    *)
(* operation without weight gets no bin, but for the last.                 *)
Targets(T) ==
  /\ T \in [0 .. 5 -> 0 .. BINS]
  /\ \A k \in 0 .. 5 : k < next =>
       Upto(k) * BINS - Total <= T[k] * Total /\ T[k] * Total <= Upto(k) * BINS
  /\ \A k \in 1 .. 5 : k < next =>
       T[k - 1] <= T[k] /\ (weight[k] = 0 /\ k < 5 => T[k] = T[k - 1])
  /\ T[0] = 0 /\ (next > 5 => T[5] = BINS)

(* The bins between two targets hold the operation of the second.          *)
MixInv ==
  /\ weight \in [1 .. 5 -> Nat] /\ Total > 0 /\ next \in 1 .. 7
  /\ \E T : /\ Targets(T)
            /\ table \in Seq(Range(OpOrder)) /\ Len(table) = target
            /\ target = T[IF next = 7 THEN 5 ELSE next - 1]
            /\ \A k \in 1 .. 5 : k < next =>
                 \A x \in T[k - 1] + 1 .. T[k] : table[x] = OpOrder[k]

(* The cumulative weights.                                                 *)
LEMMA UptoFacts ==
  ASSUME weight \in [1 .. 5 -> Nat]
  PROVE  /\ \A k \in 0 .. 5 : Upto(k) \in Nat /\ Upto(k) <= Total
         /\ Upto(0) = 0 /\ Total \in Nat
         /\ \A k \in 1 .. 5 : Upto(k) = Upto(k - 1) + weight[k]
<1>1. ASSUME NEW k \in 0 .. 5
      PROVE  IsFiniteSet(1 .. k) /\ \A x \in 1 .. k : weight[x] \in Nat
  <2>1. k \in Int /\ 1 \in Int
    OBVIOUS
  <2>2. IsFiniteSet(1 .. k)
    BY <2>1, FS_Interval
  <2>3. 1 .. k \subseteq 1 .. 5
    OBVIOUS
  <2> QED
    BY Zenon, <2>2, <2>3
<1>2. \A k \in 0 .. 5 : Upto(k) \in Nat
  BY Zenon, <1>1, SumNat DEF Upto
<1>3. Upto(0) = 0
  <2>1. \A x \in 1 .. 0 : weight[x] = 0
    OBVIOUS
  <2> QED
    BY <1>1, <2>1, SumZero DEF Upto
<1>4. ASSUME NEW k \in 1 .. 5 PROVE Upto(k) = Upto(k - 1) + weight[k]
  <2>1. k \in 1 .. k /\ (1 .. k) \ {k} = 1 .. k - 1 /\ k \in 0 .. 5 /\ k - 1 \in 0 .. 5
    OBVIOUS
  <2>2. Upto(k) = weight[k] + Upto(k - 1)
    <3> DEFINE S == 1 .. k
    <3>1. IsFiniteSet(S) /\ (\A x \in S : weight[x] \in Nat) /\ k \in S
      BY Zenon, <1>1, <2>1
    <3>2. S \ {k} = 1 .. k - 1
      BY <2>1
    <3> HIDE DEF S
    <3>3. SumFunctionOnSet(weight, S) = weight[k] + SumFunctionOnSet(weight, S \ {k})
      BY Zenon, <3>1, SumRemove
    <3> QED
      BY Zenon, <3>2, <3>3 DEF Upto, S
  <2> QED
    BY <1>2, <2>1, <2>2
<1>5. Total = Upto(5) /\ weight[1] >= 0 /\ weight[2] >= 0 /\ weight[3] >= 0
      /\ weight[4] >= 0 /\ weight[5] >= 0
  BY DEF Total
<1>6. /\ Upto(1) = Upto(0) + weight[1] /\ Upto(2) = Upto(1) + weight[2]
      /\ Upto(3) = Upto(2) + weight[3] /\ Upto(4) = Upto(3) + weight[4]
      /\ Upto(5) = Upto(4) + weight[5]
  <2>1. 1 - 1 = 0 /\ 2 - 1 = 1 /\ 3 - 1 = 2 /\ 4 - 1 = 3 /\ 5 - 1 = 4
    OBVIOUS
  <2>2. 1 \in 1 .. 5 /\ 2 \in 1 .. 5 /\ 3 \in 1 .. 5 /\ 4 \in 1 .. 5 /\ 5 \in 1 .. 5
    OBVIOUS
  <2> QED
    BY <1>4, <2>1, <2>2
<1>7. \A k \in 0 .. 5 : k = 0 \/ k = 1 \/ k = 2 \/ k = 3 \/ k = 4 \/ k = 5
  OBVIOUS
<1>8. /\ Upto(0) \in Nat /\ Upto(1) \in Nat /\ Upto(2) \in Nat
      /\ Upto(3) \in Nat /\ Upto(4) \in Nat /\ Upto(5) \in Nat
  BY <1>2
<1>9. /\ Upto(0) <= Total /\ Upto(1) <= Total /\ Upto(2) <= Total
      /\ Upto(3) <= Total /\ Upto(4) <= Total /\ Upto(5) <= Total
  BY <1>5, <1>6, <1>8
<1> QED
  BY <1>2, <1>3, <1>4, <1>5, <1>7, <1>8, <1>9

(* A whole number of units W below f, or one less where f is a multiple of *)
(* W, is not below what fits into less than f.                             *)
LEMMA Truncates ==
  ASSUME NEW W \in Nat \ {0}, NEW e \in Nat, NEW f \in Nat, e < f,
         NEW y \in Nat, y * W <= e, NEW x,
         x = f \div W \/ (f % W = 0 /\ x = f \div W - 1)
  PROVE  x \in Nat /\ y <= x /\ f - W <= x * W /\ x * W <= f
<1> DEFINE q == f \div W
           r == f % W
<1>1. q \in Nat /\ r \in 0 .. W - 1 /\ f = q * W + r
  OBVIOUS
<1>2. (r = 0 /\ x = q - 1) \/ x = q
  OBVIOUS
<1> HIDE DEF q, r
<1>3. y <= q /\ (r = 0 => y < q)
  <2>1. ASSUME y > q PROVE FALSE
    <3>1. y * W >= (q + 1) * W
      BY <1>1, <2>1
    <3>2. (q + 1) * W = q * W + W
      BY <1>1
    <3> QED
      BY <1>1, <3>1, <3>2
  <2>2. ASSUME r = 0, y = q PROVE FALSE
    BY <1>1, <2>2
  <2> QED
    BY <1>1, <2>1, <2>2
<1>4. (q - 1) * W = q * W - W
  BY <1>1
<1> QED
  BY <1>1, <1>2, <1>3, <1>4

(* The target of an operation, of those that Truncated allows.             *)
LEMMA NextTarget ==
  ASSUME MixInv, NEW T, Targets(T), next <= 5, target = T[next - 1],
         NEW x, x \in Truncated(next)
  PROVE  /\ x \in 0 .. BINS /\ target <= x
         /\ Upto(next) * BINS - Total <= x * Total /\ x * Total <= Upto(next) * BINS
         /\ weight[next] = 0 /\ next < 5 => x = target
         /\ next = 5 => x = BINS
<1> DEFINE W == Total
           U == Upto(next)
           V == Upto(next - 1)
           w == weight[next]
<1>1. /\ W \in Nat \ {0} /\ U \in Nat /\ V \in Nat /\ w \in Nat /\ U = V + w /\ U <= W
      /\ BINS \in Nat \ {0} /\ next \in 1 .. 5
  <2>1. weight \in [1 .. 5 -> Nat] /\ Total > 0 /\ next \in 1 .. 5 /\ next - 1 \in 0 .. 5
    BY DEF MixInv
  <2>2. /\ \A k \in 0 .. 5 : Upto(k) \in Nat /\ Upto(k) <= Total
        /\ Total \in Nat /\ \A k \in 1 .. 5 : Upto(k) = Upto(k - 1) + weight[k]
    BY <2>1, UptoFacts
  <2>3. next \in 0 .. 5
    BY <2>1
  <2> QED
    BY <2>1, <2>2, <2>3, MixAssumption
<1>2. /\ target \in 0 .. BINS /\ V * BINS - W <= target * W /\ target * W <= V * BINS
  BY <1>1 DEF Targets
<1>3. /\ next = 5 => x = BINS /\ U = W
      /\ next # 5 /\ w = 0 => x = target
      /\ next # 5 /\ w # 0 =>
           \/ x = (U * BINS) \div W
           \/ (U * BINS) % W = 0 /\ x = (U * BINS) \div W - 1
  BY <1>1 DEF Truncated, Total
<1> HIDE DEF W, U, V, w
<1>4. CASE next = 5
  <2>1. x = BINS /\ U * BINS = BINS * W
    BY <1>1, <1>3, <1>4
  <2> QED
    BY <1>1, <1>2, <1>4, <2>1 DEF W, U, w
<1>5. CASE next # 5 /\ w = 0
  <2>1. x = target /\ U = V
    BY <1>1, <1>3, <1>5
  <2> QED
    BY <1>1, <1>2, <1>5, <2>1 DEF W, U, w
<1>6. CASE next # 5 /\ w # 0
  <2> DEFINE e == V * BINS
             f == U * BINS
  <2>1. e \in Nat /\ f \in Nat /\ e < f
    <3>1. f = e + w * BINS /\ w * BINS > 0
      BY <1>1, <1>6
    <3>2. e \in Nat /\ f \in Nat /\ w * BINS \in Nat
      BY <1>1
    <3> QED
      BY <3>1, <3>2
  <2>2. f <= BINS * W
    BY <1>1
  <2>3. target \in Nat /\ target * W <= e
    BY <1>1, <1>2
  <2>4. x = f \div W \/ (f % W = 0 /\ x = f \div W - 1)
    BY <1>3, <1>6
  <2> HIDE DEF e, f
  <2>5. x \in Nat /\ target <= x /\ f - W <= x * W /\ x * W <= f
    BY SMTT(30), <1>1, <2>1, <2>3, <2>4, Truncates
  <2>6. x <= BINS
    <3>1. x * W <= BINS * W
      BY <1>1, <2>1, <2>2, <2>5
    <3>2. ASSUME x > BINS PROVE FALSE
      <4>1. x * W >= (BINS + 1) * W
        BY <1>1, <2>5, <3>2
      <4>2. (BINS + 1) * W = BINS * W + W
        BY <1>1
      <4> QED
        BY <1>1, <2>5, <3>1, <4>1, <4>2
    <3> QED
      BY <1>1, <2>5, <3>2
  <2> QED
    BY <1>1, <1>6, <2>5, <2>6 DEF W, U, w, f
<1> QED
  BY <1>4, <1>5, <1>6

(* The empty table before the first operation.                             *)
LEMMA MixStarts ==
  ASSUME MixInit
  PROVE  MixInv
<1> DEFINE T == [k \in 0 .. 5 |-> 0]
<1>1. /\ weight \in [1 .. 5 -> Nat] /\ Total > 0 /\ next = 1 /\ target = 0 /\ table = <<>>
  BY DEF MixInit
<1>2. Upto(0) = 0 /\ Total \in Nat
  BY <1>1, UptoFacts
<1>3. T \in [0 .. 5 -> 0 .. BINS]
  BY MixAssumption
<1>4. \A k \in 0 .. 5 : T[k] = 0
  OBVIOUS
<1> HIDE DEF T
<1>5. Targets(T)
  <2>1. ASSUME NEW k \in 0 .. 5, k < next
        PROVE  Upto(k) * BINS - Total <= T[k] * Total /\ T[k] * Total <= Upto(k) * BINS
    <3>1. k = 0
      BY <1>1, <2>1
    <3> QED
      BY SMTT(30), <1>1, <1>2, <1>4, <3>1, MixAssumption
  <2>2. \A k \in 1 .. 5 : ~(k < next)
    BY <1>1
  <2>3. T[0] = 0 /\ ~(next > 5)
    BY <1>1, <1>4
  <2> QED
    BY <1>3, <2>1, <2>2, <2>3 DEF Targets
<1>6. table \in Seq(Range(OpOrder)) /\ Len(table) = target
  BY <1>1
<1>7. target = T[IF next = 7 THEN 5 ELSE next - 1]
  BY <1>1, <1>4
<1>8. \A k \in 1 .. 5 : ~(k < next)
  BY <1>1
<1>9. next \in 1 .. 7
  BY <1>1
<1> QED
  BY <1>1, <1>5, <1>6, <1>7, <1>8, <1>9 DEF MixInv

(* The elements of two sequences joined.                                   *)
LEMMA Joined ==
  ASSUME NEW S, NEW s \in Seq(S), NEW t \in Seq(S)
  PROVE  /\ s \o t \in Seq(S) /\ Len(s \o t) = Len(s) + Len(t)
         /\ \A x \in 1 .. Len(s) + Len(t) :
              (s \o t)[x] = IF x <= Len(s) THEN s[x] ELSE t[x - Len(s)]
<1>1. s \o t \in Seq(S)
  OBVIOUS
<1>2. Len(s \o t) = Len(s) + Len(t)
  OBVIOUS
<1>3. ASSUME NEW x \in 1 .. Len(s) + Len(t), x <= Len(s) PROVE (s \o t)[x] = s[x]
  BY <1>3
<1>4. ASSUME NEW x \in 1 .. Len(s) + Len(t), ~(x <= Len(s)) PROVE (s \o t)[x] = t[x - Len(s)]
  BY <1>4
<1> QED
  BY <1>1, <1>2, <1>3, <1>4

(* An iteration fills the bins between the last target and the next.       *)
LEMMA FillStep ==
  ASSUME MixInv, Fill
  PROVE  MixInv'
<1>1. PICK T : /\ Targets(T)
               /\ table \in Seq(Range(OpOrder)) /\ Len(table) = target
               /\ target = T[IF next = 7 THEN 5 ELSE next - 1]
               /\ \A k \in 1 .. 5 : k < next =>
                    \A x \in T[k - 1] + 1 .. T[k] : table[x] = OpOrder[k]
  BY Zenon DEF MixInv
<1>y. PICK y : y = target'
  OBVIOUS
<1> DEFINE new == Bins(next, y + 0)
<1>2. /\ weight \in [1 .. 5 -> Nat] /\ Total > 0 /\ next \in 1 .. 5
      /\ y \in Truncated(next) /\ table' = table \o new /\ next' = next + 1 /\ weight' = weight
  BY SMTT(30), <1>y DEF MixInv, Fill, FillTo
<1>N. PICK N : N = [T EXCEPT ![next] = y]
  BY Zenon
<1>3. target = T[next - 1] /\ T \in [0 .. 5 -> 0 .. BINS] /\ target \in 0 .. BINS
  <2>1. T \in [0 .. 5 -> 0 .. BINS]
    BY <1>1 DEF Targets
  <2>2. next # 7 /\ next - 1 \in 0 .. 5
    BY <1>2
  <2>3. target = T[next - 1]
    BY <1>1, <2>2
  <2> QED
    BY <2>1, <2>2, <2>3
<1>4. /\ y \in 0 .. BINS /\ target <= y
      /\ Upto(next) * BINS - Total <= y * Total /\ y * Total <= Upto(next) * BINS
      /\ weight[next] = 0 /\ next < 5 => y = target
      /\ next = 5 => y = BINS
  <2>1. next <= 5
    BY <1>2
  <2> QED
    BY Zenon, <1>1, <1>2, <1>3, <2>1, NextTarget
<1>5. OpOrder[next] \in Range(OpOrder)
  BY <1>2 DEF OpOrder, Range
<1>6. new = [b \in 1 .. y - target |-> OpOrder[next]] /\ y - target \in Nat
  <2>1. y + 0 = y /\ y - target \in Nat
    <3>1. y \in Nat /\ target \in Nat /\ target <= y
      BY <1>3, <1>4, MixAssumption
    <3> QED
      BY <3>1
  <2> QED
    BY <1>1, <2>1 DEF Bins
<1>7. /\ new \in Seq(Range(OpOrder)) /\ Len(new) = y - target
      /\ \A x \in 1 .. y - target : new[x] = OpOrder[next]
  BY <1>5, <1>6
<1> HIDE DEF new
<1>8. /\ table' \in Seq(Range(OpOrder)) /\ Len(table') = y
      /\ \A x \in 1 .. target : table'[x] = table[x]
      /\ \A x \in target + 1 .. y : table'[x] = OpOrder[next]
  <2>1. /\ table' \in Seq(Range(OpOrder)) /\ Len(table') = target + (y - target)
        /\ \A x \in 1 .. target + (y - target) :
             table'[x] = IF x <= target THEN table[x] ELSE new[x - target]
    <3> DEFINE both == table \o new
    <3>1. /\ both \in Seq(Range(OpOrder)) /\ Len(both) = Len(table) + Len(new)
          /\ \A x \in 1 .. Len(table) + Len(new) :
               both[x] = IF x <= Len(table) THEN table[x] ELSE new[x - Len(table)]
      BY ZenonT(30), <1>1, <1>7, Joined
    <3>2. table' = both
      BY <1>2
    <3> HIDE DEF both
    <3> QED
      BY Zenon, <1>1, <1>7, <3>1, <3>2
  <2>2. target \in Int /\ y \in Int /\ target + (y - target) = y
    BY <1>3, <1>4
  <2>3. ASSUME NEW x \in target + 1 .. y PROVE table'[x] = OpOrder[next]
    <3>1. x \in 1 .. y /\ ~(x <= target) /\ x - target \in 1 .. y - target
      BY <1>3, <1>4, <2>3
    <3> QED
      BY <1>7, <2>1, <2>2, <3>1
  <2>4. ASSUME NEW x \in 1 .. target PROVE table'[x] = table[x]
    <3>1. x \in 1 .. y /\ x <= target
      BY <1>3, <1>4, <2>4
    <3> QED
      BY <2>1, <2>2, <3>1
  <2> QED
    BY <2>1, <2>2, <2>3, <2>4
<1>9. /\ N \in [0 .. 5 -> 0 .. BINS] /\ N[next] = y /\ N[next - 1] = T[next - 1] /\ N[0] = T[0]
      /\ \A k \in 0 .. 5 : k # next => N[k] = T[k]
  <2>1. next \in 0 .. 5 /\ next - 1 \in 0 .. 5 /\ 0 \in 0 .. 5 /\ next - 1 # next /\ 0 # next
    BY SMTT(30), <1>2
  <2> QED
    BY <1>3, <1>4, <1>N, <2>1
<1>10. (\A k : Upto(k)' = Upto(k)) /\ Total' = Total
  BY <1>2 DEF Upto, Total
<1>11. Targets(N)'
  <2>1. ASSUME NEW k \in 0 .. 5, k < next'
        PROVE  /\ Upto(k)' * BINS - Total' <= N[k] * Total'
               /\ N[k] * Total' <= Upto(k)' * BINS
    <3>1. CASE k = next
      BY <1>4, <1>9, <1>10, <3>1
    <3>2. CASE k # next
      <4>1. k < next
        BY <1>2, <2>1, <3>2
      <4> QED
        BY Zenon, <1>1, <1>9, <1>10, <3>2, <4>1 DEF Targets
    <3> QED
      BY <3>1, <3>2
  <2>2. ASSUME NEW k \in 1 .. 5, k < next'
        PROVE  N[k - 1] <= N[k] /\ (weight'[k] = 0 /\ k < 5 => N[k] = N[k - 1])
    <3>1. CASE k = next
      BY Zenon, <1>2, <1>3, <1>4, <1>9, <3>1
    <3>2. CASE k # next
      <4>1. k < next /\ k - 1 # next /\ k - 1 \in 0 .. 5 /\ k \in 0 .. 5
        BY <1>2, <2>2, <3>2
      <4>2. N[k] = T[k] /\ N[k - 1] = T[k - 1]
        BY <1>9, <3>2, <4>1
      <4> QED
        BY Zenon, <1>1, <1>2, <4>1, <4>2 DEF Targets
    <3> QED
      BY <3>1, <3>2
  <2>3. N[0] = 0 /\ (next' > 5 => N[5] = BINS)
    <3>1. N[0] = 0
      BY Zenon, <1>1, <1>9 DEF Targets
    <3>2. next' > 5 => next = 5
      BY <1>2
    <3> QED
      BY <1>4, <1>9, <3>1, <3>2
  <2> QED
    BY <1>9, <2>1, <2>2, <2>3 DEF Targets
<1>12. y = N[IF next' = 7 THEN 5 ELSE next' - 1]
  <2>1. next' # 7 /\ next' - 1 = next
    BY <1>2
  <2> QED
    BY Zenon, <1>9, <2>1
<1>13. ASSUME NEW k \in 1 .. 5, k < next', NEW x \in N[k - 1] + 1 .. N[k]
       PROVE  table'[x] = OpOrder[k]
  <2>1. CASE k = next
    BY Zenon, <1>3, <1>8, <1>9, <1>13, <2>1
  <2>2. CASE k # next
    <3>1. k < next /\ k - 1 # next /\ k - 1 \in 0 .. 5 /\ k \in 0 .. 5
      BY <1>2, <1>13, <2>2
    <3>2. N[k] = T[k] /\ N[k - 1] = T[k - 1]
      BY <1>9, <2>2, <3>1
    <3>3. table[x] = OpOrder[k]
      BY Zenon, <1>1, <1>13, <3>1, <3>2
    <3>4. T[k] <= target
      <4> DEFINE a0 == T[0]
                 a1 == T[1]
                 a2 == T[2]
                 a3 == T[3]
                 a4 == T[4]
      <4>1. /\ a0 \in Int /\ a1 \in Int /\ a2 \in Int /\ a3 \in Int /\ a4 \in Int
        BY <1>3
      <4>2. /\ 1 < next => a0 <= a1
            /\ 2 < next => a1 <= a2
            /\ 3 < next => a2 <= a3
            /\ 4 < next => a3 <= a4
        <5>1. 1 - 1 = 0 /\ 2 - 1 = 1 /\ 3 - 1 = 2 /\ 4 - 1 = 3
          OBVIOUS
        <5>2. 1 \in 1 .. 5 /\ 2 \in 1 .. 5 /\ 3 \in 1 .. 5 /\ 4 \in 1 .. 5
          OBVIOUS
        <5> QED
          BY Zenon, <1>1, <5>1, <5>2 DEF Targets
      <4>3. k = 1 \/ k = 2 \/ k = 3 \/ k = 4
        BY SMTT(30), <1>2, <3>1
      <4>4. next = 1 \/ next = 2 \/ next = 3 \/ next = 4 \/ next = 5
        BY <1>2
      <4> QED
        BY <1>3, <3>1, <4>1, <4>2, <4>3, <4>4
    <3>5. x \in 1 .. target
      <4>1. T[k] \in Nat /\ T[k - 1] \in Nat
        BY <1>3, <3>1
      <4> QED
        BY <1>3, <1>13, <3>2, <3>4, <4>1
    <3> QED
      BY Zenon, <1>8, <3>3, <3>5
  <2> QED
    BY <2>1, <2>2
<1>14. next' \in 1 .. 7 /\ weight' \in [1 .. 5 -> Nat] /\ Total' > 0
  BY <1>2, <1>10
<1>15. /\ Targets(N)' /\ table' \in Seq(Range(OpOrder)) /\ Len(table') = target'
       /\ target' = N[IF next' = 7 THEN 5 ELSE next' - 1]
       /\ \A k \in 1 .. 5 : k < next' =>
            \A x \in N[k - 1] + 1 .. N[k] : table'[x] = OpOrder[k]
  BY <1>8, <1>11, <1>12, <1>13, <1>y
<1> QED
  BY Zenon, <1>14, <1>15 DEF MixInv

(* The loop after it adds no bin.                                          *)
LEMMA FillRestStep ==
  ASSUME MixInv, FillRest
  PROVE  MixInv'
<1>1. PICK T : /\ Targets(T)
               /\ table \in Seq(Range(OpOrder)) /\ Len(table) = target
               /\ target = T[IF next = 7 THEN 5 ELSE next - 1]
               /\ \A k \in 1 .. 5 : k < next =>
                    \A x \in T[k - 1] + 1 .. T[k] : table[x] = OpOrder[k]
  BY DEF MixInv
<1>2. /\ next = 6 /\ next' = 7 /\ weight' = weight /\ target' = target
      /\ table' = table \o Bins(1, BINS)
  BY DEF FillRest
<1>3. T[5] = BINS /\ target = BINS /\ BINS \in Nat
  BY <1>1, <1>2, MixAssumption DEF Targets
<1>4. Bins(1, BINS) = <<>>
  <2>1. Bins(1, BINS) = [b \in 1 .. BINS - target |-> OpOrder[1]]
    BY <1>1 DEF Bins
  <2>2. BINS - target = 0
    BY <1>3
  <2> QED
    BY <2>1, <2>2
<1>5. table' = table
  BY <1>1, <1>2, <1>4
<1>6. Upto(0)' = Upto(0) /\ (\A k : Upto(k)' = Upto(k)) /\ Total' = Total
  BY <1>2 DEF Upto, Total
<1>7. \A k \in 0 .. 5 : k < next /\ k < next'
  BY <1>2
<1>8. Targets(T)'
  BY <1>1, <1>2, <1>3, <1>6, <1>7 DEF Targets
<1>9. target' = T[IF next' = 7 THEN 5 ELSE next' - 1]
  BY <1>2, <1>3
<1>10. \A k \in 1 .. 5 : k < next' =>
         \A x \in T[k - 1] + 1 .. T[k] : table'[x] = OpOrder[k]
  BY <1>1, <1>5, <1>7
<1>11. next' \in 1 .. 7 /\ weight' \in [1 .. 5 -> Nat] /\ Total' > 0
  BY <1>2, <1>6 DEF MixInv
<1>12. table' \in Seq(Range(OpOrder)) /\ Len(table') = target'
  BY Zenon, <1>1, <1>2, <1>5
<1> QED
  BY Zenon, <1>8, <1>9, <1>10, <1>11, <1>12 DEF MixInv

(* In the complete table an operation has the bins between two targets.    *)
LEMMA ShareIsWidth ==
  ASSUME MixInv, next = 7
  PROVE  /\ Len(table) = BINS
         /\ \E T : /\ Targets(T)
                   /\ \A k \in 1 .. 5 : Share(k) = T[k] - T[k - 1]
<1>1. PICK T : /\ Targets(T)
               /\ table \in Seq(Range(OpOrder)) /\ Len(table) = target
               /\ target = T[IF next = 7 THEN 5 ELSE next - 1]
               /\ \A k \in 1 .. 5 : k < next =>
                    \A x \in T[k - 1] + 1 .. T[k] : table[x] = OpOrder[k]
  BY Zenon DEF MixInv
<1>2. \A k \in 1 .. 5 : k < next
  OBVIOUS
<1>3. /\ T \in [0 .. 5 -> 0 .. BINS] /\ T[0] = 0 /\ T[5] = BINS /\ BINS \in Nat \ {0}
      /\ \A k \in 1 .. 5 : T[k - 1] <= T[k]
  BY <1>1, <1>2, MixAssumption DEF Targets
<1>4. Len(table) = BINS
  BY <1>1, <1>3
<1>5. \A k \in 1 .. 5 : \A x \in T[k - 1] + 1 .. T[k] : table[x] = OpOrder[k]
  BY Zenon, <1>1, <1>2
<1>6. \A k, m \in 1 .. 5 : OpOrder[k] = OpOrder[m] => k = m
  BY DEF OpOrder
<1>7. ASSUME NEW x \in 1 .. BINS
      PROVE  \E k \in 1 .. 5 : x \in T[k - 1] + 1 .. T[k]
  <2>1. 1 - 1 = 0 /\ 2 - 1 = 1 /\ 3 - 1 = 2 /\ 4 - 1 = 3 /\ 5 - 1 = 4
    OBVIOUS
  <2>2. 1 \in 1 .. 5 /\ 2 \in 1 .. 5 /\ 3 \in 1 .. 5 /\ 4 \in 1 .. 5 /\ 5 \in 1 .. 5
    OBVIOUS
  <2>3. /\ T[1] \in Int /\ T[2] \in Int /\ T[3] \in Int /\ T[4] \in Int /\ T[5] \in Int
    BY <1>3
  <2>4. \/ x \in T[0] + 1 .. T[1] \/ x \in T[1] + 1 .. T[2] \/ x \in T[2] + 1 .. T[3]
        \/ x \in T[3] + 1 .. T[4] \/ x \in T[4] + 1 .. T[5]
    BY <1>3, <2>3
  <2> QED
    BY <2>1, <2>2, <2>4
<1>8. ASSUME NEW k \in 1 .. 5 PROVE Share(k) = T[k] - T[k - 1]
  <2> DEFINE R == {r \in 0 .. BINS - 1 : sample(r) = OpOrder[k]}
  <2>1. T[k] \in 0 .. BINS /\ T[k - 1] \in 0 .. BINS /\ T[k - 1] <= T[k]
    BY <1>3
  <2>2. ASSUME NEW r \in 0 .. BINS - 1
        PROVE  sample(r) = OpOrder[k] <=> r \in T[k - 1] .. T[k] - 1
    <3>1. r % BINS = r /\ 1 + r \in 1 .. BINS /\ r \in Nat
      BY <1>3
    <3>2. sample(r) = table[1 + r]
      BY <3>1 DEF sample
    <3>3. PICK m \in 1 .. 5 : 1 + r \in T[m - 1] + 1 .. T[m]
      BY Zenon, <1>7, <3>1
    <3>4. sample(r) = OpOrder[m]
      BY <1>5, <3>2, <3>3
    <3>5. sample(r) = OpOrder[k] => k = m
      BY Zenon, <1>6, <3>4
    <3>6. r \in T[k - 1] .. T[k] - 1 => sample(r) = OpOrder[k]
      <4>1. r \in T[k - 1] .. T[k] - 1 => 1 + r \in T[k - 1] + 1 .. T[k]
        BY <1>3, <2>1, <3>1
      <4> QED
        BY <1>5, <3>2, <4>1
    <3>7. T[m] \in 0 .. BINS /\ T[m - 1] \in 0 .. BINS
      BY <1>3, <3>3
    <3>8. r \in T[m - 1] .. T[m] - 1
      BY <1>3, <3>1, <3>3, <3>7
    <3> QED
      BY Zenon, <3>5, <3>6, <3>8
  <2>3. R = T[k - 1] .. T[k] - 1
    <3>1. T[k - 1] .. T[k] - 1 \subseteq 0 .. BINS - 1
      BY <1>3, <2>1
    <3> QED
      BY Zenon, <2>2, <3>1
  <2>4. T[k - 1] \in Int /\ T[k] - 1 \in Int /\ BINS \in Int
    BY <1>3, <2>1
  <2>5. Cardinality(T[k - 1] .. T[k] - 1) =
          IF T[k - 1] > T[k] - 1 THEN 0 ELSE (T[k] - 1) - T[k - 1] + 1
    BY Zenon, <2>4, FS_Interval
  <2>6. Cardinality(T[k - 1] .. T[k] - 1) = T[k] - T[k - 1]
    <3>1. \A x, z \in Int : x <= z => z - x = IF x > z - 1 THEN 0 ELSE (z - 1) - x + 1
      OBVIOUS
    <3>2. T[k] \in Int
      BY <1>3, <2>1
    <3> QED
      BY Zenon, <2>1, <2>4, <2>5, <3>1, <3>2
  <2> QED
    BY Zenon, <2>3, <2>6 DEF Share
<1> QED
  BY Zenon, <1>1, <1>4, <1>8

(* The table is built within its bounds.                                   *)
THEOREM MixInvariant == MixSpec => []MixInv
<1>1. MixInit => MixInv
  BY MixStarts
<1>2. MixInv /\ [MixNext]_mixvars => MixInv'
  <2>1. ASSUME MixInv, UNCHANGED mixvars PROVE MixInv'
    BY ZenonT(60), <2>1 DEF MixInv, Targets, Upto, Total, mixvars
  <2> QED
    BY <2>1, FillStep, FillRestStep DEF MixNext
<1> QED
  BY <1>1, <1>2, PTL DEF MixSpec

(* For any weights and any number of bins, and however the sums of the     *)
(* shares are truncated, the constructor fills the table exactly and gives *)
(* every operation its share to within one bin.                            *)
THEOREM MixIsFair == MixSpec => []SharesWithinOneBin
<1>1. ASSUME MixInv PROVE Len(table) <= BINS
  <2>1. PICK T : Targets(T) /\ Len(table) = T[IF next = 7 THEN 5 ELSE next - 1]
    BY <1>1 DEF MixInv
  <2>2. (IF next = 7 THEN 5 ELSE next - 1) \in 0 .. 5
    BY <1>1 DEF MixInv
  <2>3. T[IF next = 7 THEN 5 ELSE next - 1] \in 0 .. BINS
    BY Zenon, <2>1, <2>2 DEF Targets
  <2> QED
    BY <2>1, <2>3, MixAssumption
<1>2. ASSUME MixInv, next = 7, NEW k \in 1 .. 5
      PROVE  /\ Share(k) * Total <= weight[k] * BINS + Total
             /\ Share(k) * Total >= weight[k] * BINS - Total
  <2>1. PICK T : Targets(T) /\ \A m \in 1 .. 5 : Share(m) = T[m] - T[m - 1]
    BY <1>2, ShareIsWidth
  <2>2. k \in 0 .. 5 /\ k - 1 \in 0 .. 5 /\ k < next /\ k - 1 < next
    BY <1>2
  <2> DEFINE a == T[k]
             b == T[k - 1]
             U == Upto(k)
             V == Upto(k - 1)
             W == Total
             w == weight[k]
  <2>3. Share(k) = a - b
    BY <2>1
  <2>4. a \in 0 .. BINS /\ b \in 0 .. BINS
    BY <2>1, <2>2 DEF Targets
  <2>5. U * BINS - W <= a * W /\ a * W <= U * BINS /\ V * BINS - W <= b * W /\ b * W <= V * BINS
    BY <2>1, <2>2 DEF Targets
  <2>6. U \in Nat /\ V \in Nat /\ W \in Nat /\ w \in Nat /\ U = V + w
    BY Zenon, <1>2, <2>2, UptoFacts DEF MixInv
  <2>7. a \in Nat /\ b \in Nat /\ BINS \in Nat
    BY <2>4, MixAssumption
  <2> HIDE DEF a, b, U, V, W, w
  <2>8. (a - b) * W = a * W - b * W /\ U * BINS = V * BINS + w * BINS
    BY <2>6, <2>7
  <2>9. /\ a * W \in Nat /\ b * W \in Nat /\ V * BINS \in Nat /\ w * BINS \in Nat
        /\ U * BINS \in Nat
    BY <2>6, <2>7
  <2>10. (a - b) * W <= w * BINS + W /\ (a - b) * W >= w * BINS - W
    BY <2>5, <2>6, <2>8, <2>9
  <2> QED
    BY <2>3, <2>10 DEF W, w
<1>3. MixInv => SharesWithinOneBin
  BY Zenon, <1>1, <1>2, ShareIsWidth DEF SharesWithinOneBin
<1> QED
  BY <1>3, MixInvariant, PTL

(* For any weights and bins an operation without weight is never drawn,    *)
(* unless it is the scan.                                                  *)
THEOREM MixDrawsAsked == MixSpec => []OnlyScanUnasked
<1>1. ASSUME MixInv, next = 7, NEW k \in 1 .. 4, weight[k] = 0 PROVE Share(k) = 0
  <2>1. PICK T : Targets(T) /\ \A m \in 1 .. 5 : Share(m) = T[m] - T[m - 1]
    BY <1>1, ShareIsWidth
  <2>2. k \in 1 .. 5 /\ k < next /\ k < 5 /\ k \in 0 .. 5
    BY <1>1
  <2>3. T[k] = T[k - 1] /\ T[k] \in 0 .. BINS
    BY Zenon, <1>1, <2>1, <2>2 DEF Targets
  <2>4. Share(k) = T[k] - T[k - 1]
    BY Zenon, <2>1, <2>2
  <2> QED
    BY <2>3, <2>4, MixAssumption
<1>2. MixInv => OnlyScanUnasked
  BY <1>1 DEF OnlyScanUnasked
<1> QED
  BY <1>2, MixInvariant, PTL

=============================================================================
