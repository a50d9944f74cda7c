---------------------------- MODULE PoissonProofs ---------------------------
(***************************************************************************)
(* Poisson mode over the step-by-step queue, for any number of clients and *)
(* queries, any index and mix and any capacity of at least two: no query   *)
(* is left behind by the shutdown, each is served exactly once, a large    *)
(* enough queue never holds the producer up, and a writer is alone in the  *)
(* index.  The queue's inductive invariant QInv is reused as it stands.    *)
(***************************************************************************)
EXTENDS PoissonRun, MPMCQueueProofs

ProducerPlaces == {"loop", "enqueue", "join", "returned"}
ClientPlaces   == {"loop", "dequeue", "size_enq", "size_deq", "index", "work", "exited"}

(* The producer has taken the ticket of the query it offers.               *)
Offered ==
  \/ pc[Producer] \in {"enq_write", "enq_publish"}
  \/ pc[Producer] = "idle" /\ ret[Producer]

(* The queue has seen exactly the queries before the loop index, and the   *)
(* current one once it is Offered; done is set after the last.             *)
ProducerInv ==
  /\ at \in [Threads -> ProducerPlaces \cup ClientPlaces]
  /\ at[Producer] \in ProducerPlaces
  /\ next \in 1 .. NQueries + 1
  /\ done \in BOOLEAN
  /\ at[Producer] = "loop" => pc[Producer] = "idle" /\ enq_pos = next - 1
  /\ at[Producer] = "enqueue" =>
       next <= NQueries /\ enq_pos = IF Offered THEN next ELSE next - 1
  /\ at[Producer] \in {"join", "returned"} =>
       pc[Producer] = "idle" /\ enq_pos = NQueries
  /\ done => at[Producer] \in {"join", "returned"}

(* The client looks at the size only after done, so that what it loads     *)
(* from enq_pos_ is final.                                                 *)
ClientInv(c) ==
  /\ at[c] \in ClientPlaces
  /\ at[c] # "dequeue" => pc[c] = "idle"
  /\ at[c] \in {"size_enq", "size_deq", "exited"} => done
  /\ at[c] = "size_deq" => size_e[c] = NQueries
  /\ at[c] = "exited" => deq_pos = NQueries

(* A client that has an operation to run has received a query.             *)
HasQuery(c) ==
  \/ pc[c] = "deq_release"
  \/ at[c] = "dequeue" /\ pc[c] = "idle" /\ ret[c]
  \/ at[c] \in {"index", "work"}

(* Who holds the lock is in the index, and a client in the index holds the *)
(* lock as its operation and the policy say.                               *)
ClientLockInv ==
  /\ op_choice \in [Queries -> Sampled(Mix)]
  /\ \A c \in Clients : HasQuery(c) => out[c] \in Queries
  /\ writer = {} \/ readers = {}
  /\ \A c, d \in writer : c = d
  /\ \A c \in writer \cup readers : c \in Clients /\ at[c] = "index"
  /\ \A c \in Clients :
       at[c] = "index" =>
         /\ op_choice[out[c]] \in Writes => c \in writer
         /\ locks => c \in writer \cup readers

PInv ==
  /\ QInv /\ ProducerInv
  /\ size_e \in [Clients -> Nat]
  /\ \A c \in Clients : ClientInv(c)
  /\ ClientLockInv
  /\ ProducerNeverBlocked

-----------------------------------------------------------------------------
(* The producer is no client, and both are threads of the queue.           *)
LEMMA ThreadFacts ==
  /\ Threads = Clients \cup {Producer}
  /\ Producer \notin Clients /\ Producer \in Producers
  /\ \A p \in Producers : p = Producer
  /\ Clients = Consumers
  BY Zenon, PoissonAssumption, QueueAssumption DEF Threads, Clients

(* run_poisson starts in the invariant.                                    *)
LEMMA PoissonInit == PInit => PInv
<1> SUFFICES ASSUME PInit PROVE PInv
  BY Zenon
<1> USE ThreadFacts, PoissonAssumption
<1>1. QInv
  BY Zenon, QueueInitInv DEF PInit
<1>2. ProducerInv
  <2>1. at \in [Threads -> ProducerPlaces \cup ClientPlaces] /\ at[Producer] = "loop"
    BY Zenon DEF PInit, ProducerPlaces
  <2>2. pc[Producer] = "idle" /\ enq_pos = 0 /\ next = 1
    BY Zenon DEF PInit, QInit
  <2>3. ~done /\ done \in BOOLEAN
    BY Zenon DEF PInit
  <2> QED
    BY <2>1, <2>2, <2>3 DEF ProducerInv, ProducerPlaces
<1>3. size_e \in [Clients -> Nat] /\ \A c \in Clients : ClientInv(c)
  BY Zenon DEF PInit, QInit, ClientInv, ClientPlaces
<1>4. ClientLockInv
  BY Zenon DEF PInit, QInit, LockInit, ClientLockInv, HasQuery
<1>5. ProducerNeverBlocked
  BY Zenon DEF PInit, ProducerNeverBlocked
<1> QED
  BY Zenon, <1>1, <1>2, <1>3, <1>4, <1>5 DEF PInv

-----------------------------------------------------------------------------
(* What the producer's steps and a client's steps leave alone.             *)
LEMMA PoissonJoin ==
  Join => /\ at[Producer] = "join" /\ Move(Producer, "returned")
          /\ UNCHANGED <<qvars, next, done, produced, lock, op_choice, size_e>>
  BY Zenon DEF Join

(* What most steps below use: the threads and the types.                   *)
Typed ==
  /\ Producer \in Threads /\ NQueries \in Nat
  /\ \A c \in Clients : c \in Threads /\ c \in Consumers /\ c # Producer
  /\ \A t \in Threads : t # Producer => t \in Clients
  /\ at \in [Threads -> ProducerPlaces \cup ClientPlaces]
  /\ pc \in [Threads -> {"idle"} \cup EnqueueSteps \cup DequeueSteps]
  /\ pos \in [Threads -> Nat]
  /\ ret \in [Threads -> BOOLEAN]
  /\ out \in [Consumers -> Items \cup {NoItem}]
  /\ enq_pos \in Nat /\ deq_pos \in Nat

(* The types that the later steps rest on.                                 *)
LEMMA PoissonTypes == PInv => Typed
  BY Zenon, ThreadFacts, PoissonAssumption DEF Typed, PInv, ProducerInv, QInv, QTypeOK

(* No dequeue is ahead of the enqueues, and no client ahead of the         *)
(* dequeues.                                                               *)
LEMMA PositionFacts ==
  ASSUME PInv
  PROVE  /\ deq_pos <= enq_pos
         /\ \A c \in Clients : pos[c] <= deq_pos
  BY Zenon, ThreadFacts DEF PInv, QInv, BoundedOccupancy, CallShape

(* What a step of the producer leaves alone: the clients, the lock,        *)
(* deq_pos_.                                                               *)
LEMMA ProducerFrame ==
  ASSUME PInv, ProducerStep
  PROVE  /\ \A c \in Clients : /\ at'[c] = at[c] /\ pc'[c] = pc[c]
                              /\ ret'[c] = ret[c] /\ out'[c] = out[c]
                              /\ pos'[c] = pos[c]
         /\ UNCHANGED <<deq_pos, writer, readers, op_choice, size_e>>
<1>t. Typed
  BY Zenon, PoissonTypes
<1> USE <1>t DEF Typed, lock, others, Move
<1>1. CASE Join
  BY Zenon, <1>1, PoissonJoin DEF qvars, shared
<1>2. CASE Arrive \/ Retry
  BY Zenon, <1>2 DEF Arrive, Retry, TryEnqueue, GoTo, control, shared
<1>3. CASE Produced \/ AllOffered
  BY SMTT(30), <1>3 DEF Produced, AllOffered, EndLoop, qvars, shared
<1>4. CASE EnqueueStep(Producer) /\ UNCHANGED <<control, others>>
  BY SMTT(30), <1>4 DEF EnqueueStep, EnqReady, EnqFull, EnqBehind, EnqReload, EnqClaim,
     EnqClaimFails, EnqWrite, EnqPublish, GoTo, Return, control, shared
<1> QED
  BY Zenon, <1>1, <1>2, <1>3, <1>4 DEF ProducerStep

(* What a step of a client leaves alone: the other threads, enq_pos_,      *)
(* done.                                                                   *)
LEMMA ClientFrame ==
  ASSUME PInv, NEW c \in Clients, ClientStep(c)
  PROVE  /\ \A d \in Clients \ {c} :
              /\ at'[d] = at[d] /\ pc'[d] = pc[d] /\ ret'[d] = ret[d]
              /\ out'[d] = out[d] /\ pos'[d] = pos[d] /\ size_e'[d] = size_e[d]
         /\ at'[Producer] = at[Producer] /\ pc'[Producer] = pc[Producer]
         /\ ret'[Producer] = ret[Producer]
         /\ at' \in [Threads -> ProducerPlaces \cup ClientPlaces]
         /\ deq_pos' \in {deq_pos, deq_pos + 1}
         /\ UNCHANGED <<enq_pos, next, done, op_choice>>
<1>t. Typed
  BY Zenon, PoissonTypes
<1> USE <1>t DEF Typed, lock, others, Move, ClientPlaces
<1>1. CASE Fetch(c)
  BY Zenon, <1>1 DEF Fetch, TryDequeue, GoTo, shared
<1>2. CASE TestDone(c) \/ LoadDeqPos(c)
  BY Zenon, <1>2 DEF TestDone, FoundEmpty, LoadDeqPos, qvars, shared
<1>3. CASE LoadEnqPos(c)
  BY Zenon, <1>3 DEF LoadEnqPos, qvars, shared, PInv
<1>4. CASE Acquire(c) \/ Release(c) \/ Record(c)
  BY SMTT(30), <1>4 DEF Acquire, Release, Record, qvars, shared
<1>5. CASE DequeueStep(c) /\ UNCHANGED <<control, others>>
  BY ZenonT(60), <1>5 DEF DequeueStep, DeqReady, DeqEmpty, DeqBehind, DeqReload, DeqClaim,
     DeqClaimFails, DeqRead, DeqRelease, GoTo, Return, control, shared
<1> QED
  BY Zenon, <1>1, <1>2, <1>3, <1>4, <1>5 DEF ClientStep

(* Every step of the run is a step of the queue or leaves it alone.        *)
LEMMA QueueKept ==
  ASSUME Capacity >= 2, PInv, [PNext]_pvars
  PROVE  QInv'
<1> USE ThreadFacts, PoissonAssumption DEF PInv
<1>1. CASE UNCHANGED qvars
  BY Zenon, <1>1, QueueStutterInv
<1>2. CASE Arrive \/ Retry
  <2>1. next \in Items
    BY <1>2 DEF ProducerInv, Arrive, Retry, Queries
  <2> QED
    BY Zenon, <1>2, <2>1, ProducerStepInv DEF Arrive, Retry
<1>3. CASE EnqueueStep(Producer)
  BY Zenon, <1>3, ProducerStepInv
<1>4. ASSUME NEW c \in Clients, TryDequeue(c) \/ DequeueStep(c) PROVE QInv'
  BY Zenon, <1>4, ConsumerStepInv
<1>5. CASE ProducerStep
  BY SMTT(30), <1>1, <1>2, <1>3, <1>5, PoissonJoin DEF ProducerStep, Produced, AllOffered, EndLoop
<1>6. ASSUME NEW c \in Clients, ClientStep(c) PROVE QInv'
  BY SMTT(30), <1>1, <1>4, <1>6 DEF ClientStep, Fetch, TestDone, FoundEmpty, LoadEnqPos,
     LoadDeqPos, Acquire, Release, Record
<1> QED
  BY Zenon, <1>1, <1>5, <1>6 DEF PNext, Terminated, pvars

-----------------------------------------------------------------------------
(* The producer's half                                                     *)

(* A step inside try_enqueue keeps the producer's invariant.               *)
LEMMA EnqueueStepKeeps ==
  ASSUME PInv, EnqueueStep(Producer), UNCHANGED <<control, others>>
  PROVE  ProducerInv'
<1>t. Typed
  BY SMTT(30), PoissonTypes
<1> USE <1>t DEF Typed, control, shared, GoTo, Return
<1>1. pc[Producer] # "idle"
  BY Zenon DEF EnqueueStep, EnqReady, EnqFull, EnqBehind, EnqReload, EnqClaim,
     EnqClaimFails, EnqWrite, EnqPublish
<1>2. /\ at[Producer] = "enqueue" /\ next <= NQueries /\ next \in Nat
      /\ enq_pos = IF Offered THEN next ELSE next - 1
  BY <1>1 DEF PInv, ProducerInv, ProducerPlaces
<1>3. enq_pos' = IF Offered' THEN next ELSE next - 1
  <2>1. CASE EnqReady(Producer) \/ EnqBehind(Producer)
    BY Zenon, <1>2, <2>1 DEF EnqReady, EnqBehind, Offered
  <2>2. CASE EnqReload(Producer) \/ EnqClaimFails(Producer)
    BY Zenon, <1>2, <2>2 DEF EnqReload, EnqClaimFails, Offered
  <2>3. CASE EnqFull(Producer)
    BY Zenon, <1>2, <2>3 DEF EnqFull, Offered
  <2>4. CASE EnqClaim(Producer)
    BY <1>2, <2>4 DEF EnqClaim, Offered
  <2>5. CASE EnqWrite(Producer)
    BY Zenon, <1>2, <2>5 DEF EnqWrite, Offered
  <2>6. CASE EnqPublish(Producer)
    BY SMTT(30), <1>2, <2>6 DEF EnqPublish, Offered
  <2> QED
    BY SMTT(30), <2>1, <2>2, <2>3, <2>4, <2>5, <2>6 DEF EnqueueStep
<1> QED
  BY Zenon, <1>2, <1>3 DEF PInv, ProducerInv, ProducerPlaces

(* Every step keeps the producer's invariant.                              *)
LEMMA ProducerKept ==
  ASSUME PInv, [PNext]_pvars
  PROVE  ProducerInv'
<1>t. Typed
  BY Zenon, PoissonTypes
<1>i. ProducerInv
  BY Zenon DEF PInv
<1> USE <1>t, <1>i DEF Typed, ProducerInv, ProducerPlaces, Move, Offered
<1>1. CASE Arrive
  BY Zenon, <1>1 DEF Arrive, TryEnqueue, GoTo, shared
<1>2. CASE Retry
  BY Zenon, <1>2 DEF Retry, TryEnqueue, GoTo, shared, control
<1>3. CASE Produced
  BY <1>3 DEF Produced, qvars, shared
<1>4. CASE AllOffered
  BY <1>4 DEF AllOffered, EndLoop, qvars, shared
<1>5. CASE Join
  BY SMTT(30), <1>5, PoissonJoin DEF qvars, shared
<1>6. CASE EnqueueStep(Producer) /\ UNCHANGED <<control, others>>
  BY SMTT(30), <1>6, EnqueueStepKeeps
<1>7. ASSUME NEW c \in Clients, ClientStep(c) PROVE ProducerInv'
  BY SMTT(30), <1>7, ClientFrame
<1>8. CASE UNCHANGED pvars
  BY Zenon, <1>8 DEF pvars, qvars, shared, control
<1> QED
  BY ZenonT(30), <1>1, <1>2, <1>3, <1>4, <1>5, <1>6, <1>7, <1>8 DEF PNext, ProducerStep, Terminated

(* While every query so far has a cell of its own, no cell is a lap behind. *)
LEMMA NeverFull ==
  ASSUME PInv, next <= Capacity, EnqFull(Producer)
  PROVE  FALSE
<1>t. Typed
  BY SMTT(30), PoissonTypes
<1> USE <1>t, QueueAssumption DEF Typed
<1> DEFINE t == pos[Producer]
<1>1. at[Producer] = "enqueue" /\ pc[Producer] = "enq_probe"
  BY Zenon DEF EnqFull, PInv, ProducerInv, ProducerPlaces
<1>2. enq_pos < Capacity /\ t <= enq_pos /\ t \in Nat
  <2>1. enq_pos < Capacity
    BY <1>1 DEF PInv, ProducerInv, Offered
  <2>2. t <= enq_pos
    BY Zenon, ThreadFacts DEF PInv, QInv, CallShape
  <2> QED
    BY SMTT(30), <2>1, <2>2
<1>3. Slot(t) = t /\ t \in Cells
  BY <1>2 DEF Slot, Cells
<1>4. PICK s \in LoadSeq(t) : s < t
  BY Zenon, <1>3 DEF EnqFull
<1>5. seq[t] < t
  BY SMTT(30), <1>2, <1>3, <1>4 DEF LoadSeq
<1>6. CASE t < enq_pos
  BY SMTT(30), <1>2, <1>3, <1>5, <1>6 DEF PInv, QInv, SeqPassed, QTypeOK
<1>7. CASE t = enq_pos
  <2>1. t \in deq_pos .. deq_pos + Capacity - 1
    BY SMTT(30), <1>2, <1>7 DEF PInv, QInv, BoundedOccupancy
  <2>2. PICK c \in Consumers : Reading(c, t - Capacity)
    BY SMTT(30), <1>2, <1>3, <1>5, <1>7, <2>1 DEF PInv, QInv, CellOwned
  <2> QED
    BY <1>2, <2>2 DEF Reading, Clients
<1> QED
  BY <1>2, <1>6, <1>7

(* Every step keeps the producer from finding a queue full that has held   *)
(* no more queries than it has cells.                                      *)
LEMMA RoomKept ==
  ASSUME PInv, [PNext]_pvars
  PROVE  ProducerNeverBlocked'
<1>t. Typed
  BY Zenon, PoissonTypes
<1>i. ProducerNeverBlocked
  BY Zenon DEF PInv
<1> USE <1>t, <1>i DEF Typed, ProducerNeverBlocked, Move
<1> SUFFICES ASSUME next' <= Capacity
             PROVE  ~(at'[Producer] = "enqueue" /\ pc'[Producer] = "idle" /\ ~ret'[Producer])
  BY Zenon
<1>1. CASE Arrive \/ Retry
  BY SMTT(30), <1>1 DEF Arrive, Retry, TryEnqueue, GoTo
<1>2. CASE Produced \/ AllOffered \/ Join
  BY SMTT(30), <1>2, PoissonJoin DEF Produced, AllOffered, EndLoop
<1>3. CASE EnqueueStep(Producer) /\ UNCHANGED <<control, others>>
  <2>0. next' = next
    BY Zenon, <1>3 DEF control
  <2>1. CASE EnqFull(Producer)
    BY <2>0, <2>1, NeverFull, Zenon
  <2>2. CASE EnqPublish(Producer)
    BY SMTT(30), <2>2 DEF EnqPublish, Return
  <2>3. CASE \/ EnqReady(Producer) \/ EnqBehind(Producer) \/ EnqReload(Producer)
             \/ EnqClaim(Producer) \/ EnqClaimFails(Producer) \/ EnqWrite(Producer)
    <3>1. pc'[Producer] # "idle"
      BY SMTT(30), <2>3 DEF EnqReady, EnqBehind, EnqReload, EnqClaim, EnqClaimFails,
         EnqWrite, GoTo
    <3> QED
      BY SMTT(30), <3>1
  <2> QED
    BY <1>3, <2>1, <2>2, <2>3, Zenon DEF EnqueueStep
<1>4. ASSUME NEW c \in Clients, ClientStep(c)
      PROVE  ~(at'[Producer] = "enqueue" /\ pc'[Producer] = "idle" /\ ~ret'[Producer])
  BY SMTT(30), <1>4, ClientFrame
<1>5. CASE UNCHANGED pvars
  BY Zenon, <1>5 DEF pvars, qvars, control
<1> QED
  BY ZenonT(30), <1>1, <1>2, <1>3, <1>4, <1>5 DEF PNext, ProducerStep, Terminated

-----------------------------------------------------------------------------
(* The clients' half                                                       *)

(* Once done is set, every query has been enqueued.                        *)
LEMMA DoneMeansAllEnqueued ==
  ASSUME PInv, done
  PROVE  enq_pos = NQueries
  BY Zenon DEF PInv, ProducerInv

(* done is never taken back.                                               *)
LEMMA DoneStays ==
  ASSUME PInv, done, ProducerStep
  PROVE  done'
<1>1. CASE Join
  BY Zenon, <1>1, PoissonJoin
<1> QED
  BY Zenon, <1>1 DEF ProducerStep, Arrive, Retry, Produced, AllOffered, EndLoop, control

(* The step of a client, for the client itself.                            *)
LEMMA OwnStepKeeps ==
  ASSUME PInv, NEW c \in Clients, ClientStep(c), QInv'
  PROVE  ClientInv(c)' /\ size_e' \in [Clients -> Nat]
<1>t. Typed
  BY Zenon, PoissonTypes
<1> USE <1>t DEF Typed, lock, others, Move
<1>1. size_e \in [Clients -> Nat] /\ ClientInv(c)
  BY Zenon DEF PInv
<1>2. CASE Fetch(c)
  BY SMTT(30), <1>1, <1>2 DEF Fetch, TryDequeue, ClientInv, ClientPlaces
<1>3. CASE TestDone(c)
  BY SMTT(30), <1>1, <1>3 DEF TestDone, FoundEmpty, ClientInv, ClientPlaces, qvars
<1>4. CASE LoadEnqPos(c)
  BY SMTT(30), <1>1, <1>4, DoneMeansAllEnqueued DEF LoadEnqPos, ClientInv, ClientPlaces, qvars
<1>5. CASE LoadDeqPos(c)
  <2>1. /\ done /\ size_e[c] = NQueries /\ enq_pos = NQueries /\ pc[c] = "idle"
        /\ UNCHANGED <<pc, deq_pos, done, size_e>>
    BY Zenon, <1>1, <1>5, DoneMeansAllEnqueued DEF LoadDeqPos, ClientInv, qvars, shared
  <2>2. PICK d \in LoadPos(deq_pos, pos[c]) :
          Move(c, IF (IF size_e[c] >= d THEN size_e[c] - d ELSE 0) = 0
                    THEN "exited" ELSE "loop")
    BY ZenonT(30), <1>5 DEF LoadDeqPos
  <2>3. deq_pos <= enq_pos /\ d \in Nat /\ d <= deq_pos
    BY SMTT(30), <2>2, PositionFacts DEF LoadPos
  <2>4. CASE at'[c] = "exited"
    <3>1. d >= NQueries
      BY SMTT(30), <2>1, <2>2, <2>3, <2>4
    <3> QED
      BY SMTT(30), <1>1, <2>1, <2>3, <2>4, <3>1 DEF ClientInv, ClientPlaces
  <2>5. CASE at'[c] = "loop"
    BY SMTT(30), <1>1, <2>1, <2>5 DEF ClientInv, ClientPlaces
  <2> QED
    BY SMTT(30), <2>2, <2>4, <2>5
<1>6. CASE Acquire(c)
  BY SMTT(30), <1>1, <1>6 DEF Acquire, ClientInv, ClientPlaces, qvars
<1>7. CASE Release(c) \/ Record(c)
  BY SMTT(30), <1>1, <1>7 DEF Release, Record, ClientInv, ClientPlaces, qvars
<1>8. CASE DequeueStep(c) /\ UNCHANGED <<control, others>>
  <2>1. pc[c] # "idle"
    BY ZenonT(30), <1>8 DEF DequeueStep, DeqReady, DeqEmpty, DeqBehind, DeqReload, DeqClaim,
       DeqClaimFails, DeqRead, DeqRelease
  <2> QED
    BY SMTT(30), <1>1, <1>8, <2>1 DEF ClientInv, control
<1> QED
  BY SMTT(30), <1>2, <1>3, <1>4, <1>5, <1>6, <1>7, <1>8 DEF ClientStep

(* Every step keeps the invariant of every client.                         *)
LEMMA ClientsKept ==
  ASSUME PInv, [PNext]_pvars, QInv'
  PROVE  size_e' \in [Clients -> Nat] /\ \A c \in Clients : ClientInv(c)'
<1>t. Typed
  BY Zenon, PoissonTypes
<1> USE <1>t DEF Typed
<1>1. size_e \in [Clients -> Nat] /\ \A c \in Clients : ClientInv(c)
  BY SMTT(30) DEF PInv
<1>2. CASE ProducerStep
  BY SMTT(30), <1>1, <1>2, ProducerFrame, DoneStays DEF ClientInv
<1>3. ASSUME NEW c \in Clients, ClientStep(c)
      PROVE  size_e' \in [Clients -> Nat] /\ \A d \in Clients : ClientInv(d)'
  <2>1. ASSUME NEW d \in Clients \ {c} PROVE ClientInv(d)'
    <3>1. done => deq_pos' <= NQueries /\ deq_pos' \in Nat
      BY ZenonT(30), <1>3, ClientFrame, DoneMeansAllEnqueued
      DEF QInv, BoundedOccupancy, QTypeOK
    <3> QED
      BY SMTT(30), <1>1, <1>3, <2>1, <3>1, ClientFrame DEF ClientInv
  <2> QED
    BY SMTT(30), <1>3, <2>1, OwnStepKeeps
<1>4. CASE UNCHANGED pvars
  BY SMTT(30), <1>1, <1>4 DEF pvars, qvars, shared, control, others, ClientInv
<1> QED
  BY Zenon, <1>2, <1>3, <1>4 DEF PNext, Terminated

-----------------------------------------------------------------------------
(* The lock                                                                *)

(* What a client takes from a cell is a query.                             *)
LEMMA ReadsAQuery ==
  ASSUME PInv, NEW c \in Clients, DeqRead(c)
  PROVE  out'[c] \in Queries
<1>t. Typed
  BY Zenon, PoissonTypes
<1> USE <1>t DEF Typed
<1>1. Reading(c, pos[c])
  BY SMTT(30) DEF DeqRead, Reading
<1>2. pos[c] < deq_pos /\ value[Slot(pos[c])] = sent[pos[c] + 1]
  BY SMTT(30), <1>1 DEF PInv, QInv, ReaderShape
<1>3. pos[c] + 1 \in 1 .. Len(sent) /\ sent \in Seq(Items)
  BY <1>2 DEF PInv, QInv, CallShape, BoundedOccupancy, QTypeOK
<1>4. sent[pos[c] + 1] \in Items
  BY SMTT(30), <1>3, InSequence
<1> QED
  BY Zenon, <1>2, <1>4, PoissonAssumption DEF DeqRead

(* A client keeps the query that it has taken until it records it.         *)
LEMMA QueryKept ==
  ASSUME PInv, NEW c \in Clients, ClientStep(c)
  PROVE  HasQuery(c)' => out'[c] \in Queries
<1> SUFFICES ASSUME HasQuery(c)' PROVE out'[c] \in Queries
  BY Zenon
<1>t. Typed
  BY PoissonTypes
<1> USE <1>t DEF Typed, lock, others, Move
<1>1. /\ HasQuery(c) => out[c] \in Queries
      /\ at[c] # "dequeue" => pc[c] = "idle"
  BY Zenon DEF PInv, ClientLockInv, ClientInv
<1>2. CASE Fetch(c)
  BY SMTT(30), <1>1, <1>2 DEF Fetch, TryDequeue, GoTo, HasQuery
<1>3. CASE TestDone(c) \/ LoadEnqPos(c) \/ LoadDeqPos(c)
  BY SMTT(30), <1>1, <1>3 DEF TestDone, FoundEmpty, LoadEnqPos, LoadDeqPos, qvars, HasQuery
<1>4. CASE Acquire(c) \/ Release(c) \/ Record(c)
  BY Zenon, <1>1, <1>4 DEF Acquire, Release, Record, qvars, HasQuery
<1>5. CASE DequeueStep(c) /\ UNCHANGED <<control, others>>
  <2>1. at'[c] = at[c]
    BY SMTT(30), <1>5 DEF control
  <2>2. at[c] = "dequeue"
    BY ZenonT(30), <1>1, <1>5 DEF DequeueStep, DeqReady, DeqEmpty, DeqBehind, DeqReload, DeqClaim,
       DeqClaimFails, DeqRead, DeqRelease
  <2>3. CASE DeqRead(c)
    BY Zenon, <2>3, ReadsAQuery
  <2>4. CASE DeqRelease(c)
    BY Zenon, <1>1, <2>4 DEF DeqRelease, HasQuery
  <2>5. CASE DeqEmpty(c)
    BY SMTT(30), <2>1, <2>2, <2>5 DEF DeqEmpty, Return, GoTo, HasQuery
  <2>6. CASE \/ DeqReady(c) \/ DeqBehind(c) \/ DeqReload(c)
             \/ DeqClaim(c) \/ DeqClaimFails(c)
    BY SMTT(30), <2>1, <2>2, <2>6 DEF DeqReady, DeqBehind, DeqReload, DeqClaim, DeqClaimFails,
       GoTo, HasQuery
  <2> QED
    BY SMTT(30), <1>5, <2>3, <2>4, <2>5, <2>6 DEF DequeueStep
<1> QED
  BY Zenon, <1>2, <1>3, <1>4, <1>5 DEF ClientStep

(* Every step keeps the holders of the lock and the places of the clients  *)
(* in agreement.                                                           *)
LEMMA ClientLockKept ==
  ASSUME PInv, [PNext]_pvars
  PROVE  ClientLockInv'
<1>t. Typed
  BY Zenon, PoissonTypes
<1> USE <1>t DEF Typed
<1>1. ClientLockInv
  BY SMTT(30) DEF PInv
<1>2. CASE ProducerStep
  BY SMTT(30), <1>1, <1>2, ProducerFrame DEF ClientLockInv, HasQuery
<1>3. ASSUME NEW c \in Clients, ClientStep(c) PROVE ClientLockInv'
  <2>1. /\ op_choice' = op_choice /\ op_choice \in [Queries -> Sampled(Mix)]
        /\ \A d \in Clients \ {c} : at'[d] = at[d] /\ out'[d] = out[d]
    <3>1. op_choice \in [Queries -> Sampled(Mix)]
      BY <1>1, Zenon DEF ClientLockInv
    <3> QED
      BY <1>3, <3>1, ClientFrame, Zenon
  <2>2. ASSUME NEW d \in Clients, HasQuery(d)' PROVE out'[d] \in Queries
    <3>1. HasQuery(c)' => out'[c] \in Queries
      BY <1>3, QueryKept, Zenon
    <3>2. CASE d = c
      BY ZenonT(30), <2>2, <3>1, <3>2 DEF HasQuery
    <3>3. CASE d # c
      <4>1. at'[d] = at[d] /\ pc'[d] = pc[d] /\ ret'[d] = ret[d] /\ out'[d] = out[d]
        BY <1>3, <3>3, ClientFrame, ZenonT(60)
      <4>2. HasQuery(d)
        BY <2>2, <4>1, Zenon DEF HasQuery
      <4> QED
        BY <1>1, <4>1, <4>2, Zenon DEF ClientLockInv
    <3> QED
      BY SMTT(30), <3>2, <3>3
  <2>3. CASE Acquire(c)
    <3>1. at'[c] = "index" /\ at[c] = "dequeue" /\ out' = out
      BY Zenon, <2>3 DEF Acquire, Move, qvars
    <3>2. TakeLock(c, ClientLock(locks, op_choice[out[c]]))
      BY SMTT(30), <2>3 DEF Acquire
    <3>3. /\ op_choice[out[c]] \in Writes => c \in writer'
          /\ locks => c \in writer' \cup readers'
          /\ writer' = {} \/ readers' = {}
          /\ \A d, e \in writer' : d = e
          /\ writer \subseteq writer' /\ readers \subseteq readers'
          /\ writer' \cup readers' \subseteq writer \cup readers \cup {c}
      BY SMTT(30), <1>1, <3>2 DEF TakeLock, ClientLock, ClientLockInv, lock
    <3> QED
      BY ZenonT(30), <1>1, <2>1, <2>2, <3>1, <3>3 DEF ClientLockInv
  <2>4. CASE Release(c)
    <3>1. at'[c] = "work" /\ writer' = writer \ {c} /\ readers' = readers \ {c}
      BY SMTT(30), <2>4 DEF Release, DropLock, Move
    <3> QED
      BY SMTT(30), <1>1, <2>1, <2>2, <3>1 DEF ClientLockInv
  <2>5. CASE UNCHANGED lock /\ at[c] # "index" /\ at'[c] # "index"
    BY ZenonT(30), <1>1, <2>1, <2>2, <2>5 DEF ClientLockInv, lock
  <2>6. CASE \/ Fetch(c) \/ TestDone(c) \/ LoadEnqPos(c) \/ LoadDeqPos(c) \/ Record(c)
    BY SMTT(30), <2>5, <2>6 DEF Fetch, TestDone, FoundEmpty, LoadEnqPos, LoadDeqPos, Record,
       Move, others, lock
  <2>7. CASE DequeueStep(c) /\ UNCHANGED <<control, others>>
    <3>1. pc[c] # "idle"
      BY Zenon, <2>7 DEF DequeueStep, DeqReady, DeqEmpty, DeqBehind, DeqReload, DeqClaim,
         DeqClaimFails, DeqRead, DeqRelease
    <3>2. at[c] # "index"
      BY SMTT(30), <3>1 DEF PInv, ClientInv
    <3> QED
      BY SMTT(30), <2>5, <2>7, <3>2 DEF control, others, lock
  <2> QED
    BY SMTT(30), <1>3, <2>3, <2>4, <2>6, <2>7 DEF ClientStep
<1>4. CASE UNCHANGED pvars
  BY SMTT(30), <1>1, <1>4 DEF pvars, qvars, control, others, lock, ClientLockInv, HasQuery
<1> QED
  BY SMTT(30), <1>2, <1>3, <1>4 DEF PNext, Terminated

-----------------------------------------------------------------------------
(* The inductive invariant of the whole pipeline, the queue's own included. *)
THEOREM PoissonInvariant ==
  ASSUME Capacity >= 2
  PROVE  PSpec => []PInv
<1>1. PInit => PInv
  BY Zenon, PoissonInit
<1>2. PInv /\ [PNext]_pvars => PInv'
  BY SMTT(30), QueueKept, ProducerKept, RoomKept, ClientsKept, ClientLockKept DEF PInv
<1> QED
  BY <1>1, <1>2, PTL DEF PSpec

(* A client that leaves its loop (bench.cpp:271-272) leaves no query in    *)
(* the queue: done is loaded before the two positions, so a size of zero   *)
(* means that every query was taken, with stale loads too.                 *)
THEOREM PoissonDrains ==
  ASSUME Capacity >= 2
  PROVE  PSpec => []ExitOnlyWhenDrained
<1>1. PInv => ExitOnlyWhenDrained
  BY Zenon DEF PInv, ClientInv, ExitOnlyWhenDrained
<1> QED
  BY <1>1, PoissonInvariant, PTL

(* No query is held up while each has had a cell of its own, so that the   *)
(* automatic capacity of bench.cpp:905-919, at least the number of         *)
(* queries, keeps try_enqueue from ever failing, however slow the clients. *)
THEOREM PoissonNeverBlocks ==
  ASSUME Capacity >= 2
  PROVE  PSpec => []ProducerNeverBlocked
<1>1. PInv => ProducerNeverBlocked
  BY Zenon DEF PInv
<1> QED
  BY <1>1, PoissonInvariant, PTL

-----------------------------------------------------------------------------
(* Where each query is, from its ticket to its sample.                     *)

(* From its successful exchange to its record a client holds the query of  *)
(* its ticket.                                                             *)
Holds(c) == pc[c] = "deq_read" \/ HasQuery(c)

(* The producer offers the queries in order, so ticket t carries query     *)
(* t + 1, and counts every one that it has offered.                        *)
OfferInv ==
  /\ \A k \in 1 .. Len(sent) : sent[k] = k
  /\ at[Producer] = "enqueue" => arg[Producer] = next
  /\ produced = next - 1
  /\ at[Producer] \in {"join", "returned"} => next = NQueries + 1

(* A query that was taken is in one client's hands at a time.              *)
HolderInv ==
  /\ \A c \in Clients : Holds(c) =>
       /\ pos[c] < deq_pos
       /\ pc[c] # "deq_read" => out[c] = pos[c] + 1
  /\ \A c, d \in Clients : Holds(c) /\ Holds(d) /\ pos[c] = pos[d] => c = d

Recorded == {q \in Queries : \E c \in Clients : hist[c][q] = 1}

(* A query that was taken is either in a client's hands or recorded, once  *)
(* and by one client; the others are neither.                              *)
BookInv ==
  /\ hist \in [Clients -> [Queries -> {0, 1}]]
  /\ \A q \in Queries, c, d \in Clients :
       hist[c][q] = 1 =>
         /\ q <= deq_pos
         /\ hist[d][q] = 1 => c = d
         /\ ~(Holds(d) /\ pos[d] + 1 = q)
  /\ \A q \in Queries :
       q <= deq_pos =>
         \E c \in Clients : hist[c][q] = 1 \/ (Holds(c) /\ pos[c] + 1 = q)
  /\ consumed = Cardinality(Recorded)

LedgerInv == PInv /\ OfferInv /\ HolderInv /\ BookInv /\ EachQueryOnce

(* A step after which the same clients hold the same queries.              *)
LEMMA HandsKept ==
  ASSUME PInv, HolderInv, BookInv,
         UNCHANGED <<hist, consumed, deq_pos>>,
         \A c \in Clients : Holds(c)' <=> Holds(c),
         \A c \in Clients :
           Holds(c) => /\ pos'[c] = pos[c]
                       /\ pc'[c] # "deq_read" => out'[c] = pos[c] + 1
  PROVE  HolderInv' /\ BookInv'
<1> HIDE DEF Holds
<1>1. HolderInv'
  BY Zenon DEF HolderInv
<1>2. Recorded' = Recorded
  BY DEF Recorded
<1>3. BookInv'
  BY <1>2 DEF BookInv
<1> QED
  BY <1>1, <1>3

(* A producer's step leaves the clients their queries.                     *)
LEMMA ProducerHands ==
  ASSUME PInv, HolderInv, BookInv, ProducerStep
  PROVE  HolderInv' /\ BookInv'
<1>1. UNCHANGED <<hist, consumed, deq_pos>>
  BY Zenon, ProducerFrame DEF ProducerStep, Arrive, Retry, Produced, AllOffered, EndLoop,
     Join, others
<1>2. \A c \in Clients :
        /\ at'[c] = at[c] /\ pc'[c] = pc[c] /\ ret'[c] = ret[c]
        /\ out'[c] = out[c] /\ pos'[c] = pos[c]
  BY Zenon, ProducerFrame
<1>3. \A c \in Clients : Holds(c)' <=> Holds(c)
  BY <1>2, Zenon DEF Holds, HasQuery
<1>4. \A c \in Clients :
        Holds(c) => /\ pos'[c] = pos[c]
                    /\ pc'[c] # "deq_read" => out'[c] = pos[c] + 1
  BY Zenon, <1>2 DEF HolderInv
<1> QED
  BY Zenon, <1>1, <1>3, <1>4, HandsKept

(* A step of a client within or outside its possession of a query.         *)
LEMMA OwnHands ==
  ASSUME PInv, OfferInv, HolderInv, BookInv, NEW c \in Clients, ClientStep(c),
         ~DeqClaim(c), ~Record(c)
  PROVE  /\ UNCHANGED <<hist, consumed, deq_pos>>
         /\ Holds(c)' <=> Holds(c)
         /\ Holds(c) => /\ pos'[c] = pos[c]
                        /\ pc'[c] # "deq_read" => out'[c] = pos[c] + 1
<1>t. Typed
  BY Zenon, PoissonTypes
<1> USE <1>t DEF Typed, lock, others, Move
<1>1. /\ Holds(c) /\ pc[c] # "deq_read" => out[c] = pos[c] + 1
      /\ at[c] # "dequeue" => pc[c] = "idle"
  BY Zenon DEF PInv, ClientInv, HolderInv
<1>2. CASE Fetch(c)
  BY SMTT(30), <1>1, <1>2 DEF Fetch, TryDequeue, GoTo, shared, Holds, HasQuery
<1>3. CASE TestDone(c) \/ LoadEnqPos(c) \/ LoadDeqPos(c)
  BY SMTT(30), <1>1, <1>3 DEF TestDone, FoundEmpty, LoadEnqPos, LoadDeqPos, qvars, shared,
     Holds, HasQuery
<1>4. CASE Acquire(c) \/ Release(c)
  BY SMTT(30), <1>1, <1>4 DEF Acquire, Release, qvars, shared, Holds, HasQuery
<1>5. CASE DequeueStep(c) /\ UNCHANGED <<control, others>>
  <2>1. UNCHANGED <<at, hist, consumed>>
    BY Zenon, <1>5 DEF control
  <2>2. at[c] = "dequeue"
    BY ZenonT(30), <1>1, <1>5 DEF DequeueStep, DeqReady, DeqEmpty, DeqBehind, DeqReload, DeqClaim,
       DeqClaimFails, DeqRead, DeqRelease
  <2>3. CASE DeqRead(c)
    <3>1. Reading(c, pos[c])
      BY SMTT(30), <2>3 DEF DeqRead, Reading
    <3>2. pos[c] < deq_pos /\ value[Slot(pos[c])] = sent[pos[c] + 1]
      BY Zenon, <3>1 DEF PInv, QInv, ReaderShape
    <3>3. pos[c] + 1 \in 1 .. Len(sent)
      BY <3>2 DEF PInv, QInv, CallShape, BoundedOccupancy, QTypeOK
    <3>4. sent[pos[c] + 1] = pos[c] + 1
      BY Zenon, <3>3 DEF OfferInv
    <3>5. out'[c] = pos[c] + 1
      BY Zenon, <2>3, <3>2, <3>4 DEF DeqRead
    <3> QED
      BY Zenon, <2>1, <2>2, <2>3, <3>5 DEF DeqRead, GoTo, shared, Holds, HasQuery
  <2>4. CASE DeqRelease(c)
    BY Zenon, <1>1, <2>1, <2>2, <2>4 DEF DeqRelease, Return, GoTo, Holds, HasQuery
  <2>5. CASE DeqEmpty(c)
    BY Zenon, <2>1, <2>2, <2>5 DEF DeqEmpty, Return, GoTo, shared, Holds, HasQuery
  <2>6. CASE DeqReady(c) \/ DeqBehind(c) \/ DeqReload(c) \/ DeqClaimFails(c)
    BY Zenon, <2>1, <2>2, <2>6 DEF DeqReady, DeqBehind, DeqReload, DeqClaimFails,
       GoTo, shared, Holds, HasQuery
  <2> QED
    BY Zenon, <1>5, <2>3, <2>4, <2>5, <2>6 DEF DequeueStep
<1> QED
  BY Zenon, <1>2, <1>3, <1>4, <1>5 DEF ClientStep

(* What the other clients hold when one of them takes a step.              *)
LEMMA OtherHands ==
  ASSUME PInv, NEW c \in Clients, ClientStep(c), NEW d \in Clients, d # c
  PROVE  /\ Holds(d)' <=> Holds(d)
         /\ pos'[d] = pos[d] /\ out'[d] = out[d] /\ pc'[d] = pc[d]
<1>1. /\ at'[d] = at[d] /\ pc'[d] = pc[d] /\ ret'[d] = ret[d]
      /\ out'[d] = out[d] /\ pos'[d] = pos[d]
  BY Zenon, ClientFrame
<1> QED
  BY <1>1, Zenon DEF Holds, HasQuery

(* The numbers up to the next one.                                         *)
LEMMA OneFurther ==
  ASSUME NEW x \in Nat, NEW y \in Nat
  PROVE  /\ y < y + 1
         /\ x < y => x < y + 1 /\ x # y
         /\ x <= y => x <= y + 1 /\ y + 1 # x
         /\ x <= y + 1 => x <= y \/ x = y + 1
  OBVIOUS

(* A successful exchange puts the next query into the client's hands.      *)
LEMMA ClaimTakes ==
  ASSUME PInv, HolderInv, BookInv, NEW c \in Clients, ClientStep(c), DeqClaim(c)
  PROVE  HolderInv' /\ BookInv'
<1>t. Typed
  BY Zenon, PoissonTypes
<1> USE <1>t DEF Typed
<1>1. at[c] = "dequeue" /\ pc[c] = "deq_cas" /\ ~Holds(c)
  BY Zenon DEF PInv, ClientInv, DeqClaim, Holds, HasQuery
<1>2. /\ pc'[c] = "deq_read" /\ pos' = pos
      /\ deq_pos = pos[c] /\ deq_pos' = deq_pos + 1
  BY Zenon DEF DeqClaim, GoTo
<1>3. UNCHANGED <<hist, consumed>>
  BY <1>1, <1>2, SMTT(30) DEF ClientStep, Fetch, TryDequeue, TestDone, FoundEmpty, LoadEnqPos, LoadDeqPos,
     Acquire, Release, Record, others
<1>4. Holds(c)'
  BY Zenon, <1>2 DEF Holds
<1>5. \A d \in Clients : d # c =>
        (Holds(d)' <=> Holds(d)) /\ out'[d] = out[d] /\ pc'[d] = pc[d]
  BY Zenon, OtherHands
<1> HIDE DEF Holds
<1>6. \A d \in Clients : Holds(d) => pos[d] < deq_pos /\ d # c
  BY Zenon, <1>1 DEF HolderInv
<1>n. deq_pos \in Nat /\ \A d \in Clients : pos[d] \in Nat
  BY Zenon
<1>7. HolderInv'
  <2>1. ASSUME NEW d \in Clients, Holds(d)'
        PROVE  /\ pos'[d] < deq_pos'
               /\ pc'[d] # "deq_read" => out'[d] = pos'[d] + 1
    <3>1. CASE d = c
      BY Zenon, <1>2, <1>n, <3>1, OneFurther
    <3>2. CASE d # c
      BY Zenon, <1>2, <1>5, <1>6, <1>n, <2>1, <3>2, OneFurther DEF HolderInv
    <3> QED
      BY Zenon, <3>1, <3>2
  <2>2. ASSUME NEW d \in Clients, NEW e \in Clients, Holds(d)', Holds(e)', pos'[d] = pos'[e]
        PROVE  d = e
    <3>1. \A x \in Clients : x # c /\ Holds(x)' => pos[x] # pos[c]
      BY Zenon, <1>2, <1>5, <1>6, <1>n, OneFurther
    <3>2. CASE d = c \/ e = c
      BY Zenon, <1>2, <2>2, <3>1, <3>2
    <3>3. CASE d # c /\ e # c
      BY Zenon, <1>2, <1>5, <2>2, <3>3 DEF HolderInv
    <3> QED
      BY Zenon, <3>2, <3>3
  <2> QED
    BY Zenon, <2>1, <2>2 DEF HolderInv
<1>8. Recorded' = Recorded
  BY Zenon, <1>3 DEF Recorded
<1>9. ASSUME NEW q \in Queries, NEW d \in Clients, NEW e \in Clients, hist'[d][q] = 1
      PROVE  /\ q <= deq_pos'
             /\ hist'[e][q] = 1 => d = e
             /\ ~(Holds(e)' /\ pos'[e] + 1 = q)
  <2>1. q <= deq_pos /\ (hist[e][q] = 1 => d = e) /\ ~(Holds(e) /\ pos[e] + 1 = q)
    BY Zenon, <1>3, <1>9 DEF BookInv
  <2>2. q \in Nat
    BY DEF Queries
  <2>3. q <= deq_pos' /\ deq_pos + 1 # q
    BY Zenon, <1>2, <1>n, <2>1, <2>2, OneFurther
  <2>4. hist'[e][q] = 1 => d = e
    BY Zenon, <1>3, <2>1
  <2>5. CASE e = c
    BY Zenon, <1>2, <2>3, <2>4, <2>5
  <2>6. CASE e # c
    BY Zenon, <1>2, <1>5, <2>1, <2>3, <2>4, <2>6
  <2> QED
    BY Zenon, <2>5, <2>6
<1>10. ASSUME NEW q \in Queries, q <= deq_pos'
       PROVE  \E d \in Clients : hist'[d][q] = 1 \/ (Holds(d)' /\ pos'[d] + 1 = q)
  <2>1. q \in Nat
    BY DEF Queries
  <2>2. CASE q = deq_pos + 1
    BY Zenon, <1>2, <1>4, <2>2
  <2>3. CASE q <= deq_pos
    <3>1. PICK d \in Clients : hist[d][q] = 1 \/ (Holds(d) /\ pos[d] + 1 = q)
      BY Zenon, <2>3 DEF BookInv
    <3>2. hist'[d][q] = 1 \/ (Holds(d)' /\ pos'[d] + 1 = q)
      BY Zenon, <1>2, <1>3, <1>5, <1>6, <3>1
    <3> QED
      BY Zenon, <3>2
  <2> QED
    BY Zenon, <1>2, <1>10, <1>n, <2>1, <2>2, <2>3, OneFurther
<1>11. BookInv'
  BY Zenon, <1>3, <1>8, <1>9, <1>10 DEF BookInv
<1> QED
  BY Zenon, <1>7, <1>11

(* The producer's books.                                                   *)
LEMMA OffersKept ==
  ASSUME PInv, OfferInv, [PNext]_pvars
  PROVE  OfferInv'
<1>t. Typed
  BY Zenon, PoissonTypes
<1>i. /\ ProducerInv /\ Len(sent) = enq_pos /\ sent \in Seq(Items)
      /\ arg \in [Producers -> Items \cup {NoItem}] /\ next \in Nat
      /\ Producer \in Producers
  BY ThreadFacts DEF PInv, QInv, QTypeOK, CallShape, ProducerInv
<1> USE <1>t, <1>i DEF Typed
<1>1. CASE Arrive
  BY Zenon, <1>1 DEF Arrive, TryEnqueue, history, Move, OfferInv
<1>2. CASE Retry
  BY Zenon, <1>2 DEF Retry, TryEnqueue, history, control, OfferInv
<1>3. CASE Produced
  BY <1>3 DEF Produced, qvars, history, Move, OfferInv, ProducerInv
<1>4. CASE AllOffered
  BY <1>4 DEF AllOffered, EndLoop, qvars, history, Move, OfferInv, ProducerInv
<1>5. CASE Join
  BY Zenon, <1>5, PoissonJoin DEF qvars, history, Move, OfferInv
<1>6. CASE EnqueueStep(Producer) /\ UNCHANGED <<control, others>>
  <2>1. UNCHANGED <<at, next, produced, arg>>
    BY Zenon, <1>6 DEF EnqueueStep, EnqReady, EnqFull, EnqBehind, EnqReload, EnqClaim,
       EnqClaimFails, EnqWrite, EnqPublish, control
  <2>2. CASE EnqClaim(Producer)
    <3>1. at[Producer] = "enqueue" /\ enq_pos = next - 1
      BY Zenon, <2>2 DEF EnqClaim, ProducerInv, ProducerPlaces, Offered
    <3>2. sent' = Append(sent, next)
      BY Zenon, <2>2, <3>1 DEF EnqClaim, OfferInv
    <3>3. next \in Items
      BY <3>1, PoissonAssumption DEF ProducerInv, Queries
    <3>4. /\ Len(sent') = next
          /\ \A k \in 1 .. Len(sent') : sent'[k] = IF k = next THEN next ELSE sent[k]
      BY <3>1, <3>2, <3>3, Appending
    <3>5. \A k \in 1 .. Len(sent') : k # next => k \in 1 .. Len(sent)
      BY <3>1, <3>4
    <3>6. \A k \in 1 .. Len(sent') : sent'[k] = k
      BY Zenon, <3>4, <3>5 DEF OfferInv
    <3> QED
      BY Zenon, <2>1, <3>1, <3>6 DEF OfferInv
  <2>3. CASE UNCHANGED sent
    BY Zenon, <2>1, <2>3 DEF OfferInv
  <2> QED
    BY Zenon, <1>6, <2>2, <2>3 DEF EnqueueStep, EnqReady, EnqFull, EnqBehind, EnqReload,
       EnqClaimFails, EnqWrite, EnqPublish, history
<1>7. ASSUME NEW c \in Clients, ClientStep(c) PROVE OfferInv'
  <2>1. at'[Producer] = at[Producer] /\ next' = next
    BY Zenon, <1>7, ClientFrame
  <2>2. UNCHANGED <<sent, arg, produced>>
    <3>1. CASE DequeueStep(c) /\ UNCHANGED <<control, others>>
      BY Zenon, <3>1 DEF DequeueStep, DeqReady, DeqEmpty, DeqBehind, DeqReload, DeqClaim,
         DeqClaimFails, DeqRead, DeqRelease, history, control
    <3>2. CASE Fetch(c)
      BY Zenon, <3>2 DEF Fetch, TryDequeue, history
    <3>3. CASE TestDone(c) \/ LoadEnqPos(c) \/ LoadDeqPos(c)
      BY Zenon, <3>3 DEF TestDone, FoundEmpty, LoadEnqPos, LoadDeqPos, qvars, history
    <3>4. CASE Acquire(c) \/ Release(c) \/ Record(c)
      BY Zenon, <3>4 DEF Acquire, Release, Record, qvars, history
    <3> QED
      BY Zenon, <1>7, <3>1, <3>2, <3>3, <3>4 DEF ClientStep
  <2> QED
    BY Zenon, <2>1, <2>2 DEF OfferInv
<1>8. CASE UNCHANGED pvars
  BY Zenon, <1>8 DEF pvars, qvars, history, control, OfferInv
<1> QED
  BY <1>1, <1>2, <1>3, <1>4, <1>5, <1>6, <1>7, <1>8, Zenon DEF PNext, ProducerStep, Terminated

-----------------------------------------------------------------------------
(* From here on sets are counted.                                          *)
INSTANCE SumTheorems

(* What the lock records is enough to exclude a writer from the others.    *)
LEMMA ClientLockExcludes == ClientLockInv => IndexExclusion
<1> SUFFICES ASSUME ClientLockInv, ~thread_safe(IndexName),
                    NEW c \in Clients, NEW d \in Clients,
                    c # d, at[c] = "index", at[d] = "index"
             PROVE  op_choice[out[c]] \notin Writes
  BY Zenon DEF IndexExclusion
<1>1. CASE locks
  BY Zenon, <1>1 DEF ClientLockInv
<1>2. CASE ~locks
  <2>1. IsFiniteSet(Clients) /\ Cardinality(Clients) \in Nat
    BY Zenon, PoissonAssumption, FS_CardinalityType DEF Clients
  <2>2. Cardinality({c, d}) = 2 /\ IsFiniteSet({c, d})
    <3>1. IsFiniteSet({c}) /\ Cardinality({c}) = 1
      BY Zenon, FS_Singleton
    <3>2. /\ IsFiniteSet({c} \cup {d})
          /\ Cardinality({c} \cup {d}) =
               IF d \in {c} THEN Cardinality({c}) ELSE Cardinality({c}) + 1
      BY <3>1, FS_AddElement, Zenon
    <3>3. {c, d} = {c} \cup {d} /\ d \notin {c}
      BY Zenon
    <3>4. Cardinality({c, d}) = Cardinality({c}) + 1 /\ IsFiniteSet({c, d})
      BY <3>2, <3>3, Zenon
    <3> QED
      BY <3>1, <3>4
  <2>3. Cardinality(Clients) > 1
    BY SMTT(30), <2>1, <2>2, FS_Subset
  <2>4. Mix \cap Writes = {}
    BY SMTT(30), <1>2, <2>3 DEF locks, needs_lock, has_writes
  <2>5. op_choice[out[c]] \in Mix \cup {"scan"}
    BY Zenon DEF ClientLockInv, HasQuery, Sampled
  <2> QED
    BY Zenon, <2>4, <2>5 DEF Writes
<1> QED
  BY SMTT(30), <1>1, <1>2

(* client_thread's locking with run_poisson's policy (bench.cpp:286-311,   *)
(* 512-513) keeps a writer alone in an index that is not thread_safe, for  *)
(* any index, any mix and any number of clients.                           *)
THEOREM PoissonExcludes ==
  ASSUME Capacity >= 2
  PROVE  PSpec => []IndexExclusion
<1>1. PInv => IndexExclusion
  BY Zenon, ClientLockExcludes DEF PInv
<1> QED
  BY <1>1, PoissonInvariant, PTL

(* The books are empty at the start.                                       *)
LEMMA LedgerInit == PInit => LedgerInv
<1> SUFFICES ASSUME PInit PROVE LedgerInv
  BY Zenon
<1> USE ThreadFacts, PoissonAssumption
<1>1. PInv
  BY Zenon, PoissonInit
<1>2. OfferInv
  BY DEF PInit, QInit, OfferInv
<1>3. \A c \in Clients : ~Holds(c)
  BY DEF PInit, QInit, Holds, HasQuery
<1>4. HolderInv
  BY <1>3 DEF HolderInv
<1>5. hist = [c \in Clients |-> NoSamples] /\ consumed = 0 /\ deq_pos = 0
  BY Zenon DEF PInit, QInit
<1>6. \A c \in Clients, q \in Queries : hist[c][q] = 0
  BY <1>5 DEF NoSamples
<1>7. Recorded = {}
  BY <1>6 DEF Recorded
<1>8. hist \in [Clients -> [Queries -> {0, 1}]]
  BY Zenon, <1>5 DEF NoSamples
<1>9. \A q \in Queries : ~(q <= deq_pos)
  BY <1>5 DEF Queries
<1>10. BookInv
  BY <1>5, <1>6, <1>7, <1>8, <1>9, FS_EmptySet DEF BookInv
<1>11. EachQueryOnce
  BY Zenon DEF PInit, EachQueryOnce
<1> QED
  BY Zenon, <1>1, <1>2, <1>4, <1>10, <1>11 DEF LedgerInv

(* Recording the query takes it out of the client's hands.                 *)
LEMMA RecordEnters ==
  ASSUME PInv, HolderInv, BookInv, NEW c \in Clients, Record(c)
  PROVE  HolderInv' /\ BookInv'
<1>t. Typed
  BY Zenon, PoissonTypes
<1> USE <1>t DEF Typed
<1> DEFINE r == out[c]
<1>1. at[c] = "work" /\ pc[c] = "idle" /\ Holds(c)
  BY Zenon DEF PInv, ClientInv, Record, Holds, HasQuery
<1>2. r = pos[c] + 1 /\ r <= deq_pos /\ r \in Queries /\ r \in Nat
  <2>1. r \in Queries
    BY Zenon, <1>1 DEF PInv, ClientLockInv, HasQuery, Record
  <2> QED
    BY <1>1, <2>1 DEF HolderInv, Queries
<1>3. /\ hist' = [hist EXCEPT ![c][r] = @ + 1] /\ consumed' = consumed + 1
      /\ at' = [at EXCEPT ![c] = "loop"] /\ UNCHANGED qvars
  BY Zenon DEF Record, Move
<1>4. UNCHANGED <<deq_pos, pos, out, pc, ret>>
  BY Zenon, <1>3 DEF qvars, shared
<1>5. ~Holds(c)'
  BY Zenon, <1>1, <1>3, <1>4 DEF Holds, HasQuery
<1>6. \A d \in Clients : d # c => (Holds(d)' <=> Holds(d))
  BY Zenon, <1>3, <1>4 DEF Holds, HasQuery
<1> HIDE DEF Holds, r
<1>7. \A d \in Clients : Holds(d) /\ pos[d] + 1 = r => d = c
  BY <1>1, <1>2 DEF HolderInv
<1>8. \A d \in Clients : hist[d][r] = 0
  BY <1>1, <1>2 DEF BookInv
<1>9. \A d \in Clients, q \in Queries :
        hist'[d][q] = IF d = c /\ q = r THEN 1 ELSE hist[d][q]
  BY <1>2, <1>3, <1>8 DEF BookInv
<1>10. hist' \in [Clients -> [Queries -> {0, 1}]]
  <2>1. hist[c] \in [Queries -> {0, 1}] /\ hist[c][r] = 0
    BY Zenon, <1>8 DEF BookInv
  <2>2. [hist[c] EXCEPT ![r] = @ + 1] \in [Queries -> {0, 1}]
    <3>1. hist[c][r] + 1 = 1
      BY <2>1
    <3>2. [hist[c] EXCEPT ![r] = 1] \in [Queries -> {0, 1}]
      BY <2>1, Zenon
    <3> QED
      BY <3>1, <3>2, Zenon
  <2>3. hist' = [hist EXCEPT ![c] = [hist[c] EXCEPT ![r] = @ + 1]]
    BY Zenon, <1>3
  <2> QED
    BY Zenon, <2>2, <2>3 DEF BookInv
<1>11. HolderInv'
  BY Zenon, <1>4, <1>5, <1>6 DEF HolderInv
<1>12. ASSUME NEW q \in Queries, NEW d \in Clients, NEW e \in Clients, hist'[d][q] = 1
       PROVE  /\ q <= deq_pos'
              /\ hist'[e][q] = 1 => d = e
              /\ ~(Holds(e)' /\ pos'[e] + 1 = q)
  <2>1. CASE q = r
    <3>1. \A f \in Clients : hist'[f][r] = 1 => f = c
      BY <1>2, <1>8, <1>9
    <3>2. ~(Holds(e)' /\ pos'[e] + 1 = r)
      BY Zenon, <1>4, <1>5, <1>6, <1>7
    <3> QED
      BY Zenon, <1>2, <1>4, <1>12, <2>1, <3>1, <3>2
  <2>2. CASE q # r
    <3>1. hist[d][q] = 1
      BY Zenon, <1>9, <1>12, <2>2
    <3>2. q <= deq_pos /\ (hist[e][q] = 1 => d = e) /\ ~(Holds(e) /\ pos[e] + 1 = q)
      BY Zenon, <3>1 DEF BookInv
    <3> QED
      BY Zenon, <1>4, <1>5, <1>6, <1>9, <2>2, <3>2
  <2> QED
    BY Zenon, <2>1, <2>2
<1>13. ASSUME NEW q \in Queries, q <= deq_pos'
       PROVE  \E d \in Clients : hist'[d][q] = 1 \/ (Holds(d)' /\ pos'[d] + 1 = q)
  <2>1. CASE q = r
    BY Zenon, <1>9, <2>1
  <2>2. CASE q # r
    <3>1. PICK d \in Clients : hist[d][q] = 1 \/ (Holds(d) /\ pos[d] + 1 = q)
      BY Zenon, <1>4, <1>13 DEF BookInv
    <3>2. d = c => hist[d][q] = 1
      BY Zenon, <1>2, <2>2, <3>1
    <3>3. hist'[d][q] = 1 \/ (Holds(d)' /\ pos'[d] + 1 = q)
      BY Zenon, <1>4, <1>6, <1>9, <2>2, <3>1, <3>2
    <3> QED
      BY Zenon, <3>3
  <2> QED
    BY Zenon, <2>1, <2>2
<1>14. consumed' = Cardinality(Recorded')
  <2>1. Recorded' = Recorded \cup {r}
    <3>1. \A q \in Queries :
            (\E d \in Clients : hist'[d][q] = 1)
              <=> (q = r \/ \E d \in Clients : hist[d][q] = 1)
      BY Zenon, <1>9
    <3> QED
      BY Zenon, <1>2, <3>1 DEF Recorded
  <2>2. r \notin Recorded
    BY <1>8 DEF Recorded
  <2>3. IsFiniteSet(Recorded)
    <3>1. IsFiniteSet(Queries)
      BY FS_Interval DEF Queries
    <3> QED
      BY Zenon, <3>1, FS_Subset DEF Recorded
  <2> QED
    BY Zenon, <1>3, <2>1, <2>2, <2>3, FS_AddElement DEF BookInv
<1>15. BookInv'
  BY Zenon, <1>10, <1>12, <1>13, <1>14 DEF BookInv
<1> QED
  BY Zenon, <1>11, <1>15

(* Every step keeps the clients' books.                                    *)
LEMMA BooksKept ==
  ASSUME LedgerInv, [PNext]_pvars
  PROVE  HolderInv' /\ BookInv'
<1> USE DEF LedgerInv
<1>1. CASE ProducerStep
  BY Zenon, <1>1, ProducerHands
<1>2. ASSUME NEW c \in Clients, ClientStep(c) PROVE HolderInv' /\ BookInv'
  <2>1. CASE DeqClaim(c)
    BY Zenon, <1>2, <2>1, ClaimTakes
  <2>2. CASE Record(c)
    BY Zenon, <1>2, <2>2, RecordEnters
  <2>3. CASE ~DeqClaim(c) /\ ~Record(c)
    <3>1. /\ UNCHANGED <<hist, consumed, deq_pos>>
          /\ Holds(c)' <=> Holds(c)
          /\ Holds(c) => /\ pos'[c] = pos[c]
                         /\ pc'[c] # "deq_read" => out'[c] = pos[c] + 1
      BY Zenon, <1>2, <2>3, OwnHands
    <3>2. \A d \in Clients : d # c =>
            /\ Holds(d)' <=> Holds(d)
            /\ pos'[d] = pos[d] /\ out'[d] = out[d] /\ pc'[d] = pc[d]
      BY Zenon, <1>2, OtherHands
    <3>3. \A d \in Clients : Holds(d)' <=> Holds(d)
      BY <3>1, <3>2, Zenon
    <3>4. \A d \in Clients :
            Holds(d) => /\ pos'[d] = pos[d]
                        /\ pc'[d] # "deq_read" => out'[d] = pos[d] + 1
      BY Zenon, <3>1, <3>2 DEF HolderInv
    <3> QED
      BY Zenon, <3>1, <3>3, <3>4, HandsKept
  <2> QED
    BY Zenon, <2>1, <2>2, <2>3
<1>3. CASE UNCHANGED pvars
  <2>1. UNCHANGED <<hist, consumed, deq_pos, pos, pc, out, at, ret>>
    BY Zenon, <1>3 DEF pvars, qvars, shared, control, others
  <2>2. \A d \in Clients : Holds(d)' <=> Holds(d)
    BY <2>1, Zenon DEF Holds, HasQuery
  <2>3. \A d \in Clients :
          Holds(d) => /\ pos'[d] = pos[d]
                      /\ pc'[d] # "deq_read" => out'[d] = pos[d] + 1
    BY Zenon, <2>1 DEF HolderInv
  <2> QED
    BY Zenon, <2>1, <2>2, <2>3, HandsKept
<1> QED
  BY Zenon, <1>1, <1>2, <1>3 DEF PNext, Terminated

(* When every client has left, every query has been taken, none is in a    *)
(* client's hands, and so each is recorded exactly once.                   *)
LEMMA AllRecorded ==
  ASSUME LedgerInv, Clients # {}, \A c \in Clients : at[c] = "exited"
  PROVE  /\ consumed = NQueries
         /\ \A q \in Queries : SumFunction([c \in Clients |-> hist[c][q]]) = 1
<1> USE DEF LedgerInv
<1>1. deq_pos = NQueries
  BY Zenon DEF PInv, ClientInv
<1>2. \A c \in Clients : ~Holds(c)
  BY Zenon DEF PInv, ClientInv, Holds, HasQuery
<1>3. \A q \in Queries : q <= deq_pos
  BY <1>1, PoissonAssumption DEF Queries
<1>4. \A q \in Queries : \E c \in Clients : hist[c][q] = 1
  BY Zenon, <1>2, <1>3 DEF BookInv
<1>5. consumed = NQueries
  <2>1. Recorded = Queries
    BY Zenon, <1>4 DEF Recorded
  <2>2. Cardinality(Queries) = NQueries
    BY FS_Interval, PoissonAssumption DEF Queries
  <2> QED
    BY Zenon, <2>1, <2>2 DEF BookInv
<1>6. ASSUME NEW q \in Queries
      PROVE  SumFunction([c \in Clients |-> hist[c][q]]) = 1
  <2> DEFINE g == [c \in Clients |-> hist[c][q]]
  <2>1. PICK y \in Clients : hist[y][q] = 1
    BY Zenon, <1>4
  <2>2. \A c \in Clients : c # y => g[c] = 0
    BY <2>1 DEF BookInv
  <2>3. g[y] = 1 /\ DOMAIN g = Clients
    BY Zenon, <2>1
  <2>4. IsFiniteSet(Clients)
    BY Zenon, PoissonAssumption DEF Clients
  <2> HIDE DEF g
  <2>5. SumFunctionOnSet(g, Clients) = 1
    BY Zenon, <2>2, <2>3, <2>4, SumOne
  <2> QED
    BY Zenon, <2>3, <2>5 DEF SumFunction, g
<1> QED
  BY Zenon, <1>5, <1>6

(* What run_poisson returns.                                               *)
LEMMA ReturnsOnce ==
  ASSUME Clients # {}, LedgerInv, [PNext]_pvars
  PROVE  EachQueryOnce'
<1>t. Typed
  BY Zenon, PoissonTypes DEF LedgerInv
<1> USE <1>t DEF Typed
<1>1. CASE Join
  <2>1. produced = NQueries
    <3>1. at[Producer] \in {"join", "returned"}
      BY Zenon, <1>1 DEF Join
    <3>2. next = NQueries + 1 /\ produced = next - 1
      BY Zenon, <3>1 DEF LedgerInv, OfferInv
    <3>3. NQueries \in Nat
      BY Zenon, PoissonAssumption
    <3>4. (NQueries + 1) - 1 = NQueries
      BY <3>3
    <3> QED
      BY Zenon, <3>2, <3>4
  <2>2. /\ consumed = NQueries
        /\ \A q \in Queries : SumFunction([c \in Clients |-> hist[c][q]]) = 1
    BY Zenon, <1>1, AllRecorded DEF Join
  <2>3. [q \in Queries |-> SumFunction([c \in Clients |-> hist[c][q]])]
          = [q \in Queries |-> 1]
    BY <2>2, Zenon
  <2> QED
    BY <1>1, <2>1, <2>2, <2>3, Zenon DEF Join, EachQueryOnce
<1>2. CASE result' = result /\ (at'[Producer] = "returned" => at[Producer] = "returned")
  BY <1>2, Zenon DEF LedgerInv, EachQueryOnce
<1>3. CASE \/ Arrive \/ Retry \/ Produced \/ AllOffered
           \/ EnqueueStep(Producer) /\ UNCHANGED <<control, others>>
  BY Zenon, <1>2, <1>3 DEF Arrive, Retry, Produced, AllOffered, EndLoop, Move, control, others
<1>4. ASSUME NEW c \in Clients, ClientStep(c) PROVE EachQueryOnce'
  <2>1. PInv
    BY Zenon DEF LedgerInv
  <2>2. at'[Producer] = at[Producer]
    BY Zenon, <1>4, <2>1, ClientFrame
  <2>3. result' = result
    BY Zenon, <1>4 DEF ClientStep, Fetch, TestDone, FoundEmpty, LoadEnqPos, LoadDeqPos,
       Acquire, Release, Record, others
  <2> QED
    BY Zenon, <1>2, <2>2, <2>3
<1>5. CASE UNCHANGED pvars
  BY Zenon, <1>2, <1>5 DEF pvars, control, others
<1> QED
  BY <1>1, <1>3, <1>4, <1>5, Zenon DEF PNext, ProducerStep, Terminated

(* run_poisson with at least one client (bench.cpp:552-583) reports every  *)
(* query as produced and as consumed, and its merged histograms hold       *)
(* exactly one sample of each: whatever the interleaving of the queue's    *)
(* steps, with stale loads and failing exchanges, no query is served twice *)
(* and none is lost, for any number of clients and queries.                *)
THEOREM PoissonServesEachOnce ==
  ASSUME Capacity >= 2, Clients # {}
  PROVE  PSpec => []EachQueryOnce
<1>1. PInit => LedgerInv
  BY Zenon, LedgerInit
<1>2. LedgerInv /\ [PNext]_pvars => LedgerInv'
  <2> SUFFICES ASSUME LedgerInv, [PNext]_pvars PROVE LedgerInv'
    BY Zenon
  <2>1. PInv'
    <3>1. PInv
      BY Zenon DEF LedgerInv
    <3> QED
      BY SMTT(30), <3>1, QueueKept, ProducerKept, RoomKept, ClientsKept, ClientLockKept DEF PInv
  <2>2. OfferInv'
    BY OffersKept DEF LedgerInv
  <2> QED
    BY Zenon, <2>1, <2>2, BooksKept, ReturnsOnce DEF LedgerInv
<1>3. LedgerInv => EachQueryOnce
  BY Zenon DEF LedgerInv
<1> QED
  BY <1>1, <1>2, <1>3, PTL DEF PSpec

=============================================================================
