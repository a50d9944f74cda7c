----------------------------- MODULE PoissonRun -----------------------------
(***************************************************************************)
(* run_poisson and client_thread of bench.cpp: one producer offers the     *)
(* queries to an MPMCQueue in arrival order, clients dequeue them, run     *)
(* them against the index under a lock policy, and stop once the producer  *)
(* is done and the queue looks empty.  The queue is the one of MPMCQueue,  *)
(* step by step; a queue item is the number of a query.                    *)
(***************************************************************************)
EXTENDS MPMCQueue, IndexAccess, FiniteSetsExt

CONSTANTS
  Producer,    \* the thread that runs run_poisson
  NQueries,    \* qkeys.size()
  IndexName,   \* --index
  Mix          \* the operations of --op-mix

Clients == Consumers
Queries == 1 .. NQueries

ASSUME PoissonAssumption ==
  /\ Producers = {Producer}
  /\ NQueries \in Nat
  /\ Items = Queries
  /\ IsFiniteSet(Consumers)
  /\ IndexName \in Indexes
  /\ Mix \subseteq Ops

VARIABLES
  at,         \* where each thread is, outside the queue's own code
  next,       \* the producer's loop index i
  op_choice,  \* the pregenerated operation of each query
  done, produced, consumed,
  size_e,     \* the local variable e of each client's approx_size
  hist,       \* how often each query was added to each client's histograms
  result      \* what run_poisson returns

control == <<at, next, done, produced>>
others  == <<consumed, lock, op_choice, size_e, hist, result>>
pvars   == <<qvars, control, others>>

NoSamples == [q \in Queries |-> 0]

Move(t, label) == at' = [at EXCEPT ![t] = label]

locks == needs_lock(IndexName, Mix, Cardinality(Clients))

PInit ==
  /\ QInit
  /\ at = [t \in Threads |-> "loop"]
  /\ next = 1
  /\ op_choice \in [Queries -> Sampled(Mix)]
  /\ done = FALSE
  /\ produced = 0
  /\ consumed = 0
  /\ LockInit
  /\ size_e = [c \in Clients |-> 0]
  /\ hist = [c \in Clients |-> NoSamples]
  /\ result = [produced |-> 0, consumed |-> 0, h |-> NoSamples]

-----------------------------------------------------------------------------
(* The producer                                                            *)

(* spin_until the scheduled arrival and offer the query.                   *)
Arrive ==
  /\ at[Producer] = "loop"
  /\ next <= NQueries
  /\ TryEnqueue(Producer, next)
  /\ Move(Producer, "enqueue")
  /\ UNCHANGED <<next, done, produced, others>>

(* Mutant: a query that finds the queue full is dropped.                   *)
RetryNever ==
  /\ at[Producer] = "enqueue"
  /\ pc[Producer] = "idle"
  /\ ~ret[Producer]
  /\ next' = next + 1
  /\ Move(Producer, "loop")
  /\ UNCHANGED <<qvars, done, produced, others>>

(* while (!q.try_enqueue(e)): offer the same query again.                  *)
Retry ==
  /\ at[Producer] = "enqueue"
  /\ ~ret[Producer]
  /\ TryEnqueue(Producer, next)
  /\ UNCHANGED <<control, others>>

Produced ==
  /\ at[Producer] = "enqueue"
  /\ pc[Producer] = "idle"
  /\ ret[Producer]
  /\ produced' = produced + 1
  /\ next' = next + 1
  /\ Move(Producer, "loop")
  /\ UNCHANGED <<qvars, done, others>>

(* The loop ends; done becomes flag.                                       *)
EndLoop(flag) ==
  /\ at[Producer] = "loop"
  /\ next > NQueries
  /\ done' = flag
  /\ Move(Producer, "join")
  /\ UNCHANGED <<qvars, next, produced, others>>

(* Mutant: done is never set.                                              *)
AllOfferedSilently == EndLoop(done)

AllOffered == EndLoop(TRUE)

(* join every client, read the counters and merge the histograms.          *)
Join ==
  /\ at[Producer] = "join"
  /\ \A c \in Clients : at[c] = "exited"
  /\ result' = [produced |-> produced,
                consumed |-> consumed,
                h |-> [q \in Queries |->
                         SumFunction([c \in Clients |-> hist[c][q]])]]
  /\ Move(Producer, "returned")
  /\ UNCHANGED <<qvars, next, done, produced, consumed, lock, op_choice, size_e, hist>>

ProducerStep ==
  \/ Arrive \/ Retry \/ Produced \/ AllOffered \/ Join
  \/ /\ EnqueueStep(Producer)
     /\ UNCHANGED <<control, others>>

-----------------------------------------------------------------------------
(* A client                                                                *)

Fetch(c) ==
  /\ at[c] = "loop"
  /\ TryDequeue(c)
  /\ Move(c, "dequeue")
  /\ UNCHANGED <<next, done, produced, others>>

(* try_dequeue returned false: go on, or look at the size.                 *)
FoundEmpty(c, last) ==
  /\ at[c] = "dequeue"
  /\ pc[c] = "idle"
  /\ ~ret[c]
  /\ Move(c, IF last THEN "size_enq" ELSE "loop")
  /\ UNCHANGED <<qvars, next, done, produced, others>>

(* Mutant: the size alone decides.                                         *)
TestDoneNot(c) == FoundEmpty(c, TRUE)

(* Load done.                                                              *)
TestDone(c) == FoundEmpty(c, done)

(* approx_size: load enq_pos_.  The acquire load of done makes every       *)
(* exchange of the producer visible, so this load is never stale.          *)
LoadEnqPos(c) ==
  /\ at[c] = "size_enq"
  /\ size_e' = [size_e EXCEPT ![c] = enq_pos]
  /\ Move(c, "size_deq")
  /\ UNCHANGED <<qvars, next, done, produced, consumed, lock, op_choice, hist, result>>

(* approx_size: load deq_pos_ and leave the loop if the size is zero.      *)
LoadDeqPos(c) ==
  /\ at[c] = "size_deq"
  /\ \E d \in LoadPos(deq_pos, pos[c]) :
       LET size == IF size_e[c] >= d THEN size_e[c] - d ELSE 0
       IN  Move(c, IF size = 0 THEN "exited" ELSE "loop")
  /\ UNCHANGED <<qvars, next, done, produced, others>>

(* try_dequeue returned true: take the lock the operation needs.           *)
Acquire(c) ==
  /\ at[c] = "dequeue"
  /\ pc[c] = "idle"
  /\ ret[c]
  /\ TakeLock(c, ClientLock(locks, op_choice[out[c]]))
  /\ Move(c, "index")
  /\ UNCHANGED <<qvars, next, done, produced, consumed, op_choice, size_e, hist, result>>

(* The index call returns and the lock's scope ends.                       *)
Release(c) ==
  /\ at[c] = "index"
  /\ DropLock(c)
  /\ Move(c, "work")
  /\ UNCHANGED <<qvars, next, done, produced, consumed, op_choice, size_e, hist, result>>

(* work->run returns: add the query to the histograms and count it.        *)
Record(c) ==
  /\ at[c] = "work"
  /\ hist' = [hist EXCEPT ![c][out[c]] = @ + 1]
  /\ consumed' = consumed + 1
  /\ Move(c, "loop")
  /\ UNCHANGED <<qvars, next, done, produced, lock, op_choice, size_e, result>>

ClientStep(c) ==
  \/ Fetch(c) \/ TestDone(c) \/ LoadEnqPos(c) \/ LoadDeqPos(c)
  \/ Acquire(c) \/ Release(c) \/ Record(c)
  \/ /\ DequeueStep(c)
     /\ UNCHANGED <<control, others>>

(* The process is over once run_poisson has returned.                      *)
Terminated == at[Producer] = "returned" /\ UNCHANGED pvars

PNext == ProducerStep \/ (\E c \in Clients : ClientStep(c)) \/ Terminated

PSpec == PInit /\ [][PNext]_pvars

(* Every thread keeps running, and an exchange that can succeed again and  *)
(* again does (compare_exchange_weak fails spuriously only now and then).  *)
PFairness ==
  /\ WF_pvars(ProducerStep)
  /\ \A c \in Clients : WF_pvars(ClientStep(c))
  /\ SF_pvars(ProducerStep /\ EnqClaim(Producer))
  /\ \A c \in Clients : SF_pvars(ClientStep(c) /\ DeqClaim(c))

PFairSpec == PSpec /\ PFairness

-----------------------------------------------------------------------------
(* Properties                                                              *)

(* A client leaves its loop (bench.cpp:271-272) only when every query has  *)
(* been taken from the queue: no query is abandoned by the shutdown.       *)
ExitOnlyWhenDrained == \A c \in Clients : at[c] = "exited" => deq_pos = NQueries

(* run_poisson reports every query as produced and as consumed, and its    *)
(* merged histograms hold exactly one sample for it (bench.cpp:574-583).   *)
EachQueryOnce ==
  at[Producer] = "returned" =>
    result = [produced |-> NQueries,
              consumed |-> NQueries,
              h |-> [q \in Queries |-> 1]]

(* While the index is not thread_safe, a writer is alone in it, whatever   *)
(* mixture of locked and unlocked accesses the policy allows               *)
(* (bench.cpp:286-310, 512-513).                                           *)
IndexExclusion ==
  ~thread_safe(IndexName) =>
    \A c, d \in Clients :
      c # d /\ at[c] = "index" /\ at[d] = "index" =>
        op_choice[out[c]] \notin Writes

(* As long as every query so far has a cell of its own, the producer never *)
(* waits.  In particular a queue with room for every query never makes it  *)
(* wait, the purpose of the automatic capacity (bench.cpp:905-906).        *)
ProducerNeverBlocked ==
  next <= Capacity =>
    ~(at[Producer] = "enqueue" /\ pc[Producer] = "idle" /\ ~ret[Producer])

(* The run ends: every query is eventually served, every client sees the   *)
(* shutdown and is joined (bench.cpp:560-574).                             *)
RunTerminates == <>(at[Producer] = "returned")

=============================================================================
