------------------------------ MODULE MPMCQueue ------------------------------
(***************************************************************************)
(* mpmc_queue.hpp: the bounded multi-producer multi-consumer ring buffer   *)
(* between the arrival producer and the clients.  Every access to a shared *)
(* atomic, and each plain access to a cell's value, is a step of its own;  *)
(* the computation between two of them is part of the first.               *)
(*                                                                         *)
(* A POSITION of enq_pos_ / deq_pos_ that a compare-exchange moved past is *)
(* called a TICKET: the thread whose exchange succeeded owns it and, until *)
(* it stores the cell's sequence number, the cell too.                     *)
(***************************************************************************)
EXTENDS Integers, Sequences, FiniteSets

CONSTANTS
  Producers,     \* threads that call try_enqueue
  Consumers,     \* threads that call try_dequeue
  Items,         \* the values of type T
  NoItem,        \* a cell or an output that holds no value yet
  Capacity,      \* capacity_
  MaxEnqueues,   \* bound on the tickets producers may take
  RelaxedLoads   \* TRUE: an atomic load may return an older value

ASSUME QueueAssumption ==
  /\ Producers \cap Consumers = {}
  /\ NoItem \notin Items
  /\ Capacity \in Nat \ {0}
  /\ MaxEnqueues \in Nat
  /\ RelaxedLoads \in BOOLEAN

VARIABLES
  seq,      \* cell->seq of every cell
  value,    \* cell->value of every cell
  enq_pos,  \* enq_pos_
  deq_pos,  \* deq_pos_
  pc,       \* where each thread is inside its call; "idle" outside
  pos,      \* the local variable pos of each thread's call
  arg,      \* the argument v of each producer's call
  out,      \* the reference parameter out of each consumer's call
  ret,      \* what each thread's last call returned
  sent,     \* history: the item of every enqueue ticket, in ticket order
  rcvd      \* history: what was read for every dequeue ticket, NoItem before

shared  == <<seq, value, enq_pos, deq_pos>>
history == <<sent, rcvd>>
qvars   == <<shared, pc, pos, arg, out, ret, history>>

Threads == Producers \cup Consumers
Cells   == 0 .. Capacity - 1

EnqueueSteps == {"enq_probe", "enq_cas", "enq_reload", "enq_write", "enq_publish"}
DequeueSteps == {"deq_probe", "deq_cas", "deq_reload", "deq_read", "deq_release"}

(* pos & mask_, where mask_ = capacity_ - 1 and capacity_ a power of two.  *)
Slot(p) == p % Capacity

(* Values an atomic load may return: the current one, or, when loads may   *)
(* be stale, an older one of the same location.  A thread never reads a    *)
(* position older than one it has already read.                            *)
LoadPos(current, last) == IF RelaxedLoads THEN last .. current ELSE {current}

LoadSeq(c) ==
  IF RelaxedLoads
    THEN {s \in c .. seq[c] : Slot(s) \in {c, Slot(c + 1)}}
    ELSE {seq[c]}

GoTo(t, label) == pc' = [pc EXCEPT ![t] = label]

Return(t, result) ==
  /\ GoTo(t, "idle")
  /\ ret' = [ret EXCEPT ![t] = result]

(* The constructor: cell i starts with sequence number i.                  *)
QInit ==
  /\ seq = [c \in Cells |-> c]
  /\ value = [c \in Cells |-> NoItem]
  /\ enq_pos = 0
  /\ deq_pos = 0
  /\ pc = [t \in Threads |-> "idle"]
  /\ pos = [t \in Threads |-> 0]
  /\ arg = [p \in Producers |-> NoItem]
  /\ out = [c \in Consumers |-> NoItem]
  /\ ret = [t \in Threads |-> FALSE]
  /\ sent = <<>>
  /\ rcvd = <<>>

-----------------------------------------------------------------------------
(* try_enqueue                                                             *)

(* Producers between the call and a successful exchange.                   *)
Claiming == {p \in Producers : pc[p] \in {"enq_probe", "enq_cas", "enq_reload"}}

(* Call with v and load enq_pos_.                                          *)
TryEnqueue(p, v) ==
  /\ pc[p] = "idle"
  /\ arg' = [arg EXCEPT ![p] = v]
  /\ \E q \in LoadPos(enq_pos, pos[p]) : pos' = [pos EXCEPT ![p] = q]
  /\ GoTo(p, "enq_probe")
  /\ UNCHANGED <<shared, out, ret, history>>

(* Mutant: diff <= 0.                                                      *)
EnqReadyBelow(p) ==
  /\ pc[p] = "enq_probe"
  /\ \E s \in LoadSeq(Slot(pos[p])) : s <= pos[p]
  /\ GoTo(p, "enq_cas")
  /\ UNCHANGED <<shared, pos, arg, out, ret, history>>

(* Load the cell's sequence number: diff == 0, the cell is free.           *)
EnqReady(p) ==
  /\ pc[p] = "enq_probe"
  /\ \E s \in LoadSeq(Slot(pos[p])) : s = pos[p]
  /\ GoTo(p, "enq_cas")
  /\ UNCHANGED <<shared, pos, arg, out, ret, history>>

(* Mutant: diff <= 0.                                                      *)
EnqFullAtZero(p) ==
  /\ pc[p] = "enq_probe"
  /\ \E s \in LoadSeq(Slot(pos[p])) : s <= pos[p]
  /\ Return(p, FALSE)
  /\ UNCHANGED <<shared, pos, arg, out, history>>

(* diff < 0: the cell still holds the item of one lap ago; return false.   *)
EnqFull(p) ==
  /\ pc[p] = "enq_probe"
  /\ \E s \in LoadSeq(Slot(pos[p])) : s < pos[p]
  /\ Return(p, FALSE)
  /\ UNCHANGED <<shared, pos, arg, out, history>>

(* diff > 0: another producer took this position.                          *)
EnqBehind(p) ==
  /\ pc[p] = "enq_probe"
  /\ \E s \in LoadSeq(Slot(pos[p])) : s > pos[p]
  /\ GoTo(p, "enq_reload")
  /\ UNCHANGED <<shared, pos, arg, out, ret, history>>

EnqReload(p) ==
  /\ pc[p] = "enq_reload"
  /\ \E q \in LoadPos(enq_pos, pos[p]) : pos' = [pos EXCEPT ![p] = q]
  /\ GoTo(p, "enq_probe")
  /\ UNCHANGED <<shared, arg, out, ret, history>>

(* Mutant: a store instead of a compare-exchange.                          *)
EnqClaimStore(p) ==
  /\ pc[p] = "enq_cas"
  /\ enq_pos' = pos[p] + 1
  /\ sent' = Append(sent, arg[p])
  /\ GoTo(p, "enq_write")
  /\ UNCHANGED <<seq, value, deq_pos, pos, arg, out, ret, rcvd>>

(* compare_exchange_weak succeeds: the producer owns ticket pos.           *)
EnqClaim(p) ==
  /\ pc[p] = "enq_cas"
  /\ enq_pos = pos[p]
  /\ enq_pos' = pos[p] + 1
  /\ sent' = Append(sent, arg[p])
  /\ GoTo(p, "enq_write")
  /\ UNCHANGED <<seq, value, deq_pos, pos, arg, out, ret, rcvd>>

(* The exchange fails, because enq_pos_ moved or spuriously, and loads     *)
(* enq_pos_ into pos.                                                      *)
EnqClaimFails(p) ==
  /\ pc[p] = "enq_cas"
  /\ pos' = [pos EXCEPT ![p] = enq_pos]
  /\ GoTo(p, "enq_probe")
  /\ UNCHANGED <<shared, arg, out, ret, history>>

EnqWrite(p) ==
  /\ pc[p] = "enq_write"
  /\ value' = [value EXCEPT ![Slot(pos[p])] = arg[p]]
  /\ GoTo(p, "enq_publish")
  /\ UNCHANGED <<seq, enq_pos, deq_pos, pos, arg, out, ret, history>>

(* Mutant: the consumer's increment.                                       *)
EnqPublishLap(p) ==
  /\ pc[p] = "enq_publish"
  /\ seq' = [seq EXCEPT ![Slot(pos[p])] = pos[p] + Capacity]
  /\ Return(p, TRUE)
  /\ UNCHANGED <<value, enq_pos, deq_pos, pos, arg, out, history>>

(* Mutant: the sequence number stays.                                      *)
EnqPublishSilent(p) ==
  /\ pc[p] = "enq_publish"
  /\ Return(p, TRUE)
  /\ UNCHANGED <<shared, pos, arg, out, history>>

EnqPublish(p) ==
  /\ pc[p] = "enq_publish"
  /\ seq' = [seq EXCEPT ![Slot(pos[p])] = pos[p] + 1]
  /\ Return(p, TRUE)
  /\ UNCHANGED <<value, enq_pos, deq_pos, pos, arg, out, history>>

EnqueueStep(p) ==
  \/ EnqReady(p) \/ EnqFull(p) \/ EnqBehind(p) \/ EnqReload(p)
  \/ EnqClaim(p) \/ EnqClaimFails(p) \/ EnqWrite(p) \/ EnqPublish(p)

-----------------------------------------------------------------------------
(* try_dequeue                                                             *)

TryDequeue(c) ==
  /\ pc[c] = "idle"
  /\ \E q \in LoadPos(deq_pos, pos[c]) : pos' = [pos EXCEPT ![c] = q]
  /\ GoTo(c, "deq_probe")
  /\ UNCHANGED <<shared, arg, out, ret, history>>

(* Mutant: compares with pos instead of pos + 1.                           *)
DeqReadyEarly(c) ==
  /\ pc[c] = "deq_probe"
  /\ \E s \in LoadSeq(Slot(pos[c])) : s = pos[c]
  /\ GoTo(c, "deq_cas")
  /\ UNCHANGED <<shared, pos, arg, out, ret, history>>

DeqReady(c) ==
  /\ pc[c] = "deq_probe"
  /\ \E s \in LoadSeq(Slot(pos[c])) : s = pos[c] + 1
  /\ GoTo(c, "deq_cas")
  /\ UNCHANGED <<shared, pos, arg, out, ret, history>>

(* diff < 0: nothing published in the cell; return false.                  *)
DeqEmpty(c) ==
  /\ pc[c] = "deq_probe"
  /\ \E s \in LoadSeq(Slot(pos[c])) : s < pos[c] + 1
  /\ Return(c, FALSE)
  /\ UNCHANGED <<shared, pos, arg, out, history>>

DeqBehind(c) ==
  /\ pc[c] = "deq_probe"
  /\ \E s \in LoadSeq(Slot(pos[c])) : s > pos[c] + 1
  /\ GoTo(c, "deq_reload")
  /\ UNCHANGED <<shared, pos, arg, out, ret, history>>

DeqReload(c) ==
  /\ pc[c] = "deq_reload"
  /\ \E q \in LoadPos(deq_pos, pos[c]) : pos' = [pos EXCEPT ![c] = q]
  /\ GoTo(c, "deq_probe")
  /\ UNCHANGED <<shared, arg, out, ret, history>>

DeqClaim(c) ==
  /\ pc[c] = "deq_cas"
  /\ deq_pos = pos[c]
  /\ deq_pos' = pos[c] + 1
  /\ rcvd' = Append(rcvd, NoItem)
  /\ GoTo(c, "deq_read")
  /\ UNCHANGED <<seq, value, enq_pos, pos, arg, out, ret, sent>>

DeqClaimFails(c) ==
  /\ pc[c] = "deq_cas"
  /\ pos' = [pos EXCEPT ![c] = deq_pos]
  /\ GoTo(c, "deq_probe")
  /\ UNCHANGED <<shared, arg, out, ret, history>>

DeqRead(c) ==
  /\ pc[c] = "deq_read"
  /\ out' = [out EXCEPT ![c] = value[Slot(pos[c])]]
  /\ rcvd' = [rcvd EXCEPT ![pos[c] + 1] = value[Slot(pos[c])]]
  /\ GoTo(c, "deq_release")
  /\ UNCHANGED <<shared, pos, arg, ret, sent>>

(* Mutant: capacity_ is forgotten.                                         *)
DeqReleaseNoLap(c) ==
  /\ pc[c] = "deq_release"
  /\ seq' = [seq EXCEPT ![Slot(pos[c])] = pos[c]]
  /\ Return(c, TRUE)
  /\ UNCHANGED <<value, enq_pos, deq_pos, pos, arg, out, history>>

(* The cell is handed to the producer of ticket pos + capacity_.           *)
DeqRelease(c) ==
  /\ pc[c] = "deq_release"
  /\ seq' = [seq EXCEPT ![Slot(pos[c])] = pos[c] + Capacity]
  /\ Return(c, TRUE)
  /\ UNCHANGED <<value, enq_pos, deq_pos, pos, arg, out, history>>

DequeueStep(c) ==
  \/ DeqReady(c) \/ DeqEmpty(c) \/ DeqBehind(c) \/ DeqReload(c)
  \/ DeqClaim(c) \/ DeqClaimFails(c) \/ DeqRead(c) \/ DeqRelease(c)

-----------------------------------------------------------------------------
(* Threads that call the queue at any time, as many times as the bound     *)
(* allows.                                                                 *)
QNext ==
  \/ \E p \in Producers, v \in Items :
        /\ enq_pos + Cardinality(Claiming) < MaxEnqueues
        /\ TryEnqueue(p, v)
  \/ \E p \in Producers : EnqueueStep(p)
  \/ \E c \in Consumers : TryDequeue(c) \/ DequeueStep(c)

QSpec == QInit /\ [][QNext]_qvars

-----------------------------------------------------------------------------
(* Properties                                                              *)

(* Every variable has its type.                                            *)
QTypeOK ==
  /\ seq \in [Cells -> Nat]
  /\ value \in [Cells -> Items \cup {NoItem}]
  /\ enq_pos \in Nat
  /\ deq_pos \in Nat
  /\ pc \in [Threads -> {"idle"} \cup EnqueueSteps \cup DequeueSteps]
  /\ pos \in [Threads -> Nat]
  /\ arg \in [Producers -> Items \cup {NoItem}]
  /\ out \in [Consumers -> Items \cup {NoItem}]
  /\ ret \in [Threads -> BOOLEAN]
  /\ sent \in Seq(Items)
  /\ rcvd \in Seq(Items \cup {NoItem})

(* p owns enqueue ticket t and has not published it yet; c owns dequeue    *)
(* ticket t and has not released its cell yet.                             *)
Writing(p, t) == pc[p] \in {"enq_write", "enq_publish"} /\ pos[p] = t
Reading(c, t) == pc[c] \in {"deq_read", "deq_release"} /\ pos[c] = t

(* Threads between their successful exchange and their store of seq.       *)
Owners == {t \in Threads : pc[t] \in {"enq_write", "enq_publish",
                                      "deq_read", "deq_release"}}

(* cell->value is a plain field: no two threads may hold the same cell     *)
(* between taking its ticket (mpmc_queue.hpp:56, :79) and storing its      *)
(* sequence number (:67, :90), or its accesses race.                       *)
NoCellRace ==
  \A t, u \in Owners : t # u => Slot(pos[t]) # Slot(pos[u])

(* The queue is bounded (mpmc_queue.hpp:1): no more than capacity_ tickets *)
(* are enqueued and not dequeued, so no enqueue overwrites an item that    *)
(* nobody has taken.                                                       *)
BoundedOccupancy == deq_pos <= enq_pos /\ enq_pos - deq_pos <= Capacity

(* What a dequeue reads for its ticket is the item enqueued under the same *)
(* ticket: nothing lost, duplicated, reordered or read half-written.       *)
FIFODelivery ==
  /\ Len(rcvd) <= Len(sent)
  /\ \A i \in 1 .. Len(rcvd) : rcvd[i] \in {NoItem, sent[i]}

(* A call that returned true has delivered: the tickets without a reading  *)
(* are exactly those of consumers still before line 89.                    *)
EveryTicketDelivered ==
  \A i \in 1 .. Len(rcvd) :
    rcvd[i] = NoItem => \E c \in Consumers : pc[c] = "deq_read" /\ pos[c] = i - 1

(* try_enqueue returns false (:61) only when capacity_ tickets are         *)
(* outstanding or the cell it needs is still being read by the consumer of *)
(* one lap ago, unless its load of the sequence number was stale.          *)
FullMeansFull ==
  [][\A p \in Producers : EnqFull(p) /\ seq[Slot(pos[p])] < pos[p] =>
       \/ enq_pos - deq_pos = Capacity
       \/ \E c \in Consumers : Reading(c, enq_pos - Capacity)]_qvars

(* try_dequeue returns false (:84) only when nothing is enqueued or the    *)
(* next item is still being written, unless its load was stale.            *)
EmptyMeansEmpty ==
  [][\A c \in Consumers : DeqEmpty(c) /\ seq[Slot(pos[c])] < pos[c] + 1 =>
       \/ deq_pos = enq_pos
       \/ \E p \in Producers : Writing(p, deq_pos)]_qvars

(* A cell's sequence number only grows (mpmc_queue.hpp:3): a thread that   *)
(* compared an old one can only fail its exchange.                         *)
SeqGrows == \A c \in Cells : seq'[c] >= seq[c]
SeqAdvances == [][SeqGrows]_qvars

(* The ring buffer implements one atomic bounded FIFO queue: an item enters *)
(* when a producer's exchange succeeds, leaves when a consumer's exchange  *)
(* succeeds, and is handed over at line 89.                                *)
FIFO ==
  INSTANCE BoundedFIFO WITH
    fifo  <- SubSeq(sent, deq_pos + 1, enq_pos),
    taken <- [c \in Consumers |->
                IF pc[c] = "deq_read" THEN sent[pos[c] + 1] ELSE NoItem]

ImplementsFIFO == FIFO!Spec

-----------------------------------------------------------------------------
(* The inductive invariant                                                 *)

(* The histories have one entry per ticket; a thread is inside its own     *)
(* operation, with an argument, at a position not ahead of the counter.    *)
CallShape ==
  /\ Len(sent) = enq_pos
  /\ Len(rcvd) = deq_pos
  /\ \A p \in Producers :
       /\ pc[p] \in {"idle"} \cup EnqueueSteps
       /\ pc[p] # "idle" => arg[p] \in Items
       /\ pos[p] <= enq_pos
  /\ \A c \in Consumers :
       /\ pc[c] \in {"idle"} \cup DequeueSteps
       /\ pos[c] <= deq_pos

(* Each cell serves exactly one ticket t of the lap that starts at         *)
(* deq_pos.  If t is enqueued the cell is being written or holds its item; *)
(* if not, the cell is free for t or still being read one lap behind.      *)
CellShape ==
  \A t \in deq_pos .. deq_pos + Capacity - 1 :
    IF t < enq_pos
      THEN \/ seq[Slot(t)] = t
           \/ seq[Slot(t)] = t + 1 /\ value[Slot(t)] = sent[t + 1]
      ELSE seq[Slot(t)] \in {t, t + 1 - Capacity}

(* A cell of the lap that is neither published nor free has an owner.      *)
CellOwned ==
  \A t \in deq_pos .. deq_pos + Capacity - 1 :
    /\ t < enq_pos /\ seq[Slot(t)] = t => \E p \in Producers : Writing(p, t)
    /\ t >= enq_pos /\ seq[Slot(t)] # t =>
         \E c \in Consumers : Reading(c, t - Capacity)

(* A ticket has one owner.                                                 *)
TicketsOwnedOnce ==
  /\ \A p, q \in Producers :
       Writing(p, pos[p]) /\ Writing(q, pos[p]) => p = q
  /\ \A c, d \in Consumers :
       Reading(c, pos[c]) /\ Reading(d, pos[c]) => c = d

(* While a producer owns a ticket its cell is unpublished.                 *)
WriterShape ==
  \A p \in Producers : Writing(p, pos[p]) =>
    /\ deq_pos <= pos[p] /\ pos[p] < enq_pos
    /\ seq[Slot(pos[p])] = pos[p]
    /\ arg[p] = sent[pos[p] + 1]
    /\ pc[p] = "enq_publish" => value[Slot(pos[p])] = arg[p]

(* While a consumer owns a ticket its cell holds the item, and no producer *)
(* has been given the ticket one lap ahead.                                *)
ReaderShape ==
  \A c \in Consumers : Reading(c, pos[c]) =>
    /\ pos[c] < deq_pos /\ enq_pos <= pos[c] + Capacity
    /\ seq[Slot(pos[c])] = pos[c] + 1
    /\ value[Slot(pos[c])] = sent[pos[c] + 1]

(* The cell of a ticket that was taken has reached it.                     *)
SeqPassed ==
  /\ \A t \in 0 .. enq_pos - 1 : t <= seq[Slot(t)]
  /\ \A t \in 0 .. deq_pos - 1 : t < seq[Slot(t)]

(* What a thread compared before its exchange can only have grown.         *)
ClaimShape ==
  /\ \A p \in Producers : pc[p] = "enq_cas" => pos[p] <= seq[Slot(pos[p])]
  /\ \A c \in Consumers : pc[c] = "deq_cas" => pos[c] < seq[Slot(pos[c])]

QInv ==
  /\ QTypeOK /\ CallShape /\ BoundedOccupancy
  /\ CellShape /\ CellOwned /\ TicketsOwnedOnce
  /\ WriterShape /\ ReaderShape /\ SeqPassed /\ ClaimShape
  /\ FIFODelivery /\ EveryTicketDelivered

=============================================================================
