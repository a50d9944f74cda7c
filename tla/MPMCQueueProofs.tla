--------------------------- MODULE MPMCQueueProofs ---------------------------
(***************************************************************************)
(* The ring buffer for any threads, items and capacity of at least two:    *)
(* its inductive invariant, what follows from it, and the refinement of    *)
(* the atomic bounded queue.                                               *)
(***************************************************************************)
EXTENDS MPMCQueue, TLAPS

(* What the provers need to be told of sequences: the elements, the empty  *)
(* one, appending, replacing an element, a run of elements, equality.      *)
LEMMA InSequence ==
  ASSUME NEW S, NEW q \in Seq(S)
  PROVE  Len(q) \in Nat /\ DOMAIN q = 1 .. Len(q) /\ \A n \in 1 .. Len(q) : q[n] \in S
  OBVIOUS

(* The empty sequence is a sequence over any set, and the only one of      *)
(* length 0.                                                               *)
LEMMA NoneInSequence ==
  ASSUME NEW S
  PROVE  /\ <<>> \in Seq(S) /\ Len(<<>>) = 0
         /\ \A q \in Seq(S) : q # <<>> => Len(q) \in Nat \ {0}
  OBVIOUS

(* Appending changes no earlier element.                                   *)
LEMMA Appending ==
  ASSUME NEW S, NEW q \in Seq(S), NEW x \in S
  PROVE  LET r == Append(q, x)
         IN  /\ r \in Seq(S) /\ r # <<>> /\ Len(r) = Len(q) + 1
             /\ r[Len(q) + 1] = x /\ \A n \in 1 .. Len(q) : r[n] = q[n]
  OBVIOUS

(* Replacing an element changes no other one.                              *)
LEMMA Replacing ==
  ASSUME NEW S, NEW q \in Seq(S), NEW m \in 1 .. Len(q), NEW x \in S
  PROVE  LET r == [q EXCEPT ![m] = x]
         IN  /\ r \in Seq(S) /\ Len(r) = Len(q)
             /\ \A n \in 1 .. Len(q) : r[n] = IF n = m THEN x ELSE q[n]
  OBVIOUS

(* The elements m to n of a sequence.                                      *)
LEMMA RunOf ==
  ASSUME NEW S, NEW q, NEW m \in Int, NEW n \in Int, \A j \in m .. n : q[j] \in S
  PROVE  LET r == SubSeq(q, m, n)
         IN  /\ r \in Seq(S) /\ Len(r) = IF m <= n THEN n - m + 1 ELSE 0
             /\ \A j \in 1 .. n - m + 1 : r[j] = q[m + j - 1]
  OBVIOUS

(* Two sequences with the same elements are the same.                      *)
LEMMA SameElements ==
  ASSUME NEW S, NEW q \in Seq(S), NEW r \in Seq(S),
         Len(q) = Len(r), \A n \in 1 .. Len(q) : q[n] = r[n]
  PROVE  q = r
  OBVIOUS

(* Division with remainder.                                                *)
LEMMA DivMod ==
  ASSUME NEW p \in Nat
  PROVE  /\ p \div Capacity \in Nat
         /\ Slot(p) \in Cells
         /\ p = Capacity * (p \div Capacity) + Slot(p)
BY QueueAssumption DEF Slot, Cells

(* A multiple of Capacity closer to zero than Capacity is zero.            *)
LEMMA SmallMultiple ==
  ASSUME NEW k \in Int, -Capacity < Capacity * k, Capacity * k < Capacity
  PROVE  k = 0
<1>1. Capacity \in Nat /\ Capacity > 0
  BY QueueAssumption
<1>2. CASE k >= 1
  BY <1>1, <1>2
<1>3. CASE k <= -1
  BY <1>1, <1>3
<1> QED
  BY <1>2, <1>3

(* A position has a cell.                                                  *)
LEMMA SlotIsCell ==
  ASSUME NEW p \in Nat
  PROVE  Slot(p) \in Cells
BY DivMod

(* One lap later the cell is the same.                                     *)
LEMMA SlotPeriodic ==
  ASSUME NEW p \in Nat
  PROVE  Slot(p + Capacity) = Slot(p)
<1> DEFINE i == p \div Capacity
           j == (p + Capacity) \div Capacity
<1>1. Capacity \in Nat /\ p + Capacity \in Nat
  BY QueueAssumption
<1>2. /\ i \in Nat /\ Slot(p) \in Cells
      /\ p = Capacity * i + Slot(p)
  BY DivMod
<1>3. /\ j \in Nat /\ Slot(p + Capacity) \in Cells
      /\ p + Capacity = Capacity * j + Slot(p + Capacity)
  BY <1>1, DivMod
<1> HIDE DEF i, j
<1>4. Capacity * (j - i - 1) = Slot(p) - Slot(p + Capacity)
  BY <1>1, <1>2, <1>3 DEF Cells
<1>5. j - i - 1 = 0
  BY <1>1, <1>2, <1>3, <1>4, SmallMultiple DEF Cells
<1> QED
  BY <1>1, <1>2, <1>3, <1>4, <1>5 DEF Cells

(* Two positions less than a lap apart have different cells.               *)
LEMMA SlotInjective ==
  ASSUME NEW p \in Nat, NEW q \in Nat, p < q, q < p + Capacity
  PROVE  Slot(p) # Slot(q)
<1> DEFINE i == p \div Capacity
           j == q \div Capacity
<1>1. Capacity \in Nat
  BY QueueAssumption
<1>2. /\ i \in Nat /\ Slot(p) \in Cells
      /\ p = Capacity * i + Slot(p)
  BY DivMod
<1>3. /\ j \in Nat /\ Slot(q) \in Cells
      /\ q = Capacity * j + Slot(q)
  BY DivMod
<1> HIDE DEF i, j
<1> SUFFICES ASSUME Slot(p) = Slot(q)
             PROVE  FALSE
  OBVIOUS
<1>4. Capacity * (j - i) = q - p
  BY <1>1, <1>2, <1>3 DEF Cells
<1>5. j - i = 0
  BY <1>1, <1>2, <1>3, <1>4, SmallMultiple
<1> QED
  BY <1>1, <1>2, <1>3, <1>4, <1>5
(* Two tickets of one lap have different cells.                            *)
LEMMA LapCells ==
  ASSUME NEW d \in Nat, NEW t \in d .. d + Capacity - 1,
         NEW u \in d .. d + Capacity - 1, Slot(t) = Slot(u)
  PROVE  t = u
<1>1. Capacity \in Nat
  BY QueueAssumption
<1>2. ~(t < u) /\ ~(u < t)
  BY <1>1, SlotInjective
<1> QED
  BY <1>1, <1>2

(* A step of a producer that leaves the queue alone and does not make it   *)
(* an owner: a call, a return, a load, a comparison or a failed exchange.  *)
LEMMA ProducerPrivateStep ==
  ASSUME QInv, NEW p \in Producers,
         NEW label \in {"idle", "enq_probe", "enq_cas", "enq_reload"},
         NEW q \in Nat, NEW v \in Items \cup {NoItem},
         pc[p] \notin {"enq_write", "enq_publish"},
         pc' = [pc EXCEPT ![p] = label],
         pos' = [pos EXCEPT ![p] = q],
         arg' = [arg EXCEPT ![p] = v],
         ret' \in [Threads -> BOOLEAN],
         q <= enq_pos,
         label # "idle" => v \in Items,
         label = "enq_cas" => q <= seq[Slot(q)],
         UNCHANGED <<shared, out, history>>
  PROVE  QInv'
<1> USE QueueAssumption DEF Threads, shared, history
<1>1. QTypeOK'
  BY Zenon DEF QInv, QTypeOK, EnqueueSteps
<1>2. CallShape'
  BY DEF QInv, QTypeOK, CallShape, EnqueueSteps
<1>3. BoundedOccupancy' /\ CellShape'
  BY DEF QInv, BoundedOccupancy, CellShape, Cells
<1>4. TicketsOwnedOnce'
  BY DEF QInv, QTypeOK, TicketsOwnedOnce, Writing, Reading
<1>5. WriterShape'
  BY Zenon DEF QInv, QTypeOK, WriterShape, Writing
<1>6. ReaderShape'
  BY Zenon DEF QInv, QTypeOK, ReaderShape, Reading
<1>7. SeqPassed' /\ ClaimShape'
  BY Zenon DEF QInv, QTypeOK, SeqPassed, ClaimShape
<1>8. FIFODelivery' /\ EveryTicketDelivered'
  BY ZenonT(60) DEF QInv, QTypeOK, FIFODelivery, EveryTicketDelivered
<1>9. CellOwned'
  BY DEF QInv, QTypeOK, CellOwned, Writing, Reading
<1> QED
  BY <1>1, <1>2, <1>3, <1>4, <1>5, <1>6, <1>7, <1>8, <1>9 DEF QInv

(* The same for a consumer.                                                *)
LEMMA ConsumerPrivateStep ==
  ASSUME QInv, NEW c \in Consumers,
         NEW label \in {"idle", "deq_probe", "deq_cas", "deq_reload"},
         NEW q \in Nat,
         pc[c] \notin {"deq_read", "deq_release"},
         pc' = [pc EXCEPT ![c] = label],
         pos' = [pos EXCEPT ![c] = q],
         ret' \in [Threads -> BOOLEAN],
         q <= deq_pos,
         label = "deq_cas" => q < seq[Slot(q)],
         UNCHANGED <<shared, arg, out, history>>
  PROVE  QInv'
<1> USE QueueAssumption DEF Threads, shared, history
<1>1. QTypeOK'
  BY Zenon DEF QInv, QTypeOK, DequeueSteps
<1>2. CallShape'
  BY DEF QInv, QTypeOK, CallShape, DequeueSteps
<1>3. BoundedOccupancy' /\ CellShape'
  BY DEF QInv, BoundedOccupancy, CellShape, Cells
<1>4. TicketsOwnedOnce'
  BY Zenon DEF QInv, QTypeOK, TicketsOwnedOnce, Writing, Reading
<1>5. WriterShape'
  BY Zenon DEF QInv, QTypeOK, WriterShape, Writing
<1>6. ReaderShape'
  BY Zenon DEF QInv, QTypeOK, ReaderShape, Reading
<1>7. SeqPassed' /\ ClaimShape'
  BY DEF QInv, QTypeOK, SeqPassed, ClaimShape
<1>8. FIFODelivery' /\ EveryTicketDelivered'
  BY Zenon DEF QInv, QTypeOK, FIFODelivery, EveryTicketDelivered
<1>9. CellOwned'
  <2>1. \A d \in Consumers, t \in Int : Reading(d, t) => Reading(d, t)'
    BY DEF QInv, QTypeOK, Reading
  <2>2. \A p \in Producers, t \in Int : Writing(p, t) => Writing(p, t)'
    BY DEF QInv, QTypeOK, Writing
  <2> QED
    BY <2>1, <2>2 DEF QInv, QTypeOK, CellOwned
<1> QED
  BY <1>1, <1>2, <1>3, <1>4, <1>5, <1>6, <1>7, <1>8, <1>9 DEF QInv

(* A producer takes ticket enq_pos: the queue was not full, and the cell   *)
(* was free.  With one cell the two readings of its sequence number        *)
(* coincide and neither fact holds, hence Capacity >= 2.                   *)
LEMMA EnqClaimInv ==
  ASSUME Capacity >= 2, QInv, NEW p \in Producers, EnqClaim(p)
  PROVE  QInv'
<1> USE QueueAssumption DEF Threads
<1>a. /\ QTypeOK /\ CallShape /\ BoundedOccupancy /\ CellShape /\ CellOwned
      /\ TicketsOwnedOnce /\ WriterShape /\ ReaderShape /\ SeqPassed
      /\ ClaimShape /\ FIFODelivery /\ EveryTicketDelivered
  BY Zenon DEF QInv
<1>b. /\ enq_pos \in Nat /\ deq_pos \in Nat /\ arg[p] \in Items
      /\ sent \in Seq(Items) /\ Len(sent) = enq_pos
      /\ deq_pos <= enq_pos /\ enq_pos <= deq_pos + Capacity
      /\ pos[p] = enq_pos /\ enq_pos' = enq_pos + 1
  BY <1>a DEF QTypeOK, CallShape, BoundedOccupancy, EnqClaim
<1>1. enq_pos < deq_pos + Capacity /\ seq[Slot(enq_pos)] = enq_pos
  <2>1. enq_pos <= seq[Slot(enq_pos)]
    BY Zenon, <1>a, <1>b DEF ClaimShape, EnqClaim
  <2>2. CASE enq_pos = deq_pos + Capacity
    <3>1. Slot(enq_pos) = Slot(deq_pos)
      BY <1>b, <2>2, SlotPeriodic
    <3>2. seq[Slot(deq_pos)] \in {deq_pos, deq_pos + 1}
      BY <1>a, <1>b, <2>2 DEF CellShape
    <3> QED
      BY <1>b, <2>1, <2>2, <3>1, <3>2
  <2>3. CASE enq_pos < deq_pos + Capacity
    <3>1. seq[Slot(enq_pos)] \in {enq_pos, enq_pos + 1 - Capacity}
      BY <1>a, <1>b, <2>3 DEF CellShape
    <3> QED
      BY <1>b, <2>1, <2>3, <3>1
  <2> QED
    BY <1>b, <2>2, <2>3
<1>2. /\ sent' \in Seq(Items) /\ Len(sent') = enq_pos + 1
      /\ sent'[enq_pos + 1] = arg[p]
      /\ \A i \in 1 .. enq_pos : sent'[i] = sent[i]
  BY <1>b, Appending DEF EnqClaim
<1>3. QTypeOK'
  BY <1>a, <1>2 DEF QTypeOK, EnqClaim, GoTo, EnqueueSteps
<1>4. CallShape'
  BY <1>a, <1>b, <1>2 DEF QTypeOK, CallShape, EnqClaim, GoTo, EnqueueSteps
<1>5. BoundedOccupancy'
  BY <1>b, <1>1 DEF BoundedOccupancy, EnqClaim
<1>6. CellShape'
  BY SMTT(30), <1>a, <1>b, <1>1, <1>2 DEF CellShape, EnqClaim
<1>7. TicketsOwnedOnce'
  BY <1>a, <1>b DEF QTypeOK, TicketsOwnedOnce, WriterShape, Writing, Reading,
                    EnqClaim, GoTo
<1>8. WriterShape'
  BY <1>a, <1>b, <1>1, <1>2 DEF QTypeOK, WriterShape, Writing, EnqClaim, GoTo
<1>9. ReaderShape'
  <2> SUFFICES ASSUME NEW c \in Consumers, Reading(c, pos[c])
               PROVE  /\ enq_pos + 1 <= pos[c] + Capacity
                      /\ sent'[pos[c] + 1] = sent[pos[c] + 1]
    BY Zenon, <1>a, <1>b DEF QTypeOK, ReaderShape, Reading, EnqClaim, GoTo
  <2>1. /\ pos[c] \in Nat /\ pos[c] < deq_pos /\ enq_pos <= pos[c] + Capacity
        /\ seq[Slot(pos[c])] = pos[c] + 1
    BY Zenon, <1>a DEF QTypeOK, ReaderShape
  <2>2. pos[c] + Capacity # enq_pos
    <3>1. Slot(pos[c] + Capacity) = Slot(pos[c])
      BY <2>1, SlotPeriodic
    <3> QED
      BY <1>b, <1>1, <2>1, <3>1
  <2> QED
    BY SMTT(30), <1>b, <1>2, <2>1, <2>2
<1>10. SeqPassed' /\ ClaimShape'
  BY <1>a, <1>b, <1>1 DEF QTypeOK, SeqPassed, ClaimShape, EnqClaim, GoTo
<1>11. FIFODelivery'
  BY <1>a, <1>b, <1>2 DEF CallShape, FIFODelivery, EnqClaim
<1>12. EveryTicketDelivered'
  BY Zenon, <1>a DEF QTypeOK, EveryTicketDelivered, EnqClaim, GoTo
<1>13. CellOwned'
  <2> SUFFICES ASSUME NEW t \in deq_pos .. deq_pos + Capacity - 1
               PROVE  /\ t <= enq_pos /\ seq[Slot(t)] = t =>
                           \E q \in Producers : Writing(q, t)'
                      /\ t > enq_pos /\ seq[Slot(t)] # t =>
                           \E c \in Consumers : Reading(c, t - Capacity)'
    BY SMTT(60), <1>b DEF CellOwned, EnqClaim
  <2>1. t = enq_pos => Writing(p, t)'
    BY <1>a, <1>b DEF QTypeOK, Writing, EnqClaim, GoTo
  <2>2. \A q \in Producers : Writing(q, t) => Writing(q, t)'
    BY <1>a DEF QTypeOK, Writing, EnqClaim, GoTo
  <2>3. \A c \in Consumers : Reading(c, t - Capacity) => Reading(c, t - Capacity)'
    BY <1>a DEF QTypeOK, Reading, EnqClaim, GoTo
  <2> QED
    BY <1>a, <1>b, <2>1, <2>2, <2>3 DEF CellOwned
<1> QED
  BY <1>3, <1>4, <1>5, <1>6, <1>7, <1>8, <1>9, <1>10, <1>11, <1>12, <1>13 DEF QInv

(* The cell of a ticket being read serves the ticket one lap ahead, which  *)
(* is not enqueued; no other ticket of the lap, and no other owner, uses   *)
(* the cell.                                                               *)
LEMMA ReaderCellAlone ==
  ASSUME QInv, NEW c \in Consumers, Reading(c, pos[c])
  PROVE  /\ pos[c] + Capacity \in deq_pos .. deq_pos + Capacity - 1
         /\ pos[c] + Capacity >= enq_pos
         /\ Slot(pos[c] + Capacity) = Slot(pos[c])
         /\ \A t \in deq_pos .. deq_pos + Capacity - 1 :
              t # pos[c] + Capacity => Slot(t) # Slot(pos[c])
         /\ \A d \in Consumers :
              d # c /\ Reading(d, pos[d]) => Slot(pos[d]) # Slot(pos[c])
<1> USE QueueAssumption DEF Threads
<1>1. /\ enq_pos \in Nat /\ deq_pos \in Nat /\ deq_pos <= enq_pos
      /\ \A d \in Consumers : pos[d] \in Nat
      /\ \A d \in Consumers : Reading(d, pos[d]) =>
           pos[d] < deq_pos /\ enq_pos <= pos[d] + Capacity
      /\ \A d \in Consumers : d # c /\ Reading(d, pos[d]) => pos[d] # pos[c]
  BY Zenon DEF QInv, QTypeOK, BoundedOccupancy, ReaderShape, TicketsOwnedOnce
<1>2. \A d \in Consumers : Reading(d, pos[d]) =>
        /\ pos[d] + Capacity \in deq_pos .. deq_pos + Capacity - 1
        /\ Slot(pos[d] + Capacity) = Slot(pos[d])
  BY <1>1, SlotPeriodic
<1>3. \A t \in deq_pos .. deq_pos + Capacity - 1 :
        t # pos[c] + Capacity => Slot(t) # Slot(pos[c])
  BY Zenon, <1>1, <1>2, LapCells
<1>4. \A d \in Consumers :
        d # c /\ Reading(d, pos[d]) => Slot(pos[d]) # Slot(pos[c])
  BY <1>1, <1>2, <1>3
<1> QED
  BY <1>1, <1>2, <1>3, <1>4

(* The cell of a ticket being written is used by no other ticket of the    *)
(* lap and by no other owner.                                              *)
LEMMA WriterCellAlone ==
  ASSUME QInv, NEW p \in Producers, Writing(p, pos[p])
  PROVE  /\ pos[p] \in deq_pos .. deq_pos + Capacity - 1
         /\ pos[p] < enq_pos
         /\ \A t \in deq_pos .. deq_pos + Capacity - 1 :
              t # pos[p] => Slot(t) # Slot(pos[p])
         /\ \A q \in Producers :
              q # p /\ Writing(q, pos[q]) => Slot(pos[q]) # Slot(pos[p])
         /\ \A c \in Consumers :
              Reading(c, pos[c]) => Slot(pos[c]) # Slot(pos[p])
<1> USE QueueAssumption DEF Threads
<1>1. /\ enq_pos \in Nat /\ deq_pos \in Nat /\ enq_pos <= deq_pos + Capacity
      /\ \A q \in Producers : pos[q] \in Nat
      /\ \A q \in Producers : Writing(q, pos[q]) =>
           deq_pos <= pos[q] /\ pos[q] < enq_pos
      /\ \A q \in Producers : q # p /\ Writing(q, pos[q]) => pos[q] # pos[p]
  BY DEF QInv, QTypeOK, BoundedOccupancy, WriterShape, TicketsOwnedOnce
<1>2. \A q \in Producers : Writing(q, pos[q]) =>
        pos[q] \in deq_pos .. deq_pos + Capacity - 1
  BY <1>1
<1>3. \A t \in deq_pos .. deq_pos + Capacity - 1 :
        t # pos[p] => Slot(t) # Slot(pos[p])
  BY <1>1, <1>2, LapCells
<1>4. \A q \in Producers :
        q # p /\ Writing(q, pos[q]) => Slot(pos[q]) # Slot(pos[p])
  BY <1>1, <1>2, <1>3
<1>5. \A c \in Consumers : Reading(c, pos[c]) => Slot(pos[c]) # Slot(pos[p])
  BY <1>1, <1>2, ReaderCellAlone
<1> QED
  BY Zenon, <1>1, <1>2, <1>3, <1>4, <1>5

(* The plain store of the value touches no cell that anyone else relies on. *)
LEMMA EnqWriteInv ==
  ASSUME QInv, NEW p \in Producers, EnqWrite(p)
  PROVE  QInv'
<1> USE QueueAssumption DEF Threads
<1>a. /\ QTypeOK /\ CallShape /\ BoundedOccupancy /\ CellShape /\ CellOwned
      /\ TicketsOwnedOnce /\ WriterShape /\ ReaderShape /\ SeqPassed
      /\ ClaimShape /\ FIFODelivery /\ EveryTicketDelivered
  BY Zenon DEF QInv
<1>b. /\ Writing(p, pos[p]) /\ pos[p] \in Nat /\ Slot(pos[p]) \in Cells
      /\ enq_pos \in Nat /\ deq_pos \in Nat /\ seq[Slot(pos[p])] = pos[p]
  BY Zenon, <1>a, SlotIsCell DEF QTypeOK, WriterShape, Writing, EnqWrite
<1>c. /\ value' \in [Cells -> Items \cup {NoItem}]
      /\ value'[Slot(pos[p])] = arg[p]
      /\ \A k \in Cells : k # Slot(pos[p]) => value'[k] = value[k]
  BY Zenon, <1>a, <1>b DEF QTypeOK, EnqWrite
<1>d. /\ pc' = [pc EXCEPT ![p] = "enq_publish"] /\ pc[p] = "enq_write"
      /\ UNCHANGED <<seq, enq_pos, deq_pos, pos, arg, out, ret, sent, rcvd>>
  BY Zenon DEF EnqWrite, GoTo, history
<1>1. QTypeOK'
  BY Zenon, <1>a, <1>c, <1>d DEF QTypeOK, EnqueueSteps
<1>2. CallShape' /\ BoundedOccupancy'
  BY Zenon, <1>a, <1>d DEF QTypeOK, CallShape, BoundedOccupancy, EnqueueSteps
<1>3. CellShape'
  <2>1. \A t \in deq_pos .. deq_pos + Capacity - 1 :
          t # pos[p] => value'[Slot(t)] = value[Slot(t)]
    BY <1>b, <1>c, WriterCellAlone, SlotIsCell
  <2> QED
    BY SMTT(60), <1>a, <1>b, <1>d, <2>1 DEF CellShape
<1>4. TicketsOwnedOnce'
  BY SMTT(60), <1>a, <1>d DEF QTypeOK, TicketsOwnedOnce, Writing, Reading
<1>5. WriterShape'
  <2>1. \A q \in Producers : q # p /\ Writing(q, pos[q]) =>
          value'[Slot(pos[q])] = value[Slot(pos[q])]
    BY Zenon, <1>a, <1>b, <1>c, WriterCellAlone, SlotIsCell DEF QTypeOK
  <2> QED
    BY ZenonT(60), <1>a, <1>b, <1>c, <1>d, <2>1 DEF QTypeOK, WriterShape, Writing
<1>6. ReaderShape'
  <2>1. \A c \in Consumers : Reading(c, pos[c]) =>
          value'[Slot(pos[c])] = value[Slot(pos[c])]
    BY SMTT(60), <1>a, <1>b, <1>c, WriterCellAlone, SlotIsCell DEF QTypeOK
  <2> QED
    BY Zenon, <1>a, <1>d, <2>1 DEF QTypeOK, ReaderShape, Reading
<1>7. SeqPassed' /\ ClaimShape' /\ FIFODelivery' /\ EveryTicketDelivered'
  BY Zenon, <1>a, <1>d DEF QTypeOK, SeqPassed, ClaimShape, FIFODelivery, EveryTicketDelivered
<1>8. CellOwned'
  BY <1>a, <1>d DEF QTypeOK, CellOwned, Writing, Reading
<1> QED
  BY <1>1, <1>2, <1>3, <1>4, <1>5, <1>6, <1>7, <1>8 DEF QInv

(* Publishing: the cell of ticket pos now holds its item.                  *)
LEMMA EnqPublishInv ==
  ASSUME QInv, NEW p \in Producers, EnqPublish(p)
  PROVE  QInv'
<1> USE QueueAssumption DEF Threads
<1>a. /\ QTypeOK /\ CallShape /\ BoundedOccupancy /\ CellShape /\ CellOwned
      /\ TicketsOwnedOnce /\ WriterShape /\ ReaderShape /\ SeqPassed
      /\ ClaimShape /\ FIFODelivery /\ EveryTicketDelivered
  BY Zenon DEF QInv
<1>b. /\ Writing(p, pos[p]) /\ pos[p] \in Nat /\ Slot(pos[p]) \in Cells
      /\ enq_pos \in Nat /\ deq_pos \in Nat /\ seq[Slot(pos[p])] = pos[p]
      /\ value[Slot(pos[p])] = sent[pos[p] + 1]
  BY Zenon, <1>a, SlotIsCell DEF QTypeOK, WriterShape, Writing, EnqPublish
<1>c. /\ seq' \in [Cells -> Nat]
      /\ seq'[Slot(pos[p])] = pos[p] + 1
      /\ \A k \in Cells : k # Slot(pos[p]) => seq'[k] = seq[k]
  BY <1>a, <1>b DEF QTypeOK, EnqPublish
<1>d. /\ pc' = [pc EXCEPT ![p] = "idle"] /\ ret' \in [Threads -> BOOLEAN]
      /\ UNCHANGED <<value, enq_pos, deq_pos, pos, arg, out, sent, rcvd>>
  BY Zenon, <1>a DEF QTypeOK, EnqPublish, GoTo, Return, history
<1>1. QTypeOK'
  BY Zenon, <1>a, <1>c, <1>d DEF QTypeOK
<1>2. CallShape' /\ BoundedOccupancy'
  BY Zenon, <1>a, <1>d DEF QTypeOK, CallShape, BoundedOccupancy
<1>3. \A t \in deq_pos .. deq_pos + Capacity - 1 :
        t # pos[p] => seq'[Slot(t)] = seq[Slot(t)]
  BY <1>b, <1>c, WriterCellAlone, SlotIsCell
<1>4. CellShape'
  BY SMTT(60), <1>a, <1>b, <1>c, <1>d, <1>3, WriterCellAlone DEF CellShape
<1>5. CellOwned'
  <2>1. \A q \in Producers, t \in Int : t # pos[p] /\ Writing(q, t) => Writing(q, t)'
    BY Zenon, <1>a, <1>d DEF QTypeOK, Writing
  <2>2. \A c \in Consumers, t \in Int : Reading(c, t) => Reading(c, t)'
    BY Zenon, <1>a, <1>d DEF QTypeOK, Reading
  <2> QED
    BY SMTT(30), <1>a, <1>b, <1>c, <1>d, <1>3, <2>1, <2>2, WriterCellAlone DEF CellOwned
<1>6. TicketsOwnedOnce'
  BY SMTT(60), <1>a, <1>d DEF QTypeOK, TicketsOwnedOnce, Writing, Reading
<1>7. WriterShape'
  <2>1. \A q \in Producers : q # p /\ Writing(q, pos[q]) =>
          seq'[Slot(pos[q])] = seq[Slot(pos[q])]
    BY SMTT(60), <1>a, <1>b, <1>c, WriterCellAlone, SlotIsCell DEF QTypeOK
  <2> QED
    BY SMTT(60), <1>a, <1>d, <2>1 DEF QTypeOK, WriterShape, Writing
<1>8. ReaderShape'
  <2>1. \A c \in Consumers : Reading(c, pos[c]) =>
          seq'[Slot(pos[c])] = seq[Slot(pos[c])]
    BY Zenon, <1>a, <1>b, <1>c, WriterCellAlone, SlotIsCell DEF QTypeOK
  <2> QED
    BY SMTT(60), <1>a, <1>d, <2>1 DEF QTypeOK, ReaderShape, Reading
<1>9. SeqPassed' /\ ClaimShape'
  <2>1. \A k \in Cells : seq[k] \in Nat /\ seq'[k] \in Nat /\ seq[k] <= seq'[k]
    <3>1. seq \in [Cells -> Nat]
      BY Zenon, <1>a DEF QTypeOK
    <3>2. TAKE k \in Cells
    <3>3. seq[k] \in Nat /\ seq'[k] \in Nat
      BY <1>c, <3>1
    <3> QED
      BY <1>b, <1>c, <3>3
  <2>2. \A t \in Threads : pos[t] \in Nat /\ Slot(pos[t]) \in Cells
    BY SMTT(60), <1>a, SlotIsCell DEF QTypeOK
  <2>3. SeqPassed'
    <3>1. \A t \in Nat : Slot(t) \in Cells
      BY Zenon, SlotIsCell
    <3> QED
      BY <1>a, <1>b, <1>d, <2>1, <3>1 DEF SeqPassed
  <2> QED
    BY SMTT(60), <1>a, <1>d, <2>1, <2>2, <2>3 DEF QTypeOK, ClaimShape
<1>10. FIFODelivery' /\ EveryTicketDelivered'
  BY <1>a, <1>d DEF QTypeOK, FIFODelivery, EveryTicketDelivered
<1> QED
  BY SMTT(60), <1>1, <1>2, <1>4, <1>5, <1>6, <1>7, <1>8, <1>9, <1>10 DEF QInv

(* A consumer takes ticket deq_pos: it is enqueued and its cell is         *)
(* published, so its producer is gone.                                     *)
LEMMA DeqClaimInv ==
  ASSUME Capacity >= 2, QInv, NEW c \in Consumers, DeqClaim(c)
  PROVE  QInv'
<1> USE QueueAssumption DEF Threads
<1>a. /\ QTypeOK /\ CallShape /\ BoundedOccupancy /\ CellShape /\ CellOwned
      /\ TicketsOwnedOnce /\ WriterShape /\ ReaderShape /\ SeqPassed
      /\ ClaimShape /\ FIFODelivery /\ EveryTicketDelivered
  BY Zenon DEF QInv
<1>b. /\ enq_pos \in Nat /\ deq_pos \in Nat /\ enq_pos <= deq_pos + Capacity
      /\ pos[c] = deq_pos /\ deq_pos' = deq_pos + 1 /\ deq_pos <= enq_pos
      /\ Len(sent) = enq_pos /\ Len(rcvd) = deq_pos
      /\ sent \in Seq(Items) /\ rcvd \in Seq(Items \cup {NoItem})
  BY <1>a DEF QTypeOK, CallShape, BoundedOccupancy, DeqClaim
<1>c. /\ pc' = [pc EXCEPT ![c] = "deq_read"] /\ pc[c] = "deq_cas"
      /\ UNCHANGED <<seq, value, enq_pos, pos, arg, out, ret, sent>>
  BY Zenon DEF DeqClaim, GoTo
<1>1. /\ deq_pos < enq_pos /\ seq[Slot(deq_pos)] = deq_pos + 1
      /\ value[Slot(deq_pos)] = sent[deq_pos + 1]
  <2>1. deq_pos < seq[Slot(deq_pos)]
    BY Zenon, <1>a, <1>b, <1>c DEF ClaimShape
  <2>2. deq_pos \in deq_pos .. deq_pos + Capacity - 1
    BY <1>b
  <2> QED
    BY <1>a, <1>b, <2>1, <2>2 DEF CellShape
<1>2. /\ rcvd' \in Seq(Items \cup {NoItem}) /\ Len(rcvd') = deq_pos + 1
      /\ rcvd'[deq_pos + 1] = NoItem
      /\ \A i \in 1 .. deq_pos : rcvd'[i] = rcvd[i]
  BY SMTT(60), <1>b, Appending DEF DeqClaim
<1>3. QTypeOK'
  BY SMTT(60), <1>a, <1>b, <1>c, <1>2 DEF QTypeOK, DequeueSteps
<1>4. CallShape' /\ BoundedOccupancy'
  BY <1>a, <1>b, <1>c, <1>1, <1>2
  DEF QTypeOK, CallShape, BoundedOccupancy, DequeueSteps
<1>5. Slot(deq_pos + Capacity) = Slot(deq_pos)
  BY SMTT(60), <1>b, SlotPeriodic
<1>6. CellShape'
  <2> SUFFICES ASSUME NEW t \in deq_pos + 1 .. deq_pos + Capacity
               PROVE  IF t < enq_pos
                        THEN \/ seq[Slot(t)] = t
                             \/ seq[Slot(t)] = t + 1 /\ value[Slot(t)] = sent[t + 1]
                        ELSE seq[Slot(t)] \in {t, t + 1 - Capacity}
    BY <1>b, <1>c DEF CellShape
  <2>1. CASE t < deq_pos + Capacity
    BY <1>a, <1>b, <2>1 DEF CellShape
  <2>2. CASE t = deq_pos + Capacity
    BY <1>b, <1>1, <1>5, <2>2
  <2> QED
    BY SMTT(60), <1>b, <2>1, <2>2
<1>7. CellOwned'
  <2> SUFFICES ASSUME NEW t \in deq_pos + 1 .. deq_pos + Capacity
               PROVE  /\ t < enq_pos /\ seq[Slot(t)] = t =>
                           \E p \in Producers : Writing(p, t)'
                      /\ t >= enq_pos /\ seq[Slot(t)] # t =>
                           \E d \in Consumers : Reading(d, t - Capacity)'
    BY <1>b, <1>c DEF CellOwned
  <2>1. t = deq_pos + Capacity => Reading(c, t - Capacity)'
    BY <1>a, <1>b, <1>c DEF QTypeOK, Reading
  <2>2. \A p \in Producers : Writing(p, t) => Writing(p, t)'
    BY Zenon, <1>a, <1>c DEF QTypeOK, Writing
  <2>3. \A d \in Consumers : Reading(d, t - Capacity) => Reading(d, t - Capacity)'
    BY SMTT(60), <1>a, <1>c DEF QTypeOK, Reading
  <2> QED
    BY <1>a, <1>b, <2>1, <2>2, <2>3 DEF CellOwned
<1>8. TicketsOwnedOnce'
  BY SMTT(60), <1>a, <1>b, <1>c DEF QTypeOK, TicketsOwnedOnce, ReaderShape, Writing, Reading
<1>9. WriterShape'
  BY SMTT(60), <1>a, <1>b, <1>c, <1>1 DEF QTypeOK, WriterShape, Writing
<1>10. ReaderShape'
  BY SMTT(60), <1>a, <1>b, <1>c, <1>1 DEF QTypeOK, ReaderShape, Reading
<1>11. SeqPassed' /\ ClaimShape'
  BY <1>a, <1>b, <1>c, <1>1 DEF QTypeOK, SeqPassed, ClaimShape
<1>12. FIFODelivery'
  BY SMTT(60), <1>a, <1>b, <1>c, <1>1, <1>2 DEF FIFODelivery
<1>13. EveryTicketDelivered'
  BY <1>a, <1>b, <1>c, <1>2 DEF QTypeOK, EveryTicketDelivered
<1> QED
  BY <1>3, <1>4, <1>6, <1>7, <1>8, <1>9, <1>10, <1>11, <1>12, <1>13 DEF QInv

(* The plain load of the value returns the item of the ticket.             *)
LEMMA DeqReadInv ==
  ASSUME QInv, NEW c \in Consumers, DeqRead(c)
  PROVE  QInv'
<1> USE QueueAssumption DEF Threads
<1>a. /\ QTypeOK /\ CallShape /\ BoundedOccupancy /\ CellShape /\ CellOwned
      /\ TicketsOwnedOnce /\ WriterShape /\ ReaderShape /\ SeqPassed
      /\ ClaimShape /\ FIFODelivery /\ EveryTicketDelivered
  BY Zenon DEF QInv
<1>b. /\ Reading(c, pos[c]) /\ pos[c] \in Nat /\ pos[c] + 1 \in 1 .. Len(rcvd)
      /\ rcvd \in Seq(Items \cup {NoItem}) /\ sent \in Seq(Items)
      /\ Len(rcvd) <= Len(sent)
      /\ value[Slot(pos[c])] = sent[pos[c] + 1]
      /\ sent[pos[c] + 1] \in Items
  <2>1. Reading(c, pos[c])
    BY SMTT(60) DEF Reading, DeqRead
  <2>2. /\ pos[c] \in Nat /\ pos[c] < deq_pos /\ Len(rcvd) = deq_pos
        /\ rcvd \in Seq(Items \cup {NoItem}) /\ sent \in Seq(Items)
        /\ Len(rcvd) <= Len(sent)
        /\ value[Slot(pos[c])] = sent[pos[c] + 1]
    BY SMTT(60), <1>a, <2>1 DEF QTypeOK, CallShape, ReaderShape, FIFODelivery
  <2>3. pos[c] + 1 \in 1 .. Len(rcvd) /\ pos[c] + 1 \in 1 .. Len(sent)
    BY <2>2
  <2> QED
    BY Zenon, <2>1, <2>2, <2>3, InSequence
<1>c. /\ pc' = [pc EXCEPT ![c] = "deq_release"] /\ pc[c] = "deq_read"
      /\ out' = [out EXCEPT ![c] = sent[pos[c] + 1]]
      /\ rcvd' = [rcvd EXCEPT ![pos[c] + 1] = sent[pos[c] + 1]]
      /\ UNCHANGED <<seq, value, enq_pos, deq_pos, pos, arg, ret, sent>>
  BY SMTT(60), <1>b DEF DeqRead, GoTo, shared
<1>1. /\ rcvd' \in Seq(Items \cup {NoItem}) /\ Len(rcvd') = Len(rcvd)
      /\ \A i \in 1 .. Len(rcvd) :
           rcvd'[i] = IF i = pos[c] + 1 THEN sent[pos[c] + 1] ELSE rcvd[i]
  BY SMTT(60), <1>b, <1>c, Replacing
<1>2. QTypeOK'
  BY SMTT(60), <1>a, <1>b, <1>c, <1>1 DEF QTypeOK, DequeueSteps
<1>3. CallShape' /\ BoundedOccupancy'
  BY SMTT(60), <1>a, <1>c, <1>1 DEF QTypeOK, CallShape, BoundedOccupancy, DequeueSteps
<1>4. CellShape'
  BY SMTT(60), <1>a, <1>c DEF CellShape
<1>5. CellOwned' /\ TicketsOwnedOnce'
  BY SMTT(60), <1>a, <1>c DEF QTypeOK, CellOwned, TicketsOwnedOnce, Writing, Reading
<1>6. WriterShape' /\ ReaderShape'
  BY SMTT(60), <1>a, <1>c DEF QTypeOK, WriterShape, ReaderShape, Writing, Reading
<1>7. SeqPassed' /\ ClaimShape'
  BY SMTT(60), <1>a, <1>c DEF QTypeOK, SeqPassed, ClaimShape
<1>8. FIFODelivery'
  BY SMTT(60), <1>a, <1>b, <1>c, <1>1 DEF FIFODelivery
<1>9. EveryTicketDelivered'
  <2> SUFFICES ASSUME NEW i \in 1 .. Len(rcvd), rcvd'[i] = NoItem
               PROVE  \E d \in Consumers : pc'[d] = "deq_read" /\ pos[d] = i - 1
    BY SMTT(60), <1>c, <1>1 DEF EveryTicketDelivered
  <2>1. i # pos[c] + 1 /\ rcvd[i] = NoItem
    BY Zenon, <1>b, <1>1
  <2>2. PICK d \in Consumers : pc[d] = "deq_read" /\ pos[d] = i - 1
    BY Zenon, <1>a, <2>1 DEF EveryTicketDelivered
  <2> QED
    BY SMTT(60), <1>a, <1>b, <1>c, <2>1, <2>2 DEF QTypeOK
<1> QED
  BY Zenon, <1>2, <1>3, <1>4, <1>5, <1>6, <1>7, <1>8, <1>9 DEF QInv

(* Releasing: the cell is free for the ticket one lap ahead.               *)
LEMMA DeqReleaseInv ==
  ASSUME QInv, NEW c \in Consumers, DeqRelease(c)
  PROVE  QInv'
<1> USE QueueAssumption DEF Threads
<1>a. /\ QTypeOK /\ CallShape /\ BoundedOccupancy /\ CellShape /\ CellOwned
      /\ TicketsOwnedOnce /\ WriterShape /\ ReaderShape /\ SeqPassed
      /\ ClaimShape /\ FIFODelivery /\ EveryTicketDelivered
  BY Zenon DEF QInv
<1>b. /\ Reading(c, pos[c]) /\ pos[c] \in Nat /\ Slot(pos[c]) \in Cells
      /\ enq_pos \in Nat /\ deq_pos \in Nat /\ seq[Slot(pos[c])] = pos[c] + 1
  BY SMTT(60), <1>a, SlotIsCell DEF QTypeOK, ReaderShape, Reading, DeqRelease
<1>c. /\ seq' \in [Cells -> Nat]
      /\ seq'[Slot(pos[c])] = pos[c] + Capacity
      /\ \A k \in Cells : k # Slot(pos[c]) => seq'[k] = seq[k]
  BY <1>a, <1>b DEF QTypeOK, DeqRelease
<1>d. /\ pc' = [pc EXCEPT ![c] = "idle"] /\ pc[c] = "deq_release"
      /\ ret' \in [Threads -> BOOLEAN]
      /\ UNCHANGED <<value, enq_pos, deq_pos, pos, arg, out, sent, rcvd>>
  BY SMTT(60), <1>a DEF QTypeOK, DeqRelease, GoTo, Return, history
<1>1. QTypeOK'
  BY SMTT(60), <1>a, <1>c, <1>d DEF QTypeOK
<1>2. CallShape' /\ BoundedOccupancy'
  BY SMTT(60), <1>a, <1>d DEF QTypeOK, CallShape, BoundedOccupancy
<1>3. \A t \in deq_pos .. deq_pos + Capacity - 1 :
        t # pos[c] + Capacity => seq'[Slot(t)] = seq[Slot(t)]
  BY SMTT(60), <1>b, <1>c, ReaderCellAlone, SlotIsCell
<1>4. /\ pos[c] + Capacity >= enq_pos
      /\ seq'[Slot(pos[c] + Capacity)] = pos[c] + Capacity
  BY SMTT(60), <1>b, <1>c, ReaderCellAlone
<1>5. CellShape'
  BY SMTT(60), <1>a, <1>b, <1>d, <1>3, <1>4 DEF CellShape
<1>6. CellOwned'
  <2>1. \A p \in Producers, t \in Int : Writing(p, t) => Writing(p, t)'
    BY Zenon, <1>a, <1>d DEF QTypeOK, Writing
  <2>2. \A d \in Consumers, t \in Int : t # pos[c] /\ Reading(d, t) => Reading(d, t)'
    BY SMTT(60), <1>a, <1>d DEF QTypeOK, Reading
  <2> QED
    BY SMTT(60), <1>a, <1>b, <1>d, <1>3, <1>4, <2>1, <2>2 DEF CellOwned
<1>7. TicketsOwnedOnce'
  BY SMTT(60), <1>a, <1>d DEF QTypeOK, TicketsOwnedOnce, Writing, Reading
<1>8. WriterShape'
  <2>1. \A p \in Producers : Writing(p, pos[p]) =>
          seq'[Slot(pos[p])] = seq[Slot(pos[p])]
    BY SMTT(60), <1>a, <1>b, <1>c, WriterCellAlone, SlotIsCell DEF QTypeOK
  <2> QED
    BY SMTT(60), <1>a, <1>d, <2>1 DEF QTypeOK, WriterShape, Writing
<1>9. ReaderShape'
  <2>1. \A d \in Consumers : d # c /\ Reading(d, pos[d]) =>
          seq'[Slot(pos[d])] = seq[Slot(pos[d])]
    BY Zenon, <1>a, <1>b, <1>c, ReaderCellAlone, SlotIsCell DEF QTypeOK
  <2> QED
    BY Zenon, <1>a, <1>d, <2>1 DEF QTypeOK, ReaderShape, Reading
<1>10. SeqPassed' /\ ClaimShape'
  <2>1. \A k \in Cells : seq[k] \in Nat /\ seq'[k] \in Nat /\ seq[k] <= seq'[k]
    <3>1. seq \in [Cells -> Nat]
      BY Zenon, <1>a DEF QTypeOK
    <3>2. TAKE k \in Cells
    <3>3. seq[k] \in Nat /\ seq'[k] \in Nat
      BY <1>c, <3>1
    <3> QED
      BY <1>b, <1>c, <3>3
  <2>2. \A t \in Threads : pos[t] \in Nat /\ Slot(pos[t]) \in Cells
    BY SMTT(60), <1>a, SlotIsCell DEF QTypeOK
  <2>3. SeqPassed'
    <3>1. \A t \in Nat : Slot(t) \in Cells
      BY SMTT(60), SlotIsCell
    <3> QED
      BY <1>a, <1>b, <1>d, <2>1, <3>1 DEF SeqPassed
  <2> QED
    BY SMTT(30), <1>a, <1>d, <2>1, <2>2, <2>3 DEF QTypeOK, ClaimShape
<1>11. FIFODelivery' /\ EveryTicketDelivered'
  BY Zenon, <1>a, <1>d DEF QTypeOK, FIFODelivery, EveryTicketDelivered
<1> QED
  BY SMTT(60), <1>1, <1>2, <1>5, <1>6, <1>7, <1>8, <1>9, <1>10, <1>11 DEF QInv

-----------------------------------------------------------------------------
(* What the loads may return, whether or not they are stale.               *)
LEMMA LoadBounds ==
  ASSUME QTypeOK
  PROVE  /\ \A x, y \in Nat : y <= x =>
              \A q \in LoadPos(x, y) : q \in Nat /\ q <= x
         /\ \A k \in Cells : \A s \in LoadSeq(k) : s \in Nat /\ s <= seq[k]
BY QueueAssumption DEF QTypeOK, LoadPos, LoadSeq, Cells

(* The order of the positions a thread compares.                           *)
LEMMA PositionOrder ==
  /\ \A x \in Nat : x <= x
  /\ \A x, y \in Nat : x + 1 <= y => x < y
OBVIOUS

(* Every step of a producer preserves the invariant.                       *)
LEMMA ProducerStepInv ==
  ASSUME Capacity >= 2, QInv, NEW p \in Producers,
         (\E v \in Items : TryEnqueue(p, v)) \/ EnqueueStep(p)
  PROVE  QInv'
<1>a. /\ QTypeOK /\ CallShape /\ p \in Threads
      /\ pos[p] \in Nat /\ pos[p] <= enq_pos /\ enq_pos \in Nat
      /\ Slot(pos[p]) \in Cells /\ arg[p] \in Items \cup {NoItem}
      /\ pc[p] # "idle" => arg[p] \in Items
  BY SMTT(60), SlotIsCell DEF QInv, QTypeOK, CallShape, Threads
<1>b. /\ pos = [pos EXCEPT ![p] = pos[p]]
      /\ arg = [arg EXCEPT ![p] = arg[p]]
      /\ ret \in [Threads -> BOOLEAN]
  BY Zenon, <1>a DEF QTypeOK
<1>1. ASSUME NEW v \in Items, TryEnqueue(p, v)
      PROVE  QInv'
  <2>1. PICK q \in LoadPos(enq_pos, pos[p]) : pos' = [pos EXCEPT ![p] = q]
    BY Zenon, <1>1 DEF TryEnqueue
  <2>2. q \in Nat /\ q <= enq_pos
    BY Zenon, <1>a, LoadBounds
  <2> QED
    BY Zenon, <1>a, <1>b, <1>1, <2>1, <2>2, ProducerPrivateStep DEF TryEnqueue, GoTo
<1>2. CASE EnqReady(p)
  <2>1. pos[p] <= seq[Slot(pos[p])]
    BY Zenon, <1>a, <1>2, LoadBounds DEF EnqReady
  <2> QED
    BY Zenon, <1>a, <1>b, <1>2, <2>1, ProducerPrivateStep DEF EnqReady, GoTo
<1>3. CASE EnqFull(p)
  <2>1. ret' \in [Threads -> BOOLEAN]
    BY Zenon, <1>b, <1>3 DEF EnqFull, Return
  <2> QED
    BY Zenon, <1>a, <1>b, <1>3, <2>1, ProducerPrivateStep DEF EnqFull, Return, GoTo
<1>4. CASE EnqBehind(p)
  BY Zenon, <1>a, <1>b, <1>4, ProducerPrivateStep DEF EnqBehind, GoTo
<1>5. CASE EnqReload(p)
  <2>1. PICK q \in LoadPos(enq_pos, pos[p]) : pos' = [pos EXCEPT ![p] = q]
    BY Zenon, <1>5 DEF EnqReload
  <2>2. q \in Nat /\ q <= enq_pos
    BY Zenon, <1>a, LoadBounds
  <2> QED
    BY Zenon, <1>a, <1>b, <1>5, <2>1, <2>2, ProducerPrivateStep DEF EnqReload, GoTo
<1>6. CASE EnqClaimFails(p)
  <2>1. enq_pos <= enq_pos
    BY Zenon, <1>a, PositionOrder
  <2> QED
    BY Zenon, <1>a, <1>b, <1>6, <2>1, ProducerPrivateStep DEF EnqClaimFails, GoTo
<1> QED
  BY SMTT(60), <1>1, <1>2, <1>3, <1>4, <1>5, <1>6, EnqClaimInv, EnqWriteInv, EnqPublishInv
  DEF EnqueueStep

(* Every step of a consumer preserves the invariant.                       *)
LEMMA ConsumerStepInv ==
  ASSUME Capacity >= 2, QInv, NEW c \in Consumers,
         TryDequeue(c) \/ DequeueStep(c)
  PROVE  QInv'
<1>a. /\ QTypeOK /\ CallShape /\ c \in Threads
      /\ pos[c] \in Nat /\ pos[c] <= deq_pos /\ deq_pos \in Nat
      /\ Slot(pos[c]) \in Cells /\ seq[Slot(pos[c])] \in Nat
  BY SMTT(60), SlotIsCell DEF QInv, QTypeOK, CallShape, Threads
<1>b. /\ pos = [pos EXCEPT ![c] = pos[c]]
      /\ ret \in [Threads -> BOOLEAN]
  BY Zenon, <1>a DEF QTypeOK
<1>1. CASE TryDequeue(c)
  <2>1. PICK q \in LoadPos(deq_pos, pos[c]) : pos' = [pos EXCEPT ![c] = q]
    BY Zenon, <1>1 DEF TryDequeue
  <2>2. q \in Nat /\ q <= deq_pos
    BY Zenon, <1>a, LoadBounds
  <2> QED
    BY Zenon, <1>a, <1>b, <1>1, <2>1, <2>2, ConsumerPrivateStep DEF TryDequeue, GoTo
<1>2. CASE DeqReady(c)
  <2>1. pos[c] < seq[Slot(pos[c])]
    <3>1. pos[c] + 1 <= seq[Slot(pos[c])]
      BY Zenon, <1>a, <1>2, LoadBounds DEF DeqReady
    <3> QED
      BY Zenon, <1>a, <3>1, PositionOrder
  <2> QED
    BY Zenon, <1>a, <1>b, <1>2, <2>1, ConsumerPrivateStep DEF DeqReady, GoTo
<1>3. CASE DeqEmpty(c)
  <2>1. ret' \in [Threads -> BOOLEAN]
    BY Zenon, <1>b, <1>3 DEF DeqEmpty, Return
  <2> QED
    BY Zenon, <1>a, <1>b, <1>3, <2>1, ConsumerPrivateStep DEF DeqEmpty, Return, GoTo
<1>4. CASE DeqBehind(c)
  BY Zenon, <1>a, <1>b, <1>4, ConsumerPrivateStep DEF DeqBehind, GoTo
<1>5. CASE DeqReload(c)
  <2>1. PICK q \in LoadPos(deq_pos, pos[c]) : pos' = [pos EXCEPT ![c] = q]
    BY Zenon, <1>5 DEF DeqReload
  <2>2. q \in Nat /\ q <= deq_pos
    BY Zenon, <1>a, LoadBounds
  <2> QED
    BY Zenon, <1>a, <1>b, <1>5, <2>1, <2>2, ConsumerPrivateStep DEF DeqReload, GoTo
<1>6. CASE DeqClaimFails(c)
  <2>1. deq_pos <= deq_pos
    BY Zenon, <1>a, PositionOrder
  <2> QED
    BY Zenon, <1>a, <1>b, <1>6, <2>1, ConsumerPrivateStep DEF DeqClaimFails, GoTo
<1> QED
  BY Zenon, <1>1, <1>2, <1>3, <1>4, <1>5, <1>6, DeqClaimInv, DeqReadInv, DeqReleaseInv
  DEF DequeueStep

(* A state in which no queue variable changed keeps the invariant.         *)
LEMMA QueueStutterInv ==
  ASSUME QInv, UNCHANGED qvars
  PROVE  QInv'
<1> USE DEF qvars, shared, history
<1>1. QTypeOK' /\ CallShape' /\ BoundedOccupancy'
  BY Zenon DEF QInv, QTypeOK, CallShape, BoundedOccupancy
<1>2. CellShape'
  BY SMTT(60) DEF QInv, CellShape
<1>3. CellOwned' /\ TicketsOwnedOnce'
  BY SMTT(60) DEF QInv, CellOwned, TicketsOwnedOnce, Writing, Reading
<1>4. WriterShape' /\ ReaderShape'
  BY SMTT(60) DEF QInv, WriterShape, ReaderShape, Writing, Reading
<1>5. SeqPassed' /\ ClaimShape'
  BY Zenon DEF QInv, SeqPassed, ClaimShape
<1>6. FIFODelivery' /\ EveryTicketDelivered'
  BY Zenon DEF QInv, FIFODelivery, EveryTicketDelivered
<1> QED
  BY Zenon, <1>1, <1>2, <1>3, <1>4, <1>5, <1>6 DEF QInv

(* The constructor establishes the invariant.                              *)
LEMMA QueueInitInv ==
  ASSUME QInit
  PROVE  QInv
<1> USE QueueAssumption DEF QInit, Threads
<1>1. \A t \in 0 .. Capacity - 1 : Slot(t) = t
  BY DEF Slot
<1>2. QTypeOK
  BY NoneInSequence DEF QTypeOK, Cells
<1>3. CallShape /\ BoundedOccupancy
  BY NoneInSequence DEF CallShape, BoundedOccupancy
<1>4. CellShape /\ CellOwned
  BY SMTT(60), <1>1 DEF CellShape, CellOwned, Cells
<1>5. /\ TicketsOwnedOnce /\ WriterShape /\ ReaderShape
      /\ SeqPassed /\ ClaimShape
  BY DEF TicketsOwnedOnce, WriterShape, ReaderShape, SeqPassed, ClaimShape,
         Writing, Reading
<1>6. FIFODelivery /\ EveryTicketDelivered
  BY NoneInSequence DEF FIFODelivery, EveryTicketDelivered
<1> QED
  BY Zenon, <1>2, <1>3, <1>4, <1>5, <1>6 DEF QInv

(* For any numbers of producers, consumers and items, any capacity of at   *)
(* least two and stale loads or not, the invariant of try_enqueue and      *)
(* try_dequeue always holds.                                               *)
THEOREM QueueInvariant ==
  ASSUME Capacity >= 2
  PROVE  QSpec => []QInv
<1>1. QInit => QInv
  BY QueueInitInv
<1>2. QInv /\ [QNext]_qvars => QInv'
  BY Zenon, ProducerStepInv, ConsumerStepInv, QueueStutterInv DEF QNext
<1> QED
  BY <1>1, <1>2, PTL DEF QSpec

(* The invariant implies that no two owners share a cell.                  *)
LEMMA InvNoCellRace ==
  ASSUME QInv
  PROVE  NoCellRace
<1> SUFFICES ASSUME NEW t \in Owners, NEW u \in Owners, t # u
             PROVE  Slot(pos[t]) # Slot(pos[u])
  BY DEF NoCellRace
<1>1. \A x \in Owners : \/ x \in Producers /\ Writing(x, pos[x])
                        \/ x \in Consumers /\ Reading(x, pos[x])
  BY Zenon, QueueAssumption DEF Owners, Threads, Writing, Reading, QInv, CallShape,
                         EnqueueSteps, DequeueSteps
<1>2. CASE t \in Producers /\ Writing(t, pos[t])
  BY <1>1, <1>2, WriterCellAlone
<1>3. CASE t \in Consumers /\ Reading(t, pos[t])
  <2>1. CASE u \in Producers /\ Writing(u, pos[u])
    BY Zenon, <1>3, <2>1, WriterCellAlone
  <2>2. CASE u \in Consumers /\ Reading(u, pos[u])
    BY Zenon, <1>3, <2>2, ReaderCellAlone
  <2> QED
    BY <1>1, <2>1, <2>2
<1> QED
  BY Zenon, <1>1, <1>2, <1>3

(* Type correctness of try_enqueue and try_dequeue, for any parameters.    *)
THEOREM QueueTypeCorrect ==
  ASSUME Capacity >= 2
  PROVE  QSpec => []QTypeOK
<1>1. QInv => QTypeOK
  BY DEF QInv
<1> QED
  BY <1>1, QueueInvariant, PTL

(* No two threads ever access the plain value field of one cell at the     *)
(* same time, for any parameters: the queue has no data race.              *)
THEOREM QueueRaceFree ==
  ASSUME Capacity >= 2
  PROVE  QSpec => []NoCellRace
<1>1. QInv => NoCellRace
  BY InvNoCellRace
<1> QED
  BY <1>1, QueueInvariant, PTL

(* The queue never holds more than capacity_ items, for any parameters.    *)
THEOREM QueueBounded ==
  ASSUME Capacity >= 2
  PROVE  QSpec => []BoundedOccupancy
<1>1. QInv => BoundedOccupancy
  BY DEF QInv
<1> QED
  BY <1>1, QueueInvariant, PTL

(* Every dequeue ticket is handed the item enqueued under the same number, *)
(* for any parameters.                                                     *)
THEOREM QueueDelivers ==
  ASSUME Capacity >= 2
  PROVE  QSpec => [](FIFODelivery /\ EveryTicketDelivered)
<1>1. QInv => FIFODelivery /\ EveryTicketDelivered
  BY DEF QInv
<1> QED
  BY <1>1, QueueInvariant, PTL

(* No step of any thread lowers the sequence number of a cell.             *)
THEOREM QueueSeqAdvances ==
  ASSUME Capacity >= 2
  PROVE  QSpec => SeqAdvances
<1>1. QInv /\ [QNext]_qvars => [SeqGrows]_qvars
  <2> SUFFICES ASSUME QInv, QNext, NEW k \in Cells
               PROVE  seq'[k] >= seq[k]
    BY Zenon DEF SeqGrows
  <2>a. seq \in [Cells -> Nat] /\ seq[k] \in Nat
    BY SMTT(60) DEF QInv, QTypeOK
  <2>1. ASSUME NEW p \in Producers, EnqPublish(p)
        PROVE  seq'[k] >= seq[k]
    <3>1. Writing(p, pos[p]) /\ pos[p] \in Nat /\ seq[Slot(pos[p])] = pos[p]
      BY Zenon, <2>1 DEF QInv, QTypeOK, WriterShape, Writing, EnqPublish, Threads
    <3> QED
      BY SMTT(60), <2>a, <2>1, <3>1 DEF EnqPublish
  <2>2. ASSUME NEW c \in Consumers, DeqRelease(c)
        PROVE  seq'[k] >= seq[k]
    <3>1. Reading(c, pos[c]) /\ pos[c] \in Nat /\ seq[Slot(pos[c])] = pos[c] + 1
      BY SMTT(60), <2>2 DEF QInv, QTypeOK, ReaderShape, Reading, DeqRelease, Threads
    <3>2. seq' = [seq EXCEPT ![Slot(pos[c])] = pos[c] + Capacity]
      BY Zenon, <2>2 DEF DeqRelease
    <3>3. Capacity \in Nat /\ Capacity >= 1
      BY QueueAssumption
    <3> QED
      BY SMTT(60), <2>a, <3>1, <3>2, <3>3
  <2>3. CASE UNCHANGED seq
    BY SMTT(60), <2>a, <2>3
  <2>4. \/ UNCHANGED seq
        \/ \E p \in Producers : EnqPublish(p)
        \/ \E c \in Consumers : DeqRelease(c)
    BY Zenon DEF QNext, EnqueueStep, DequeueStep, TryEnqueue, EnqReady, EnqFull,
           EnqBehind, EnqReload, EnqClaim, EnqClaimFails, EnqWrite, TryDequeue,
           DeqReady, DeqEmpty, DeqBehind, DeqReload, DeqClaim, DeqClaimFails,
           DeqRead, shared
  <2> QED
    BY <2>1, <2>2, <2>3, <2>4
<1> QED
  BY <1>1, QueueInvariant, PTL DEF QSpec, SeqAdvances

(* Unless its load was stale, try_enqueue fails only on a queue that is    *)
(* full or whose next cell is still being read.                            *)
THEOREM QueueFullMeansFull ==
  ASSUME Capacity >= 2
  PROVE  QSpec => FullMeansFull
<1>1. ASSUME QInv, NEW p \in Producers, seq[Slot(pos[p])] < pos[p]
      PROVE  \/ enq_pos - deq_pos = Capacity
             \/ \E c \in Consumers : Reading(c, enq_pos - Capacity)
  <2> USE QueueAssumption
  <2>1. /\ enq_pos \in Nat /\ deq_pos \in Nat /\ deq_pos <= enq_pos
        /\ enq_pos <= deq_pos + Capacity /\ pos[p] \in Nat /\ pos[p] <= enq_pos
        /\ seq[Slot(pos[p])] < pos[p] /\ seq[Slot(pos[p])] \in Nat
    BY <1>1, SlotIsCell DEF QInv, QTypeOK, CallShape, BoundedOccupancy, Threads
  <2>2. pos[p] = enq_pos
    BY <1>1, <2>1 DEF QInv, SeqPassed
  <2>3. CASE enq_pos < deq_pos + Capacity
    BY <1>1, <2>1, <2>2, <2>3 DEF QInv, CellOwned
  <2> QED
    BY SMTT(60), <2>1, <2>3
<1>2. QInv /\ [QNext]_qvars =>
        [\A p \in Producers : EnqFull(p) /\ seq[Slot(pos[p])] < pos[p] =>
           \/ enq_pos - deq_pos = Capacity
           \/ \E c \in Consumers : Reading(c, enq_pos - Capacity)]_qvars
  BY Zenon, <1>1
<1> QED
  BY <1>2, QueueInvariant, PTL DEF QSpec, FullMeansFull

(* Unless its load was stale, try_dequeue fails only when nothing is       *)
(* enqueued or the next item is still being written.                       *)
THEOREM QueueEmptyMeansEmpty ==
  ASSUME Capacity >= 2
  PROVE  QSpec => EmptyMeansEmpty
<1>1. ASSUME QInv, NEW c \in Consumers, seq[Slot(pos[c])] < pos[c] + 1
      PROVE  \/ deq_pos = enq_pos
             \/ \E p \in Producers : Writing(p, deq_pos)
  <2> USE QueueAssumption
  <2>1. /\ enq_pos \in Nat /\ deq_pos \in Nat /\ deq_pos <= enq_pos
        /\ pos[c] \in Nat /\ pos[c] <= deq_pos
        /\ seq[Slot(pos[c])] < pos[c] + 1 /\ seq[Slot(pos[c])] \in Nat
    BY Zenon, <1>1, SlotIsCell DEF QInv, QTypeOK, CallShape, BoundedOccupancy, Threads
  <2>2. pos[c] = deq_pos
    BY <1>1, <2>1 DEF QInv, SeqPassed
  <2>3. CASE deq_pos < enq_pos
    <3>1. deq_pos \in deq_pos .. deq_pos + Capacity - 1
      BY SMTT(60), <2>1
    <3>2. seq[Slot(deq_pos)] = deq_pos
      BY <1>1, <2>1, <2>2, <2>3, <3>1 DEF QInv, CellShape
    <3> QED
      BY Zenon, <1>1, <2>3, <3>1, <3>2 DEF QInv, CellOwned
  <2> QED
    BY SMTT(60), <2>1, <2>3
<1>2. QInv /\ [QNext]_qvars =>
        [\A c \in Consumers : DeqEmpty(c) /\ seq[Slot(pos[c])] < pos[c] + 1 =>
           \/ deq_pos = enq_pos
           \/ \E p \in Producers : Writing(p, deq_pos)]_qvars
  BY Zenon, <1>1
<1> QED
  BY <1>2, QueueInvariant, PTL DEF QSpec, EmptyMeansEmpty

-----------------------------------------------------------------------------
(* The ring buffer implements the atomic queue of BoundedFIFO under the    *)
(* mapping of MPMCQueue!FIFO, for any parameters.                          *)

(* The refinement mapping.                                                 *)
Fifo  == SubSeq(sent, deq_pos + 1, enq_pos)
Taken == [c \in Consumers |->
            IF pc[c] = "deq_read" THEN sent[pos[c] + 1] ELSE NoItem]

(* The elements of a sequence after the first d, up to the n-th.           *)
LEMMA SuffixElements ==
  ASSUME NEW S, NEW q \in Seq(S), NEW d \in Nat, NEW n \in Nat, d <= n, n <= Len(q)
  PROVE  /\ SubSeq(q, d + 1, n) \in Seq(S) /\ Len(SubSeq(q, d + 1, n)) = n - d
         /\ \A i \in 1 .. n - d : SubSeq(q, d + 1, n)[i] = q[d + i]
  OBVIOUS

(* Appending to a sequence appends to each of its suffixes.                *)
LEMMA SuffixOfAppend ==
  ASSUME NEW S, NEW s \in Seq(S), NEW x \in S, NEW d \in 0 .. Len(s)
  PROVE  SubSeq(Append(s, x), d + 1, Len(s) + 1)
           = Append(SubSeq(s, d + 1, Len(s)), x)
<1> DEFINE n == Len(s)
           a == Append(s, x)
           u == SubSeq(a, d + 1, n + 1)
           w == SubSeq(s, d + 1, n)
<1>1. n \in Nat /\ d \in Nat /\ d <= n
  BY InSequence
<1>2. /\ a \in Seq(S) /\ Len(a) = n + 1 /\ a[n + 1] = x
      /\ \A i \in 1 .. n : a[i] = s[i]
  BY Appending
<1>3. /\ n + 1 \in Nat /\ d <= n + 1 /\ a \in Seq(S) /\ n + 1 <= Len(a)
      /\ s \in Seq(S) /\ n <= Len(s)
  BY <1>1, <1>2
<1>u. u = SubSeq(a, d + 1, n + 1)
  OBVIOUS
<1>w. w = SubSeq(s, d + 1, n)
  OBVIOUS
<1> HIDE DEF n, a, u, w
<1>4. /\ u \in Seq(S) /\ Len(u) = (n + 1) - d
      /\ \A i \in 1 .. (n + 1) - d : u[i] = a[d + i]
  BY Zenon, <1>1, <1>3, <1>u, SuffixElements
<1>5. /\ w \in Seq(S) /\ Len(w) = n - d
      /\ \A i \in 1 .. n - d : w[i] = s[d + i]
  BY Zenon, <1>1, <1>3, <1>w, SuffixElements
<1>6. /\ Append(w, x) \in Seq(S) /\ Len(Append(w, x)) = n - d + 1
      /\ Append(w, x)[n - d + 1] = x
      /\ \A i \in 1 .. n - d : Append(w, x)[i] = w[i]
  BY <1>5, Appending
<1>7. \A i \in 1 .. Len(u) : u[i] = Append(w, x)[i]
  <2> SUFFICES ASSUME NEW i \in 1 .. (n + 1) - d
               PROVE  u[i] = Append(w, x)[i]
    BY Zenon, <1>4
  <2>1. CASE i = n - d + 1
    BY SMTT(30), <1>1, <1>2, <1>4, <1>6, <2>1
  <2>2. CASE i \in 1 .. n - d
    <3>1. d + i \in 1 .. n
      BY <1>1, <2>2
    <3> QED
      BY Zenon, <1>1, <1>2, <1>4, <1>5, <1>6, <2>2, <3>1
  <2>3. i = n - d + 1 \/ i \in 1 .. n - d
    BY <1>1
  <2> QED
    BY Zenon, <2>1, <2>2, <2>3
<1>8. u = Append(w, x)
  BY SMTT(30), <1>1, <1>4, <1>6, <1>7, SameElements
<1> QED
  BY Zenon, <1>8 DEF n, a, u, w

(* A successful exchange on enq_pos_ puts the argument in the queue.       *)
LEMMA EnqClaimPuts ==
  ASSUME QInv, BoundedOccupancy', NEW p \in Producers, EnqClaim(p)
  PROVE  FIFO!Put(arg[p]) /\ arg[p] \in Items
<1>1. /\ enq_pos' = enq_pos + 1 /\ deq_pos' = deq_pos /\ pos' = pos
      /\ out' = out /\ pc[p] = "enq_cas" /\ pc' = [pc EXCEPT ![p] = "enq_write"]
      /\ sent' = Append(sent, arg[p])
  BY Zenon DEF EnqClaim, GoTo
<1>2. /\ arg[p] \in Items /\ sent \in Seq(Items) /\ Len(sent) = enq_pos
      /\ enq_pos \in Nat /\ deq_pos \in Nat /\ deq_pos <= enq_pos
      /\ enq_pos + 1 - deq_pos <= Capacity /\ Capacity \in Nat
  BY <1>1, QueueAssumption DEF QInv, QTypeOK, CallShape, BoundedOccupancy
<1>3. Fifo' = Append(Fifo, arg[p])
  BY <1>1, <1>2, SuffixOfAppend DEF Fifo
<1>4. Len(Fifo) < Capacity
  <2>1. \A i \in deq_pos + 1 .. enq_pos : sent[i] \in Items
    BY <1>2, InSequence
  <2>2. Len(Fifo) = IF deq_pos + 1 <= enq_pos
                      THEN enq_pos - (deq_pos + 1) + 1 ELSE 0
    BY <1>2, <2>1, RunOf DEF Fifo
  <2> QED
    BY <1>2, <2>2
<1>5. Taken' = Taken
  <2> SUFFICES ASSUME NEW c \in Consumers
               PROVE  (IF pc'[c] = "deq_read" THEN sent'[pos'[c] + 1] ELSE NoItem)
                        = (IF pc[c] = "deq_read" THEN sent[pos[c] + 1] ELSE NoItem)
    BY Zenon DEF Taken
  <2>1. pc'[c] = pc[c]
    BY Zenon, <1>1, QueueAssumption DEF QInv, QTypeOK, Threads
  <2>2. CASE pc[c] = "deq_read"
    <3>1. pos[c] \in Nat /\ pos[c] < enq_pos
      BY <1>2, <2>2 DEF QInv, QTypeOK, ReaderShape, Reading, Threads
    <3> QED
      BY <1>1, <1>2, <2>1, <3>1, Appending
  <2> QED
    BY Zenon, <2>1, <2>2
<1> QED
  BY Zenon, <1>1, <1>2, <1>3, <1>4, <1>5 DEF FIFO!Put, Fifo, Taken

(* A successful exchange on deq_pos_ takes the head of the queue.          *)
LEMMA DeqClaimTakes ==
  ASSUME QInv, BoundedOccupancy', NEW c \in Consumers, DeqClaim(c)
  PROVE  FIFO!Take(c)
<1>1. /\ enq_pos' = enq_pos /\ deq_pos' = deq_pos + 1 /\ pos' = pos
      /\ pos[c] = deq_pos /\ out' = out /\ sent' = sent
      /\ pc[c] = "deq_cas" /\ pc' = [pc EXCEPT ![c] = "deq_read"]
  BY Zenon DEF DeqClaim, GoTo
<1>2. /\ sent \in Seq(Items) /\ Len(sent) = enq_pos
      /\ enq_pos \in Nat /\ deq_pos \in Nat /\ deq_pos + 1 <= enq_pos
      /\ pc \in [Threads -> {"idle"} \cup EnqueueSteps \cup DequeueSteps]
  BY Zenon, <1>1 DEF QInv, QTypeOK, CallShape, BoundedOccupancy
<1>3. /\ Head(Fifo) = sent[deq_pos + 1]
      /\ Tail(Fifo) = Fifo'
  BY <1>1, <1>2 DEF Fifo
<1>4. Fifo # <<>>
  <2>1. \A i \in deq_pos + 1 .. enq_pos : sent[i] \in Items
    BY <1>2, InSequence
  <2>2. Len(Fifo) = IF deq_pos + 1 <= enq_pos
                      THEN enq_pos - (deq_pos + 1) + 1 ELSE 0
    BY <1>2, <2>1, RunOf DEF Fifo
  <2> QED
    BY <1>2, <2>2, NoneInSequence
<1>5. /\ Taken[c] = NoItem
      /\ Taken' = [Taken EXCEPT ![c] = sent[deq_pos + 1]]
  BY Zenon, <1>1, <1>2 DEF Taken, Threads
<1> QED
  BY Zenon, <1>1, <1>3, <1>4, <1>5 DEF FIFO!Take, Fifo, Taken

(* Reading the cell hands over what was taken.                             *)
LEMMA DeqReadHands ==
  ASSUME QInv, NEW c \in Consumers, DeqRead(c)
  PROVE  FIFO!Hand(c)
<1>1. /\ UNCHANGED <<enq_pos, deq_pos, pos, sent>>
      /\ out' = [out EXCEPT ![c] = value[Slot(pos[c])]]
      /\ pc[c] = "deq_read" /\ pc' = [pc EXCEPT ![c] = "deq_release"]
  BY Zenon DEF DeqRead, GoTo, shared
<1>2. /\ sent \in Seq(Items) /\ Len(sent) = enq_pos /\ enq_pos \in Nat
      /\ pos[c] \in Nat /\ pos[c] < enq_pos
      /\ value[Slot(pos[c])] = sent[pos[c] + 1]
      /\ pc \in [Threads -> {"idle"} \cup EnqueueSteps \cup DequeueSteps]
  BY <1>1 DEF QInv, QTypeOK, CallShape, BoundedOccupancy, ReaderShape, Reading,
              Threads
<1>3. sent[pos[c] + 1] \in Items
  BY <1>2, InSequence
<1>4. /\ Taken[c] = sent[pos[c] + 1] /\ Taken[c] # NoItem
      /\ Taken' = [Taken EXCEPT ![c] = NoItem]
  BY Zenon, <1>1, <1>2, <1>3, QueueAssumption DEF Taken, Threads
<1> QED
  BY Zenon, <1>1, <1>2, <1>4 DEF FIFO!Hand, Taken

(* Every other step leaves the abstract queue alone.                       *)
LEMMA OtherStepsStutter ==
  ASSUME QInv, UNCHANGED <<sent, enq_pos, deq_pos, out>>,
         NEW t \in Threads, NEW label, NEW q,
         label # "deq_read", pc[t] # "deq_read",
         pc' = [pc EXCEPT ![t] = label],
         pos' = [pos EXCEPT ![t] = q]
  PROVE  UNCHANGED FIFO!vars
<1>1. /\ pc \in [Threads -> {"idle"} \cup EnqueueSteps \cup DequeueSteps]
      /\ pos \in [Threads -> Nat]
  BY Zenon DEF QInv, QTypeOK
<1>2. Taken' = Taken
  BY <1>1 DEF Taken, Threads
<1> QED
  BY Zenon, <1>2 DEF FIFO!vars, Taken

(* The ring buffer of mpmc_queue.hpp implements one atomic bounded queue.  *)
THEOREM QueueImplementsFIFO ==
  ASSUME Capacity >= 2
  PROVE  QSpec => ImplementsFIFO
<1>1. QInit => FIFO!Init
  <2> SUFFICES ASSUME QInit PROVE FIFO!Init
    OBVIOUS
  <2>1. Fifo = <<>>
    BY DEF QInit, Fifo
  <2>2. Taken = [c \in Consumers |-> NoItem]
    BY DEF QInit, Taken, Threads
  <2> QED
    BY Zenon, <2>1, <2>2 DEF QInit, FIFO!Init, Fifo, Taken
<1>2. QInv /\ QInv' /\ [QNext]_qvars => [FIFO!Next]_FIFO!vars
  <2> SUFFICES ASSUME QInv, QInv', [QNext]_qvars
               PROVE  FIFO!Next \/ UNCHANGED FIFO!vars
    OBVIOUS
  <2>a. /\ \A t \in Threads : pos = [pos EXCEPT ![t] = pos[t]]
        /\ BoundedOccupancy'
    BY Zenon DEF QInv, QTypeOK
  <2>1. ASSUME NEW p \in Producers,
               (\E v \in Items : TryEnqueue(p, v)) \/ EnqueueStep(p)
        PROVE  FIFO!Next \/ UNCHANGED FIFO!vars
    <3>a. p \in Threads
      BY DEF Threads
    <3>b. pc[p] # "deq_read"
      BY Zenon DEF QInv, CallShape, EnqueueSteps
    <3>1. CASE EnqClaim(p)
      BY <2>a, <3>1, EnqClaimPuts DEF FIFO!Next
    <3>2. CASE \E v \in Items : TryEnqueue(p, v)
      BY Zenon, <3>a, <3>b, <3>2, OtherStepsStutter DEF TryEnqueue, GoTo, shared, history
    <3>3. CASE EnqReady(p) \/ EnqFull(p) \/ EnqBehind(p)
      BY Zenon, <2>a, <3>a, <3>b, <3>3, OtherStepsStutter
      DEF EnqReady, EnqFull, EnqBehind, Return, GoTo, shared, history
    <3>4. CASE EnqReload(p) \/ EnqClaimFails(p)
      BY Zenon, <3>a, <3>b, <3>4, OtherStepsStutter
      DEF EnqReload, EnqClaimFails, GoTo, shared, history
    <3>5. CASE EnqWrite(p) \/ EnqPublish(p)
      BY SMTT(30), <2>a, <3>a, <3>b, <3>5, OtherStepsStutter
      DEF EnqWrite, EnqPublish, Return, GoTo, history
    <3> QED
      BY <2>1, <3>1, <3>2, <3>3, <3>4, <3>5 DEF EnqueueStep
  <2>2. ASSUME NEW c \in Consumers, TryDequeue(c) \/ DequeueStep(c)
        PROVE  FIFO!Next \/ UNCHANGED FIFO!vars
    <3>a. c \in Threads
      BY Zenon DEF Threads
    <3>1. CASE DeqClaim(c)
      BY <2>a, <3>1, DeqClaimTakes DEF FIFO!Next
    <3>2. CASE DeqRead(c)
      BY Zenon, <3>2, DeqReadHands DEF FIFO!Next
    <3>3. CASE TryDequeue(c) \/ DeqReload(c) \/ DeqClaimFails(c)
      BY Zenon, <3>a, <3>3, OtherStepsStutter
      DEF TryDequeue, DeqReload, DeqClaimFails, GoTo, shared, history
    <3>4. CASE DeqReady(c) \/ DeqEmpty(c) \/ DeqBehind(c)
      BY Zenon, <2>a, <3>a, <3>4, OtherStepsStutter
      DEF DeqReady, DeqEmpty, DeqBehind, Return, GoTo, shared, history
    <3>5. CASE DeqRelease(c)
      BY Zenon, <2>a, <3>a, <3>5, OtherStepsStutter DEF DeqRelease, Return, GoTo, history
    <3> QED
      BY Zenon, <2>2, <3>1, <3>2, <3>3, <3>4, <3>5 DEF DequeueStep
  <2>3. CASE UNCHANGED qvars
    BY Zenon, <2>3 DEF qvars, shared, history, FIFO!vars
  <2> QED
    BY <2>1, <2>2, <2>3 DEF QNext
<1> QED
  BY <1>1, <1>2, QueueInvariant, PTL DEF QSpec, ImplementsFIFO, FIFO!Spec

=============================================================================
