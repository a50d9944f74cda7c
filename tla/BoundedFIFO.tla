----------------------------- MODULE BoundedFIFO -----------------------------
(***************************************************************************)
(* What a user of mpmc_queue.hpp relies on: one queue of at most Capacity  *)
(* items.  An item enters at the tail in one step, leaves from the head in *)
(* one step for one consumer, and that consumer is then handed that item.  *)
(***************************************************************************)
EXTENDS Naturals, Sequences

CONSTANTS Items, NoItem, Consumers, Capacity

VARIABLES
  fifo,   \* the items in the queue, oldest first
  taken,  \* the item each consumer took and was not handed yet, or NoItem
  out     \* the item each consumer was handed last

vars == <<fifo, taken, out>>

Init ==
  /\ fifo = <<>>
  /\ taken = [c \in Consumers |-> NoItem]
  /\ out = [c \in Consumers |-> NoItem]

Put(v) ==
  /\ Len(fifo) < Capacity
  /\ fifo' = Append(fifo, v)
  /\ UNCHANGED <<taken, out>>

Take(c) ==
  /\ fifo # <<>>
  /\ taken[c] = NoItem
  /\ taken' = [taken EXCEPT ![c] = Head(fifo)]
  /\ fifo' = Tail(fifo)
  /\ UNCHANGED out

Hand(c) ==
  /\ taken[c] # NoItem
  /\ out' = [out EXCEPT ![c] = taken[c]]
  /\ taken' = [taken EXCEPT ![c] = NoItem]
  /\ UNCHANGED fifo

Next ==
  \/ \E v \in Items : Put(v)
  \/ \E c \in Consumers : Take(c) \/ Hand(c)

Spec == Init /\ [][Next]_vars

=============================================================================
