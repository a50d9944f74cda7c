----------------------------- MODULE AtomicIndex -----------------------------
(***************************************************************************)
(* What the driver expects of an index that several threads call: each     *)
(* call takes effect at one moment between its start and its return.       *)
(***************************************************************************)
CONSTANTS
  Threads, Keys, Ops,
  Value(_)  \* the value that an update or an insert of a key writes

VARIABLES
  map,  \* the value of each key, 0 if it is not there
  call  \* the last call of each thread

vars == <<map, call>>

(* Every key is loaded before the threads start, with itself as its value. *)
Init ==
  /\ map = [k \in Keys |-> k]
  /\ \A t \in Threads : call[t].at = "idle"

Start(t) ==
  /\ call[t].at = "idle"
  /\ \E o \in Ops, k \in Keys :
       call' = [call EXCEPT ![t] = [at |-> "called", op |-> o, key |-> k, res |-> 0]]
  /\ UNCHANGED map

(* A search returns the value the key has at this moment.                  *)
Effect(t) ==
  LET c == call[t]
  IN  /\ c.at = "called"
      /\ map' = [map EXCEPT ![c.key] =
                   CASE c.op \in {"update", "insert"} -> Value(c.key)
                     [] c.op = "delete"               -> 0
                     [] OTHER                         -> @]
      /\ call' = [call EXCEPT ![t].at = "done",
                              ![t].res = IF c.op = "search" THEN map[c.key] ELSE 0]

Return(t) ==
  /\ call[t].at = "done"
  /\ call' = [call EXCEPT ![t].at = "idle"]
  /\ UNCHANGED map

Next == \E t \in Threads : Start(t) \/ Effect(t) \/ Return(t)

Spec == Init /\ [][Next]_vars

=============================================================================
