------------------------------- MODULE KVIndex -------------------------------
(***************************************************************************)
(* What the built-in indexes promise through IIndex: a map from keys to    *)
(* values that is loaded, whose values are replaced, and in which a        *)
(* removed key stays with the value 0.                                     *)
(***************************************************************************)
CONSTANTS
  Keys, Vals, Absent,
  Grows  \* whether insert is supported

VARIABLES
  map,  \* the value of each key, or Absent
  call  \* the last call, with its arguments and what it returned

vars == <<map, call>>

Calls == [op : {"insert", "update"}, key : Keys, val : Vals, ok : BOOLEAN]

Empty == [k \in Keys |-> Absent]

Init == map = Empty /\ call = <<>>

(* bulk_load: a whole key set at once, into an empty index.                *)
Load ==
  /\ map = Empty
  /\ map' \in [Keys -> Vals \cup {Absent}]
  /\ UNCHANGED call

(* True if the key is new; overwrites if not.  Refused by an index that    *)
(* does not grow.                                                          *)
Insert(c) ==
  /\ c.op = "insert"
  /\ c.ok = (Grows /\ map[c.key] = Absent)
  /\ map' = IF Grows THEN [map EXCEPT ![c.key] = c.val] ELSE map

(* True on a hit; never adds a key.  A removal is the update to 0.         *)
Update(c) ==
  /\ c.op = "update"
  /\ c.ok = (map[c.key] # Absent)
  /\ map' = IF c.ok THEN [map EXCEPT ![c.key] = c.val] ELSE map

Next ==
  \/ Load
  \/ call' \in Calls /\ (Insert(call') \/ Update(call'))

Spec == Init /\ [][Next]_vars

=============================================================================
