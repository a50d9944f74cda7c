------------------------------- MODULE DPTree -------------------------------
(***************************************************************************)
(* DPTree behind its adapter: a buffer tree that takes every write, and a  *)
(* base tree into which the buffer is merged when it is large enough.      *)
(* dptree is not thread_safe(), so that the lock policy lets a write run   *)
(* alone: each call is one step, the merge it may trigger included.  The   *)
(* log, the bloom filter (which never misses a buffered key) and the       *)
(* layout of the two trees are left out: a tree is the map it holds.       *)
(***************************************************************************)
EXTENDS Integers, FiniteSets

CONSTANTS
  NLoad,       \* --keys
  MergeAt,     \* the smallest buffer that is merged: 1000 in the code
  MergeShare   \* 1 / merge_threshold: 10 in the code

ASSUME DPTreeAssumption ==
  /\ NLoad \in Nat
  /\ MergeAt \in Nat
  /\ MergeShare \in Nat \ {0}

DKeys == 1 .. NLoad

(* No entry: every entry is positive, since no value written here is 0.    *)
NoEntry == 0

(* An entry is a value shifted left; the lowest bit marks a deletion.      *)
make_upsert_value(v)   == 2 * v
strip_upsert_value(e)  == e \div 2
make_tombstone_value   == make_upsert_value(0) + 1
is_delete_op(e)        == e % 2 = 1

VARIABLES
  loaded,  \* how many keys bulk_load has inserted
  dp,      \* dynamic_tree, static_tree and expected_dyn_tree_capacity
  dcall    \* the last call: the method and the key

dpvars == <<loaded, dp, dcall>>

Entries(f) == {k \in DKeys : f[k] # NoEntry}
EmptyMap   == [k \in DKeys |-> NoEntry]

(* What is written to a key by a call of the driver: the value of a load,  *)
(* k ^ 0xA5A5A5A5, or nothing.                                             *)
Written(c) ==
  CASE c.op = "insert" -> c.key
    [] c.op = "update" -> NLoad + c.key
    [] c.op = "remove" -> 0

EntryOf(c) ==
  IF c.op = "remove" THEN make_tombstone_value ELSE make_upsert_value(Written(c))

-----------------------------------------------------------------------------
(* dynamic_tree->insert: a key that is in the buffer keeps its entry.      *)
Buffered(s, k, e) ==
  IF s.dynamic[k] = NoEntry THEN [s EXCEPT !.dynamic[k] = e] ELSE s

(* Mutant: deletions are not applied to the base tree.                     *)
MergedUpserts(f, g) ==
  [k \in DKeys |-> IF f[k] = NoEntry \/ is_delete_op(f[k]) THEN g[k] ELSE f[k]]

(* static_tree->merge: the base tree g after the upserts of the buffer f,  *)
(* then its deletions.                                                     *)
Merged(f, g) ==
  [k \in DKeys |->
     IF f[k] = NoEntry THEN g[k]
     ELSE IF is_delete_op(f[k]) THEN NoEntry ELSE f[k]]

merge(s) ==
  LET reserve_count == Cardinality(Entries(s.dynamic)) + Cardinality(Entries(s.static))
  IN  [dynamic  |-> EmptyMap,
       static   |-> Merged(s.dynamic, s.static),
       capacity |-> (reserve_count + MergeShare - 1) \div MergeShare]

merge_if_necessary(s) ==
  LET dyn_size == Cardinality(Entries(s.dynamic))
  IN  IF dyn_size >= MergeAt /\ dyn_size >= s.capacity THEN merge(s) ELSE s

(* The tree's lookup: the buffer first.                                    *)
native_lookup(k) == IF dp.dynamic[k] # NoEntry THEN dp.dynamic[k] ELSE dp.static[k]

(* The adapter's lookup: 0 for a key that is not there.                    *)
Lookup(k) ==
  IF is_delete_op(native_lookup(k)) THEN 0 ELSE strip_upsert_value(native_lookup(k))

-----------------------------------------------------------------------------
DPInit ==
  /\ loaded = 0
  /\ dp = [dynamic |-> EmptyMap, static |-> EmptyMap, capacity |-> 0]
  /\ dcall = [op |-> "none", key |-> 0]

(* A call of the adapter: insert or erase of the tree.                     *)
Call(o, k) ==
  /\ dcall' = [op |-> o, key |-> k]
  /\ dp' = merge_if_necessary(Buffered(dp, k, EntryOf(dcall')))

(* The default bulk_load inserts one key after the other.                  *)
BulkLoad ==
  /\ loaded < NLoad
  /\ Call("insert", loaded + 1)
  /\ loaded' = loaded + 1

(* A write of the driver, once the index is loaded.                        *)
Update(k) == loaded = NLoad /\ Call("update", k) /\ UNCHANGED loaded
Remove(k) == loaded = NLoad /\ Call("remove", k) /\ UNCHANGED loaded

DPNext == BulkLoad \/ \E k \in DKeys : Update(k) \/ Remove(k)

DPSpec == DPInit /\ [][DPNext]_dpvars

-----------------------------------------------------------------------------
(* Properties                                                              *)

(* The two trees together behave as one map: a call changes what lookup    *)
(* returns for its own key only, to exactly what it wrote, and only if the *)
(* key was not in the buffer; a merge in it loses no key, brings no        *)
(* deleted one back and shows no encoded entry or tombstone                *)
(* (dptree.hpp:1284-1318, 1456-1498; dptree_adapter.hpp:23-29).            *)
FirstBufferedStands ==
  [][\A k \in DKeys :
       Lookup(k)' = IF k = dcall'.key /\ dp.dynamic[k] = NoEntry
                    THEN Written(dcall') ELSE Lookup(k)]_dpvars

(* What an index that "implements lookup / update / insert / remove"       *)
(* (README.md:12) is for, an update being an "upsert" (index.hpp:107):     *)
(* after a call, lookup returns what the call wrote, or 0 if it removed    *)
(* the key.                                                                *)
LastCallStands == dcall.op # "none" => Lookup(dcall.key) = Written(dcall)

=============================================================================
