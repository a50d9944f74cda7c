------------------------------ MODULE Adapters ------------------------------
(***************************************************************************)
(* The external indexes behind their adapters.  An adapter turns each call *)
(* of the driver into one or two calls of the native index; the threads    *)
(* make the calls of batch_worker or of client_thread under the lock of    *)
(* their mode.  The driver uses what lookup returns and ignores what       *)
(* update, remove and scan return.                                         *)
(*                                                                         *)
(* A native call is one step: what is modelled is how the adapters combine *)
(* native calls and which of them the lock policy lets overlap, not the    *)
(* latches inside a native index.  A native call that tries again (FAST&   *)
(* FAIR's delete of a key that is not there) takes no step until it is     *)
(* through.  DPTree has a module of its own.                               *)
(***************************************************************************)
EXTENDS IndexAccess, Sequences, Functions

CONSTANTS
  NThreads, \* how many workers or clients there are
  NKeys,    \* --keys
  Setups,   \* the runs: an index, an arrival mode, the operations of --op-mix
  MaxCalls  \* bound on the calls of a thread

Threads == 1 .. NThreads
Loaded  == 1 .. NKeys

(* k ^ 0xA5A5A5A5: another value than any that was loaded.                 *)
Value(k) == NKeys + k

ASSUME AdapterAssumption ==
  /\ NThreads \in Nat /\ NKeys \in Nat /\ MaxCalls \in Nat
  /\ Setups \subseteq {"fastfair", "wbtree", "fptree", "bztree", "lbtree", "utree"}
                      \X {"batch", "poisson"} \X SUBSET Ops

VARIABLES
  setup,    \* the index, the mode and the mix of this run
  tree,     \* the entries of each key in the native index
  pending,  \* each thread's call: where it is, the native calls still to make
  calls     \* how many calls each thread has made

avars == <<setup, tree, pending, calls, lock>>

name == setup[1]
mode == setup[2]
mix  == setup[3]

-----------------------------------------------------------------------------
(* The native calls that each adapter makes, in order; "none" returns at   *)
(* once.                                                                   *)

FastFair ==
  [search |-> <<"find">>, update |-> <<"delete", "add">>,
   remove |-> <<"delete">>, scan |-> <<"none">>]

WBTree ==
  [search |-> <<"find">>, update |-> <<"delete", "add">>,
   remove |-> <<"delete">>, scan |-> <<"none">>]

(* Mutant: an update is emulated by delete and insert here, too.           *)
FPTreeDeletes ==
  [search |-> <<"find">>, update |-> <<"delete", "add_new">>,
   remove |-> <<"delete">>, scan |-> <<"range">>]

FPTree ==
  [search |-> <<"find">>, update |-> <<"replace", "add_new">>,
   remove |-> <<"delete">>, scan |-> <<"range">>]

BzTree ==
  [search |-> <<"find">>, update |-> <<"put">>,
   remove |-> <<"delete">>, scan |-> <<"range">>]

LBTree ==
  [search |-> <<"find">>, update |-> <<"add_new">>,
   remove |-> <<"delete">>, scan |-> <<"none">>]

UTree ==
  [search |-> <<"find">>, update |-> <<"put">>,
   remove |-> <<"delete">>, scan |-> <<"none">>]

Adapter ==
  [fastfair |-> FastFair, wbtree |-> WBTree, fptree |-> FPTree,
   bztree |-> BzTree, lbtree |-> LBTree, utree |-> UTree]

(* The entries of a key after each native call, given those before it.     *)

(* "add": FAST&FAIR's insert does not look for the key (nor does the one   *)
(* of wB+-Tree, as its adapter uses it).                                   *)
Added(es, v) == Append(es, v)

(* "add_new": the insert of FPTree and of LB+-Tree gives up on a key that  *)
(* is there.                                                               *)
AddedNew(es, v) == IF es = <<>> THEN <<v>> ELSE es

(* "replace": the update of FPTree gives up on a key that is not there.    *)
Replaced(es, v) == IF es = <<>> THEN es ELSE <<v>>

(* "put": BzTree's Upsert and uTree's insert store in any case.            *)
Upserted(es, v) == <<v>>

(* "delete": the first entry goes.                                         *)
Deleted(es) == IF es = <<>> THEN es ELSE Tail(es)

After(o, k, es) ==
  CASE o = "add"     -> Added(es, Value(k))
    [] o = "add_new" -> AddedNew(es, Value(k))
    [] o = "replace" -> Replaced(es, Value(k))
    [] o = "put"     -> Upserted(es, Value(k))
    [] o = "delete"  -> Deleted(es)
    [] OTHER         -> es

(* What find may return: one of the entries, 0 if there is none.           *)
Found(es) == IF es = <<>> THEN {0} ELSE Range(es)

-----------------------------------------------------------------------------
Method(o) ==
  CASE o \in {"update", "insert"} -> "update"
    [] o = "delete"               -> "remove"
    [] OTHER                      -> o

LockOf(o) ==
  LET locks == needs_lock(name, mix, NThreads)
  IN  IF mode = "batch" THEN BatchLock(locks, o) ELSE ClientLock(locks, o)

(* bulk_load has stored each key once.  Of the dense keys the i-th is i    *)
(* and has the value i; LB+-Tree stores the key instead of the value.      *)
AInit ==
  /\ setup \in Setups
  /\ tree = [k \in Loaded |-> <<k>>]
  /\ pending = [t \in Threads |->
               [at |-> "idle", op |-> "search", key |-> 1, todo |-> <<>>, res |-> 0]]
  /\ calls = [t \in Threads |-> 0]
  /\ LockInit

(* A thread comes to its next query.                                       *)
Begin(t) ==
  /\ pending[t].at = "idle"
  /\ calls[t] < MaxCalls
  /\ \E o \in Sampled(mix), k \in Loaded :
       pending' = [pending EXCEPT ![t] =
                  [at |-> "lock", op |-> o, key |-> k,
                   todo |-> Adapter[name][Method(o)], res |-> 0]]
  /\ UNCHANGED <<setup, tree, calls, lock>>

Acquire(t) ==
  /\ pending[t].at = "lock"
  /\ TakeLock(t, LockOf(pending[t].op))
  /\ pending' = [pending EXCEPT ![t].at = "inside"]
  /\ UNCHANGED <<setup, tree, calls>>

(* The adapter makes its next native call; the second call of FPTree's     *)
(* update is only made if the first found no entry.                        *)
NativeCall(t) ==
  LET c  == pending[t]
      o  == Head(c.todo)
      es == tree[c.key]
  IN  /\ c.at = "inside"
      /\ c.todo # <<>>
      /\ tree' = [tree EXCEPT ![c.key] = After(o, c.key, es)]
      /\ \E e \in Found(es) :
           pending' = [pending EXCEPT
             ![t].todo = IF o = "replace" /\ es # <<>> THEN <<>> ELSE Tail(@),
             ![t].res  = IF o = "find" THEN e ELSE @]
      /\ UNCHANGED <<setup, calls, lock>>

Return(t) ==
  /\ pending[t].at = "inside"
  /\ pending[t].todo = <<>>
  /\ DropLock(t)
  /\ pending' = [pending EXCEPT ![t].at = "idle"]
  /\ calls' = [calls EXCEPT ![t] = @ + 1]
  /\ UNCHANGED <<setup, tree>>

ANext ==
  \E t \in Threads : Begin(t) \/ Acquire(t) \/ NativeCall(t) \/ Return(t)

ASpec == AInit /\ [][ANext]_avars

-----------------------------------------------------------------------------
(* Properties                                                              *)

(* Every variable has its type; what a lookup returns is 0 or a value that *)
(* was loaded or written for the key.                                      *)
ATypeOK ==
  /\ tree \in [Loaded -> Seq(Nat)]
  /\ \A t \in Threads :
       /\ pending[t].at \in {"idle", "lock", "inside"}
       /\ pending[t].res \in {0, pending[t].key, Value(pending[t].key)}
  /\ writer \subseteq Threads /\ readers \subseteq Threads

(* Lookups and updates of a loaded key may run "without an external lock"  *)
(* (fastfair_adapter.hpp:59-62): unless the mix deletes keys, a lookup     *)
(* finds its key whatever updates run beside it.                           *)
LookupNeverMisses ==
  "delete" \notin mix =>
    \A t \in Threads :
      LET c == pending[t]
      IN  c.at = "inside" /\ c.op = "search" /\ c.todo = <<>> => c.res # 0

(* A thread that is between the two native calls of an update has taken    *)
(* the key out; nobody may notice.                                         *)
Halfway(k) ==
  \E t \in Threads :
    pending[t].at = "inside" /\ pending[t].key = k /\ pending[t].todo = <<"add">>

Status(c) ==
  IF c.at = "idle" THEN "idle"
  ELSE IF c.todo \in {<<>>, <<"add">>} THEN "done" ELSE "called"

Atomic ==
  INSTANCE AtomicIndex WITH
    Keys <- Loaded,
    map  <- [k \in Loaded |->
               IF Halfway(k) THEN Value(k)
               ELSE IF tree[k] = <<>> THEN 0 ELSE tree[k][1]],
    call <- [t \in Threads |->
               [at |-> Status(pending[t]), op |-> pending[t].op,
                key |-> pending[t].key, res |-> pending[t].res]]

(* Granted that a native call is atomic, the lock policy makes every call  *)
(* of an adapter so: it takes effect at one moment, and a lookup never     *)
(* misses a key that is being updated by two native calls                  *)
(* (bench.cpp:285-311, 418-451 and the adapters' update).                  *)
AdaptersAtomic == Atomic!Spec

(* "LB+-Tree insert overwrites an existing key if present."                *)
(* (lbtree_adapter.hpp:82): when update is about to return, still under    *)
(* the exclusive lock, the key has the new value.                          *)
UpdateOverwrites ==
  \A t \in Threads :
    LET c == pending[t]
    IN  c.at = "inside" /\ c.op = "update" /\ c.todo = <<>> =>
          Found(tree[c.key]) = {Value(c.key)}

=============================================================================
