----------------------------- MODULE IndexAccess -----------------------------
(***************************************************************************)
(* How the threads of both arrival modes get at the index: the flags each  *)
(* index declares, the lock policy of bench.cpp, and the std::shared_mutex *)
(* idx_lock that the policy uses.  An index is known by its --index name,  *)
(* a mix is the set of operations with a positive weight in --op-mix.      *)
(***************************************************************************)
EXTENDS Integers, FiniteSets

Writes == {"update", "insert", "delete"}
Ops    == Writes \cup {"search", "scan"}

(* What the sampler may return.  Its table gives the bins that truncating   *)
(* the cumulative shares leaves over to scan, whatever scan's weight is.    *)
Sampled(mix) == mix \cup {"scan"}

(* The indexes of make_index, and what their adapters declare.             *)
Indexes == {"btree", "hash", "fastfair", "wbtree", "fptree", "bztree",
            "lbtree", "utree", "circtree", "dptree", "nbtree"}

thread_safe(name)     == name \in {"fastfair", "fptree", "utree"}
concurrent_safe(name) == name \in {"fastfair", "fptree", "bztree", "circtree", "nbtree"}

(* The global lock is a fallback: only for a mix with writes, several      *)
(* threads, and an index without concurrency control of its own.           *)
has_writes(mix) == mix \cap Writes # {}
needs_lock(name, mix, index_threads) ==
  has_writes(mix) /\ index_threads > 1 /\ ~thread_safe(name)

(* Mutant: a writer shares the lock.                                       *)
BatchLockShared(use_lock, o) == IF use_lock THEN "shared" ELSE "none"

(* batch_worker: searches and scans share the lock, writes hold it alone.  *)
BatchLock(use_lock, o) ==
  IF ~use_lock THEN "none" ELSE IF o \in Writes THEN "unique" ELSE "shared"

(* Mutant: a search never takes the lock.                                  *)
ClientLockFreeSearch(locks, o) ==
  IF o \in Writes THEN "unique" ELSE IF o = "scan" THEN "shared" ELSE "none"

(* client_thread: writes and scans always take the lock.                   *)
ClientLock(locks, o) ==
  IF o \in Writes THEN "unique"
  ELSE IF o = "scan" \/ locks THEN "shared" ELSE "none"

VARIABLES
  writer,   \* the threads that hold idx_lock exclusively
  readers   \* the threads that hold idx_lock shared

lock == <<writer, readers>>

LockInit == writer = {} /\ readers = {}

(* Take idx_lock in a mode, when it can be had, or go without it.          *)
TakeLock(t, mode) ==
  \/ /\ mode = "unique"
     /\ writer = {} /\ readers = {}
     /\ writer' = {t} /\ UNCHANGED readers
  \/ /\ mode = "shared"
     /\ writer = {}
     /\ readers' = readers \cup {t} /\ UNCHANGED writer
  \/ /\ mode = "none"
     /\ UNCHANGED lock

DropLock(t) ==
  /\ writer' = writer \ {t}
  /\ readers' = readers \ {t}

=============================================================================
