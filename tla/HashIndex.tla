------------------------------ MODULE HashIndex ------------------------------
(***************************************************************************)
(* hash_index.hpp: the chaining hash table.  Each bucket of the array      *)
(* heads a chain of buckets of INLINE_SLOTS slots; a chain is a sequence   *)
(* of buckets, a bucket the sequence of its n slots in use.                *)
(***************************************************************************)
EXTENDS Integers, Sequences, FiniteSetsExt, Powers

CONSTANTS
  Keys,          \* idx_key_t
  Vals,          \* idx_val_t
  Absent,        \* no slot holds the key
  bucket_count,  \* the number of buckets asked for
  INLINE_SLOTS

ASSUME HashAssumption ==
  /\ Keys \subseteq Nat
  /\ Vals \subseteq Nat /\ 0 \in Vals
  /\ Absent \notin Vals
  /\ bucket_count \in Nat
  /\ INLINE_SLOTS \in Nat \ {0}

VARIABLES
  chain,             \* the chain of each bucket of the array
  items,             \* items_
  overflow_buckets,  \* overflow_buckets_
  call               \* the last call and what it returned

hvars == <<chain, items, overflow_buckets, call>>

Slots == [key : Keys, val : Vals]

Returns(name, k, v, b) ==
  call' = [op |-> name, key |-> k, val |-> v, ok |-> b]

(* The constructor doubles from 1 until the request is met.                *)
nb == pow2_ceil(bucket_count)

(* (k >> shift_) & mask_; make_index leaves the shift at 0.                *)
index_of(k) == k % nb

(* Where a chain holds a key, and the place the nested loops meet first.   *)
Hits(c, k) ==
  {h \in (1 .. Len(c)) \X (1 .. INLINE_SLOTS) :
     h[2] <= Len(c[h[1]]) /\ c[h[1]][h[2]].key = k}

FirstHit(c, k) ==
  CHOOSE h \in Hits(c, k) :
    \A g \in Hits(c, k) : h[1] < g[1] \/ (h[1] = g[1] /\ h[2] <= g[2])

(* The first bucket with room, or else the last of the chain.              *)
TailOf(c) ==
  CHOOSE j \in 1 .. Len(c) :
    /\ \A g \in 1 .. j - 1 : Len(c[g]) = INLINE_SLOTS
    /\ Len(c[j]) < INLINE_SLOTS \/ j = Len(c)

lookup(k) ==
  LET c == chain[index_of(k)]
      h == FirstHit(c, k)
  IN  IF Hits(c, k) = {} THEN 0 ELSE c[h[1]][h[2]].val

HInit ==
  /\ chain = [b \in 0 .. nb - 1 |-> << <<>> >>]
  /\ items = 0
  /\ overflow_buckets = 0
  /\ call = <<>>

(* Store v in the first slot that holds k.                                 *)
Overwrite(k, v) ==
  LET b == index_of(k)
      h == FirstHit(chain[b], k)
  IN  /\ Hits(chain[b], k) # {}
      /\ chain' = [chain EXCEPT ![b][h[1]][h[2]].val = v]
      /\ UNCHANGED <<items, overflow_buckets>>

(* A new key goes into the bucket with room; searched is the part of the   *)
(* chain that was found not to hold it.                                    *)
AddSlot(k, v, searched) ==
  LET b == index_of(k)
      t == TailOf(chain[b])
  IN  /\ Hits(searched, k) = {}
      /\ Len(chain[b][t]) < INLINE_SLOTS
      /\ chain' = [chain EXCEPT ![b][t] = Append(@, [key |-> k, val |-> v])]
      /\ items' = items + 1
      /\ Returns("insert", k, v, TRUE)
      /\ UNCHANGED overflow_buckets

(* Mutant: only the first bucket of the chain is searched for the key.     *)
InsertRoomShallow(k, v) == AddSlot(k, v, <<chain[index_of(k)][1]>>)

InsertRoom(k, v) == AddSlot(k, v, chain[index_of(k)])

(* A new key goes into a new bucket, counted as n, once the tail is full.  *)
AddBucket(k, v, full, n) ==
  LET b == index_of(k)
  IN  /\ Hits(chain[b], k) = {}
      /\ Len(chain[b][TailOf(chain[b])]) >= full
      /\ chain' = [chain EXCEPT ![b] = Append(@, <<[key |-> k, val |-> v]>>)]
      /\ items' = items + 1
      /\ overflow_buckets' = overflow_buckets + n
      /\ Returns("insert", k, v, TRUE)

(* Mutants: a bucket is chained before it is needed; it is not counted.    *)
InsertOverflowEarly(k, v)     == AddBucket(k, v, INLINE_SLOTS - 1, 1)
InsertOverflowUncounted(k, v) == AddBucket(k, v, INLINE_SLOTS, 0)

InsertOverflow(k, v) == AddBucket(k, v, INLINE_SLOTS, 1)

insert(k, v) ==
  \/ Overwrite(k, v) /\ Returns("insert", k, v, FALSE)
  \/ InsertRoom(k, v)
  \/ InsertOverflow(k, v)

(* Overwrite a value; missed is what a miss returns.                       *)
Replace(k, v, missed) ==
  \/ Overwrite(k, v) /\ Returns("update", k, v, TRUE)
  \/ /\ Hits(chain[index_of(k)], k) = {}
     /\ Returns("update", k, v, missed)
     /\ UNCHANGED <<chain, items, overflow_buckets>>

(* Mutant: a miss is reported as a hit.                                    *)
updateAlwaysTrue(k, v) == Replace(k, v, TRUE)

update(k, v) == Replace(k, v, FALSE)

remove(k) == update(k, 0)

(* bulk_load is a loop of insert.                                          *)
HNext ==
  \/ \E k \in Keys, v \in Vals \ {0} : insert(k, v) \/ update(k, v)
  \/ \E k \in Keys : remove(k)

HSpec == HInit /\ [][HNext]_hvars

(* occupancy_stats: counts over the whole array.                           *)
ChainSize(c) == SumFunction([j \in 1 .. Len(c) |-> Len(c[j])])

occupancy_stats ==
  [max_chain |-> Max({ChainSize(chain[b]) : b \in DOMAIN chain}),
   empty     |-> Cardinality({b \in DOMAIN chain : ChainSize(chain[b]) = 0}),
   total     |-> SumFunction([b \in DOMAIN chain |-> ChainSize(chain[b])])]

-----------------------------------------------------------------------------
(* Properties                                                              *)

(* Every variable has its type.                                            *)
HTypeOK ==
  /\ chain \in [0 .. nb - 1 -> Seq(Seq(Slots))]
  /\ items \in Nat
  /\ overflow_buckets \in Nat
  /\ call = <<>> \/ call.ok \in BOOLEAN

(* A key is in at most one slot, in the chain that lookup will search      *)
(* (hash_index.hpp:52-56): an update reaches what the next lookup reads.   *)
OneSlotPerKey ==
  \A b \in DOMAIN chain, k \in Keys :
    /\ Cardinality(Hits(chain[b], k)) <= 1
    /\ Hits(chain[b], k) # {} => b = index_of(k)

(* A chain has no gaps: every bucket but the last is full and no chained   *)
(* bucket is empty, so the walk to the tail (hash_index.hpp:58) skips no   *)
(* free slot and chains do not grow without need.                          *)
ChainsPacked ==
  \A b \in DOMAIN chain :
    LET c == chain[b]
    IN  /\ \A j \in 1 .. Len(c) - 1 : Len(c[j]) = INLINE_SLOTS
        /\ Len(c) > 1 => c[Len(c)] # <<>>

(* The counters that bytes() and diag() report agree with the table and    *)
(* with the statistics recomputed from it (hash_index.hpp:112-131).        *)
CountsExact ==
  LET st == occupancy_stats
  IN  /\ items = st.total
      /\ items <= st.max_chain * (nb - st.empty)
      /\ overflow_buckets =
           SumFunction([b \in DOMAIN chain |-> Len(chain[b]) - 1])

(* The table implements the index map; hash_index.hpp:1-2 promises "the    *)
(* same public surface as BPlusTree".                                      *)
Map ==
  INSTANCE KVIndex WITH
    Grows <- TRUE,
    map   <- [k \in Keys |->
                IF Hits(chain[index_of(k)], k) = {} THEN Absent ELSE lookup(k)]

HashImplementsMap == Map!Spec

=============================================================================
