--------------------------- MODULE HashIndexProofs ---------------------------
(***************************************************************************)
(* The chaining hash table for any keys, number of buckets and slots per   *)
(* bucket: the shape of its chains, that a key has one slot, and that the  *)
(* table implements the index map.  The argument is about one chain; the   *)
(* calls change at most one.                                               *)
(***************************************************************************)
EXTENDS HashIndex, SumTheorems, SequenceTheorems

(* Every bucket but the last is full, and no chained one is empty.         *)
Packed(c) ==
  /\ c \in Seq(Seq(Slots)) /\ Len(c) >= 1
  /\ \A j \in 1 .. Len(c) : Len(c[j]) <= INLINE_SLOTS
  /\ \A j \in 1 .. Len(c) - 1 : Len(c[j]) = INLINE_SLOTS
  /\ Len(c) > 1 => Len(c[Len(c)]) > 0

(* No two slots hold the same key.                                         *)
Distinct(c) ==
  \A j, l \in 1 .. Len(c) : \A s \in 1 .. Len(c[j]), t \in 1 .. Len(c[l]) :
    c[j][s].key = c[l][t].key => j = l /\ s = t

(* Every key of the chain belongs to the bucket b of the array.            *)
AtHome(b, c) ==
  \A j \in 1 .. Len(c) : \A s \in 1 .. Len(c[j]) : index_of(c[j][s].key) = b

GoodChain(b, c) == Packed(c) /\ Distinct(c) /\ AtHome(b, c)

HashInv ==
  /\ chain \in [0 .. nb - 1 -> Seq(Seq(Slots))]
  /\ \A b \in 0 .. nb - 1 : GoodChain(b, chain[b])

(* What the chain c says of the key k.                                     *)
Entry(c, k) ==
  IF Hits(c, k) = {} THEN Absent
  ELSE c[FirstHit(c, k)[1]][FirstHit(c, k)[2]].val

-----------------------------------------------------------------------------
(* There is a bucket, however many are asked for.                          *)
LEMMA BucketsPositive == nb \in Nat \ {0}
<1>1. PICK e \in 0 .. bucket_count : nb = Pow2[e]
  BY Zenon, HashAssumption, Pow2Ceil DEF nb
<1>2. e \in Nat
  BY HashAssumption
<1>3. Pow2[e] \in Nat /\ Pow2[e] >= 1
  BY Zenon, <1>2, Pow2Doubles, Pow2Grows
<1> QED
  BY <1>1, <1>3

(* The hash of a key is a bucket of the array.                             *)
LEMMA IndexInRange == \A k \in Keys : index_of(k) \in 0 .. nb - 1
  BY HashAssumption, BucketsPositive DEF index_of

(* The walk over the chain stops at its last bucket.                       *)
LEMMA TailIsLast ==
  ASSUME NEW c, Packed(c)
  PROVE  TailOf(c) = Len(c)
<1> DEFINE P(j) == /\ \A g \in 1 .. j - 1 : Len(c[g]) = INLINE_SLOTS
                   /\ Len(c[j]) < INLINE_SLOTS \/ j = Len(c)
<1>1. Len(c) \in 1 .. Len(c) /\ P(Len(c))
  BY DEF Packed
<1>2. ASSUME NEW j \in 1 .. Len(c), P(j) PROVE j = Len(c)
  BY <1>2, HashAssumption DEF Packed
<1>3. TailOf(c) = CHOOSE j \in 1 .. Len(c) : P(j)
  BY DEF TailOf
<1> HIDE DEF P
<1> QED
  BY <1>1, <1>2, <1>3

(* A hit is a slot in use with the key, and it is the only one.            *)
LEMMA HitFacts ==
  ASSUME NEW c, Packed(c), Distinct(c), NEW k
  PROVE  /\ \A j \in 1 .. Len(c) : \A s \in 1 .. Len(c[j]) :
              c[j][s].key = k => /\ Hits(c, k) = {<<j, s>>}
                                 /\ FirstHit(c, k) = <<j, s>>
         /\ Hits(c, k) # {} =>
              \E j \in 1 .. Len(c) : \E s \in 1 .. Len(c[j]) : c[j][s].key = k
<1>1. ASSUME NEW h \in Hits(c, k)
      PROVE  /\ h = <<h[1], h[2]>>
             /\ h[1] \in 1 .. Len(c) /\ h[2] \in 1 .. Len(c[h[1]]) /\ c[h[1]][h[2]].key = k
  BY DEF Hits, Packed
<1>2. ASSUME NEW j \in 1 .. Len(c), NEW s \in 1 .. Len(c[j]), c[j][s].key = k
      PROVE  Hits(c, k) = {<<j, s>>} /\ FirstHit(c, k) = <<j, s>>
  <2>1. <<j, s>> \in Hits(c, k)
    BY SMTT(60), <1>2, HashAssumption DEF Hits, Packed
  <2>2. Hits(c, k) = {<<j, s>>}
    BY SMTT(30), <1>1, <1>2, <2>1 DEF Distinct
  <2>3. FirstHit(c, k) = CHOOSE h \in {<<j, s>>} :
          \A g \in {<<j, s>>} : h[1] < g[1] \/ (h[1] = g[1] /\ h[2] <= g[2])
    BY <2>2 DEF FirstHit
  <2>4. s <= s
    BY DEF Packed
  <2> QED
    BY <2>2, <2>3, <2>4
<1> QED
  BY <1>1, <1>2

(* Without a hit no slot holds the key.                                    *)
LEMMA NoHit ==
  ASSUME NEW c, Packed(c), Distinct(c), NEW k, Hits(c, k) = {}
  PROVE  \A l \in 1 .. Len(c) : \A t \in 1 .. Len(c[l]) : c[l][t].key # k
<1> SUFFICES ASSUME NEW l \in 1 .. Len(c), NEW t \in 1 .. Len(c[l]), c[l][t].key = k
             PROVE  FALSE
  OBVIOUS
<1>1. Hits(c, k) = {<<l, t>>}
  BY SMTT(30), HitFacts
<1> QED
  BY Zenon, <1>1

(* The entry of a key is the value in its slot, and Absent without one.    *)
LEMMA EntryFacts ==
  ASSUME NEW c, Packed(c), Distinct(c), NEW k
  PROVE  /\ \A j \in 1 .. Len(c) : \A s \in 1 .. Len(c[j]) :
              c[j][s].key = k => Entry(c, k) = c[j][s].val
         /\ (\A j \in 1 .. Len(c) : \A s \in 1 .. Len(c[j]) : c[j][s].key # k)
              => Hits(c, k) = {} /\ Entry(c, k) = Absent
<1>1. ASSUME NEW j \in 1 .. Len(c), NEW s \in 1 .. Len(c[j]), c[j][s].key = k
      PROVE  Entry(c, k) = c[j][s].val
  <2>1. Hits(c, k) = {<<j, s>>} /\ FirstHit(c, k) = <<j, s>>
    BY <1>1, HitFacts
  <2> QED
    BY <2>1 DEF Entry
<1>2. Hits(c, k) = {} => Entry(c, k) = Absent
  BY DEF Entry
<1> QED
  BY <1>1, <1>2, HitFacts

(* The key k has the same slots and values in the two chains.              *)
SlotsAgree(c, d, k) ==
  /\ \A j \in 1 .. Len(c) : \A s \in 1 .. Len(c[j]) :
       c[j][s].key = k =>
         /\ j \in 1 .. Len(d) /\ s \in 1 .. Len(d[j])
         /\ d[j][s].key = k /\ d[j][s].val = c[j][s].val
  /\ \A j \in 1 .. Len(d) : \A s \in 1 .. Len(d[j]) :
       d[j][s].key = k =>
         j \in 1 .. Len(c) /\ s \in 1 .. Len(c[j]) /\ c[j][s].key = k

(* It then has the same entry.                                             *)
LEMMA SameEntry ==
  ASSUME NEW c, NEW d, Packed(c), Distinct(c), Packed(d), Distinct(d), NEW k,
         SlotsAgree(c, d, k)
  PROVE  Entry(d, k) = Entry(c, k)
<1>1. CASE \E j \in 1 .. Len(c) : \E s \in 1 .. Len(c[j]) : c[j][s].key = k
  <2> PICK j \in 1 .. Len(c) : \E s \in 1 .. Len(c[j]) : c[j][s].key = k
    BY Zenon, <1>1
  <2> PICK s \in 1 .. Len(c[j]) : c[j][s].key = k
    OBVIOUS
  <2>1. Entry(c, k) = c[j][s].val
    BY EntryFacts
  <2>2. j \in 1 .. Len(d) /\ s \in 1 .. Len(d[j]) /\ d[j][s].key = k /\ d[j][s].val = c[j][s].val
    BY DEF SlotsAgree
  <2>3. Entry(d, k) = d[j][s].val
    BY <2>2, EntryFacts
  <2> QED
    BY <2>1, <2>2, <2>3
<1>2. CASE \A j \in 1 .. Len(c) : \A s \in 1 .. Len(c[j]) : c[j][s].key # k
  <2>1. Entry(c, k) = Absent
    BY Zenon, <1>2, EntryFacts
  <2>2. \A j \in 1 .. Len(d) : \A s \in 1 .. Len(d[j]) : d[j][s].key # k
    BY Zenon, <1>2 DEF SlotsAgree
  <2> QED
    BY <2>1, <2>2, EntryFacts
<1> QED
  BY <1>1, <1>2

-----------------------------------------------------------------------------
(* A chain with the same keys in the same places is as good.               *)
LEMMA KeysKept ==
  ASSUME NEW b, NEW c, NEW d, GoodChain(b, c), d \in Seq(Seq(Slots)), Len(d) = Len(c),
         \A l \in 1 .. Len(c) : Len(d[l]) = Len(c[l]),
         \A l \in 1 .. Len(c) : \A t \in 1 .. Len(c[l]) : d[l][t].key = c[l][t].key
  PROVE  GoodChain(b, d)
<1>1. Packed(d)
  BY SMTT(30) DEF GoodChain, Packed
<1>2. Distinct(d)
  <2> SUFFICES ASSUME NEW i \in 1 .. Len(d), NEW l \in 1 .. Len(d),
                      NEW t \in 1 .. Len(d[i]), NEW u \in 1 .. Len(d[l]),
                      d[i][t].key = d[l][u].key
               PROVE  i = l /\ t = u
    BY Zenon DEF Distinct
  <2>1. c[i][t].key = c[l][u].key
    BY ZenonT(60)
  <2> QED
    BY SMTT(60), <2>1 DEF GoodChain, Distinct
<1>3. AtHome(b, d)
  <2> SUFFICES ASSUME NEW i \in 1 .. Len(d), NEW t \in 1 .. Len(d[i])
               PROVE  index_of(d[i][t].key) = b
    BY Zenon DEF AtHome
  <2>1. i \in 1 .. Len(c) /\ t \in 1 .. Len(c[i]) /\ d[i][t].key = c[i][t].key
    BY Zenon
  <2> QED
    BY <2>1 DEF GoodChain, AtHome
<1> QED
  BY <1>1, <1>2, <1>3 DEF GoodChain

(* A value is overwritten in place.                                        *)
Revalued(c, k, v) == [c EXCEPT ![FirstHit(c, k)[1]][FirstHit(c, k)[2]].val = v]

(* It leaves the keys where they are and changes one entry.                *)
LEMMA SetValue ==
  ASSUME NEW b, NEW c, GoodChain(b, c), NEW k \in Keys, NEW v \in Vals, Hits(c, k) # {},
         NEW d, d = Revalued(c, k, v)
  PROVE  /\ GoodChain(b, d)
         /\ Entry(d, k) = v
         /\ \A x : x # k => Entry(d, x) = Entry(c, x)
         /\ Len(d) = Len(c) /\ \A l \in 1 .. Len(c) : Len(d[l]) = Len(c[l])
<1> PICK j \in 1 .. Len(c) : \E s \in 1 .. Len(c[j]) : c[j][s].key = k
  BY HitFacts DEF GoodChain
<1> PICK s \in 1 .. Len(c[j]) : c[j][s].key = k
  OBVIOUS
<1>1. FirstHit(c, k) = <<j, s>>
  BY SMTT(30), HitFacts DEF GoodChain
<1>2. c \in Seq(Seq(Slots)) /\ c[j] \in Seq(Slots) /\ c[j][s] \in Slots
  BY DEF GoodChain, Packed
<1> DEFINE e == [c[j][s] EXCEPT !.val = v]
           f == [c[j] EXCEPT ![s] = e]
<1>3. e \in Slots /\ e.key = k /\ e.val = v
  BY Zenon, <1>2 DEF Slots
<1> HIDE DEF e
<1>4. /\ f \in Seq(Slots) /\ Len(f) = Len(c[j])
      /\ \A t \in 1 .. Len(c[j]) : f[t] = IF t = s THEN e ELSE c[j][t]
  BY <1>2, <1>3, ExceptSeq
<1>5. d = [c EXCEPT ![j] = f]
  BY <1>1 DEF e, Revalued
<1> HIDE DEF f
<1>6. /\ d \in Seq(Seq(Slots)) /\ Len(d) = Len(c)
      /\ \A l \in 1 .. Len(c) : d[l] = IF l = j THEN f ELSE c[l]
  BY SMTT(30), <1>2, <1>4, <1>5, ExceptSeq
<1>7. \A l \in 1 .. Len(c) : Len(d[l]) = Len(c[l])
  BY Zenon, <1>4, <1>6
<1>8. ASSUME NEW l \in 1 .. Len(c), NEW t \in 1 .. Len(c[l])
      PROVE  d[l][t].key = c[l][t].key /\ (c[l][t].key # k => d[l][t].val = c[l][t].val)
  <2>1. CASE l = j /\ t = s
    BY Zenon, <1>3, <1>4, <1>6, <2>1
  <2>2. CASE l = j /\ t # s
    BY Zenon, <1>4, <1>6, <2>2
  <2>3. CASE l # j
    BY Zenon, <1>6, <2>3
  <2> QED
    BY Zenon, <2>1, <2>2, <2>3
<1>9. d[j][s].key = k /\ d[j][s].val = v
  BY Zenon, <1>3, <1>4, <1>6
<1>10. GoodChain(b, d)
  BY Zenon, <1>6, <1>7, <1>8, KeysKept
<1>11. Packed(c) /\ Distinct(c) /\ Packed(d) /\ Distinct(d)
  BY Zenon, <1>10 DEF GoodChain
<1>12. Entry(d, k) = v
  <2>1. j \in 1 .. Len(d) /\ s \in 1 .. Len(d[j])
    BY Zenon, <1>6, <1>7
  <2> QED
    BY SMTT(30), <1>9, <1>11, <2>1, EntryFacts
<1>13. ASSUME NEW x, x # k PROVE Entry(d, x) = Entry(c, x)
  <2>1. \A l \in 1 .. Len(c) : \A t \in 1 .. Len(c[l]) :
          c[l][t].key = x =>
            /\ l \in 1 .. Len(d) /\ t \in 1 .. Len(d[l])
            /\ d[l][t].key = x /\ d[l][t].val = c[l][t].val
    BY Zenon, <1>6, <1>7, <1>8, <1>13
  <2>2. \A l \in 1 .. Len(d) : \A t \in 1 .. Len(d[l]) :
          d[l][t].key = x =>
            l \in 1 .. Len(c) /\ t \in 1 .. Len(c[l]) /\ c[l][t].key = x
    BY SMTT(30), <1>6, <1>7, <1>8
  <2>3. SlotsAgree(c, d, x)
    BY Zenon, <2>1, <2>2 DEF SlotsAgree
  <2> QED
    BY <1>11, <2>3, SameEntry
<1> QED
  BY <1>6, <1>7, <1>10, <1>12, <1>13

(* The chain d has the slots of c and the slot s of its bucket j.          *)
OneMore(c, d, j, s) ==
  /\ \A l \in 1 .. Len(c) : \A t \in 1 .. Len(c[l]) :
       l \in 1 .. Len(d) /\ t \in 1 .. Len(d[l]) /\ d[l][t] = c[l][t]
  /\ \A l \in 1 .. Len(d) : \A t \in 1 .. Len(d[l]) :
       (l = j /\ t = s) \/ (l \in 1 .. Len(c) /\ t \in 1 .. Len(c[l]))

(* A chain with one more key, in a slot of its own.                        *)
LEMMA KeyAdded ==
  ASSUME NEW b, NEW c, NEW d, GoodChain(b, c), Packed(d),
         NEW k \in Keys, NEW v \in Vals, index_of(k) = b, Hits(c, k) = {},
         NEW j \in 1 .. Len(d), NEW s \in 1 .. Len(d[j]),
         d[j][s].key = k, d[j][s].val = v, OneMore(c, d, j, s)
  PROVE  /\ GoodChain(b, d)
         /\ Entry(d, k) = v
         /\ \A x : x # k => Entry(d, x) = Entry(c, x)
<1>1. Packed(c) /\ Distinct(c) /\ AtHome(b, c)
  BY Zenon DEF GoodChain
<1>2. \A l \in 1 .. Len(c) : \A t \in 1 .. Len(c[l]) : c[l][t].key # k
  BY Zenon, <1>1, NoHit
<1>3. Distinct(d)
  <2> SUFFICES ASSUME NEW i \in 1 .. Len(d), NEW l \in 1 .. Len(d),
                      NEW t \in 1 .. Len(d[i]), NEW u \in 1 .. Len(d[l]),
                      d[i][t].key = d[l][u].key
               PROVE  i = l /\ t = u
    BY Zenon DEF Distinct
  <2>1. ASSUME NEW p \in 1 .. Len(d), NEW w \in 1 .. Len(d[p]), d[p][w].key = k
        PROVE  p = j /\ w = s
    <3>1. CASE p \in 1 .. Len(c) /\ w \in 1 .. Len(c[p])
      <4>1. d[p][w] = c[p][w] /\ c[p][w].key # k
        BY Zenon, <1>2, <3>1 DEF OneMore
      <4> QED
        BY Zenon, <2>1, <4>1
    <3> QED
      BY Zenon, <3>1 DEF OneMore
  <2>2. CASE ~(i = j /\ t = s) /\ ~(l = j /\ u = s)
    <3>1. i \in 1 .. Len(c) /\ t \in 1 .. Len(c[i]) /\ l \in 1 .. Len(c) /\ u \in 1 .. Len(c[l])
      BY Zenon, <2>2 DEF OneMore
    <3>2. c[i][t].key = c[l][u].key
      BY Zenon, <3>1 DEF OneMore
    <3>3. Distinct(c)
      BY Zenon, <1>1
    <3> QED
      BY SMTT(60), <3>1, <3>2, <3>3 DEF Distinct
  <2>3. CASE i = j /\ t = s
    BY Zenon, <2>1, <2>3
  <2>4. CASE l = j /\ u = s
    BY Zenon, <2>1, <2>4
  <2> QED
    BY Zenon, <2>2, <2>3, <2>4
<1>4. AtHome(b, d)
  <2> SUFFICES ASSUME NEW i \in 1 .. Len(d), NEW t \in 1 .. Len(d[i])
               PROVE  index_of(d[i][t].key) = b
    BY Zenon DEF AtHome
  <2>1. CASE i = j /\ t = s
    BY <2>1
  <2>2. CASE i \in 1 .. Len(c) /\ t \in 1 .. Len(c[i])
    BY ZenonT(60), <1>1, <2>2 DEF AtHome, OneMore
  <2> QED
    BY Zenon, <2>1, <2>2 DEF OneMore
<1>5. Entry(d, k) = v
  BY Zenon, <1>3, EntryFacts
<1>6. ASSUME NEW x, x # k PROVE Entry(d, x) = Entry(c, x)
  <2>1. \A l \in 1 .. Len(c) : \A t \in 1 .. Len(c[l]) :
          c[l][t].key = x =>
            /\ l \in 1 .. Len(d) /\ t \in 1 .. Len(d[l])
            /\ d[l][t].key = x /\ d[l][t].val = c[l][t].val
    BY Zenon DEF OneMore
  <2>2. \A l \in 1 .. Len(d) : \A t \in 1 .. Len(d[l]) :
          d[l][t].key = x =>
            l \in 1 .. Len(c) /\ t \in 1 .. Len(c[l]) /\ c[l][t].key = x
    BY Zenon, <1>6 DEF OneMore
  <2>3. SlotsAgree(c, d, x)
    BY Zenon, <2>1, <2>2 DEF SlotsAgree
  <2> QED
    BY Zenon, <1>1, <1>3, <2>3, SameEntry
<1> QED
  BY Zenon, <1>3, <1>4, <1>5, <1>6 DEF GoodChain

(* A slot is added to the last bucket, which has room.                     *)
SlotAdded(c, k, v) == [c EXCEPT ![Len(c)] = Append(@, [key |-> k, val |-> v])]

(* The key is then in it, and every other entry is what it was.            *)
LEMMA AddToTail ==
  ASSUME NEW b, NEW c, GoodChain(b, c), NEW k \in Keys, NEW v \in Vals, index_of(k) = b,
         Hits(c, k) = {}, Len(c[Len(c)]) < INLINE_SLOTS
  PROVE  /\ GoodChain(b, SlotAdded(c, k, v))
         /\ Entry(SlotAdded(c, k, v), k) = v
         /\ \A x : x # k => Entry(SlotAdded(c, k, v), x) = Entry(c, x)
         /\ Len(SlotAdded(c, k, v)) = Len(c)
         /\ Len(SlotAdded(c, k, v)[Len(c)]) = Len(c[Len(c)]) + 1
         /\ \A l \in 1 .. Len(c) :
              l # Len(c) => Len(SlotAdded(c, k, v)[l]) = Len(c[l])
<1> DEFINE m == Len(c)
           e == [key |-> k, val |-> v]
           f == Append(c[m], e)
           d == SlotAdded(c, k, v)
<1>1. c \in Seq(Seq(Slots)) /\ m \in Nat /\ m >= 1 /\ m \in 1 .. Len(c) /\ c[m] \in Seq(Slots)
  BY DEF GoodChain, Packed
<1>2. e \in Slots /\ e.key = k /\ e.val = v
  BY DEF Slots
<1> HIDE DEF e
<1>3. /\ f \in Seq(Slots) /\ Len(f) = Len(c[m]) + 1 /\ f[Len(c[m]) + 1] = e
      /\ \A t \in 1 .. Len(c[m]) : f[t] = c[m][t]
  BY <1>1, <1>2
<1>4. d = [c EXCEPT ![m] = f]
  BY Zenon DEF SlotAdded, e
<1> HIDE DEF f, d
<1>5. /\ d \in Seq(Seq(Slots)) /\ Len(d) = m
      /\ \A l \in 1 .. m : d[l] = IF l = m THEN f ELSE c[l]
  BY <1>1, <1>3, <1>4, ExceptSeq
<1> DEFINE q == Len(c[m]) + 1
<1>6. /\ q \in Nat /\ q >= 1 /\ d[m] = f /\ Len(d[m]) = q /\ m \in 1 .. Len(d)
      /\ \A l \in 1 .. m : l # m => d[l] = c[l]
  BY SMTT(30), <1>1, <1>3, <1>5
<1>7. Packed(d)
  <2>1. ASSUME NEW l \in 1 .. m, l # m PROVE Len(d[l]) = INLINE_SLOTS
    BY SMTT(30), <1>1, <1>6, <2>1 DEF GoodChain, Packed
  <2>2. Len(d[m]) <= INLINE_SLOTS
    BY <1>1, <1>6, HashAssumption
  <2>3. \A l \in 1 .. m : Len(d[l]) <= INLINE_SLOTS
    BY <2>1, <2>2, HashAssumption
  <2>4. \A l \in 1 .. m - 1 : Len(d[l]) = INLINE_SLOTS
    BY <1>1, <2>1
  <2>5. Len(d[m]) > 0
    BY <1>6
  <2> HIDE DEF m, q
  <2> QED
    BY Zenon, <1>1, <1>5, <2>3, <2>4, <2>5 DEF Packed
<1>8. q \in 1 .. Len(d[m]) /\ d[m][q].key = k /\ d[m][q].val = v
  BY <1>2, <1>3, <1>6
<1>9. ASSUME NEW l \in 1 .. Len(c), NEW t \in 1 .. Len(c[l])
      PROVE  l \in 1 .. Len(d) /\ t \in 1 .. Len(d[l]) /\ d[l][t] = c[l][t]
  <2>1. CASE l = m
    BY SMTT(30), <1>1, <1>3, <1>5, <1>6, <2>1
  <2>2. CASE l # m
    BY Zenon, <1>5, <1>6, <2>2
  <2> QED
    BY Zenon, <2>1, <2>2
<1>10. ASSUME NEW l \in 1 .. Len(d), NEW t \in 1 .. Len(d[l])
       PROVE  (l = m /\ t = q) \/ (l \in 1 .. Len(c) /\ t \in 1 .. Len(c[l]))
  <2>1. CASE l = m
    BY <1>1, <1>5, <1>6, <2>1
  <2>2. CASE l # m
    BY Zenon, <1>5, <1>6, <2>2
  <2> QED
    BY Zenon, <2>1, <2>2
<1>11. OneMore(c, d, m, q)
  BY Zenon, <1>9, <1>10 DEF OneMore
<1>12. /\ Len(d) = Len(c) /\ Len(d[Len(c)]) = Len(c[Len(c)]) + 1
       /\ \A l \in 1 .. Len(c) : l # Len(c) => Len(d[l]) = Len(c[l])
  BY Zenon, <1>1, <1>5, <1>6
<1> HIDE DEF m, q
<1>13. GoodChain(b, d) /\ Entry(d, k) = v /\ \A x : x # k => Entry(d, x) = Entry(c, x)
  BY SMTT(30), <1>6, <1>7, <1>8, <1>11, KeyAdded
<1> QED
  BY Zenon, <1>12, <1>13 DEF d

(* A bucket is chained behind the last one, which is full.                 *)
BucketAdded(c, k, v) == Append(c, <<[key |-> k, val |-> v]>>)

(* The key is then in it, and every other entry is what it was.            *)
LEMMA AddToChain ==
  ASSUME NEW b, NEW c, GoodChain(b, c), NEW k \in Keys, NEW v \in Vals, index_of(k) = b,
         Hits(c, k) = {}, Len(c[Len(c)]) >= INLINE_SLOTS
  PROVE  /\ GoodChain(b, BucketAdded(c, k, v))
         /\ Entry(BucketAdded(c, k, v), k) = v
         /\ \A x : x # k => Entry(BucketAdded(c, k, v), x) = Entry(c, x)
         /\ Len(BucketAdded(c, k, v)) = Len(c) + 1
         /\ \A l \in 1 .. Len(c) : Len(BucketAdded(c, k, v)[l]) = Len(c[l])
         /\ Len(BucketAdded(c, k, v)[Len(c) + 1]) >= 1
         /\ Len(BucketAdded(c, k, v)[Len(c) + 1]) <= 1
<1> DEFINE m == Len(c)
           e == [key |-> k, val |-> v]
           f == <<e>>
           d == BucketAdded(c, k, v)
<1>1. c \in Seq(Seq(Slots)) /\ m \in Nat /\ m >= 1 /\ c[m] \in Seq(Slots)
  BY DEF GoodChain, Packed
<1>2. e \in Slots /\ e.key = k /\ e.val = v
  BY DEF Slots
<1> HIDE DEF e
<1> DEFINE u == 1
<1>3. /\ f \in Seq(Slots) /\ f[u] = e
      /\ Len(f) \in Nat /\ Len(f) >= u /\ Len(f) <= u
  BY <1>2
<1>4. d = Append(c, f)
  BY DEF BucketAdded, e
<1> HIDE DEF f, d
<1> DEFINE q == m + 1
<1>5. /\ d \in Seq(Seq(Slots)) /\ Len(d) = q /\ d[q] = f
      /\ \A l \in 1 .. m : d[l] = c[l]
  BY <1>1, <1>3, <1>4, AppendProperties
<1>6. /\ q \in Nat /\ q = m + 1 /\ q \in 1 .. Len(d) /\ Len(c) = m
      /\ Len(d[q]) \in Nat /\ Len(d[q]) >= u /\ Len(d[q]) <= u /\ u = 1
  BY <1>1, <1>3, <1>5
<1>7. \A l \in 1 .. m : Len(d[l]) = INLINE_SLOTS
  <2>1. Packed(c)
    BY Zenon DEF GoodChain
  <2>2. \A l \in 1 .. m : l = m \/ l \in 1 .. m - 1
    BY <1>1
  <2>3. \A l \in 1 .. m - 1 : Len(c[l]) = INLINE_SLOTS
    BY Zenon, <2>1 DEF Packed
  <2>4. Len(c[m]) = INLINE_SLOTS
    BY <1>1, <2>1, HashAssumption DEF Packed
  <2> QED
    BY Zenon, <1>5, <2>2, <2>3, <2>4
<1> HIDE DEF m, q, u
<1>8. Packed(d)
  <2>1. \A l \in 1 .. Len(d) : l = q \/ l \in 1 .. m
    BY <1>1, <1>5, <1>6
  <2>2. \A l \in 1 .. Len(d) - 1 : l \in 1 .. m
    BY <1>1, <1>5, <1>6
  <2>3. \A l \in 1 .. Len(d) : Len(d[l]) <= INLINE_SLOTS
    BY SMTT(30), <1>6, <1>7, <2>1, HashAssumption
  <2>4. \A l \in 1 .. Len(d) - 1 : Len(d[l]) = INLINE_SLOTS
    BY Zenon, <1>7, <2>2
  <2>5. Len(d) >= 1 /\ Len(d[Len(d)]) > 0
    BY <1>1, <1>5, <1>6
  <2> QED
    BY Zenon, <1>5, <2>3, <2>4, <2>5 DEF Packed
<1>9. u \in 1 .. Len(d[q]) /\ d[q][u].key = k /\ d[q][u].val = v
  BY <1>2, <1>3, <1>5, <1>6
<1>10. OneMore(c, d, q, u)
  <2>1. ASSUME NEW l \in 1 .. Len(c), NEW t \in 1 .. Len(c[l])
        PROVE  l \in 1 .. Len(d) /\ t \in 1 .. Len(d[l]) /\ d[l][t] = c[l][t]
    BY <1>1, <1>5, <1>6
  <2>2. ASSUME NEW l \in 1 .. Len(d), NEW t \in 1 .. Len(d[l])
        PROVE  (l = q /\ t = u) \/ (l \in 1 .. Len(c) /\ t \in 1 .. Len(c[l]))
    <3>1. CASE l = q
      BY <1>6, <3>1
    <3>2. CASE l # q
      BY <1>1, <1>5, <1>6, <3>2
    <3> QED
      BY Zenon, <3>1, <3>2
  <2> QED
    BY Zenon, <2>1, <2>2 DEF OneMore
<1>11. q \in 1 .. Len(d)
  BY Zenon, <1>6
<1>12. GoodChain(b, d) /\ Entry(d, k) = v /\ \A x : x # k => Entry(d, x) = Entry(c, x)
  BY SMTT(30), <1>8, <1>9, <1>10, <1>11, KeyAdded
<1>13. \A l \in 1 .. Len(c) : Len(d[l]) = Len(c[l])
  BY Zenon, <1>5, <1>6
<1>14. Len(d) = Len(c) + 1 /\ Len(d[Len(c) + 1]) >= 1 /\ Len(d[Len(c) + 1]) <= 1
  BY Zenon, <1>5, <1>6
<1> QED
  BY Zenon, <1>12, <1>13, <1>14 DEF d

-----------------------------------------------------------------------------
(* The table as a map.                                                     *)
Table == [k \in Keys |-> Entry(chain[index_of(k)], k)]

(* The chain of the key k is replaced by d, where k has the value v and    *)
(* the other keys have what they had.                                      *)
LEMMA ChainChanges ==
  ASSUME HashInv, NEW k \in Keys, NEW v \in Vals, NEW d,
         chain' = [chain EXCEPT ![index_of(k)] = d], GoodChain(index_of(k), d),
         Entry(d, k) = v,
         \A x : x # k => Entry(d, x) = Entry(chain[index_of(k)], x)
  PROVE  HashInv' /\ Table' = [Table EXCEPT ![k] = v]
<1>1. index_of(k) \in 0 .. nb - 1 /\ \A x \in Keys : index_of(x) \in 0 .. nb - 1
  BY Zenon, IndexInRange
<1>2. d \in Seq(Seq(Slots))
  BY Zenon DEF GoodChain, Packed
<1>3. \A b \in 0 .. nb - 1 : chain'[b] = IF b = index_of(k) THEN d ELSE chain[b]
  BY <1>1 DEF HashInv
<1>4. HashInv'
  <2>1. chain' \in [0 .. nb - 1 -> Seq(Seq(Slots))]
    BY Zenon, <1>2 DEF HashInv
  <2>2. \A b \in 0 .. nb - 1 : GoodChain(b, chain'[b])
    BY Zenon, <1>3 DEF HashInv
  <2> QED
    BY Zenon, <2>1, <2>2 DEF HashInv
<1>5. ASSUME NEW x \in Keys
      PROVE  Entry(chain'[index_of(x)], x) =
               IF x = k THEN v ELSE Entry(chain[index_of(x)], x)
  <2>1. CASE index_of(x) = index_of(k)
    BY <1>1, <1>3, <2>1
  <2>2. CASE index_of(x) # index_of(k)
    BY <1>1, <1>3, <2>2
  <2> QED
    BY Zenon, <2>1, <2>2
<1>6. Table' = [x \in Keys |-> IF x = k THEN v ELSE Entry(chain[index_of(x)], x)]
  BY Zenon, <1>5 DEF Table
<1> QED
  BY Zenon, <1>4, <1>6 DEF Table

(* What a key's chain says: Absent exactly without a hit.                  *)
LEMMA AbsentMeansNoHit ==
  ASSUME HashInv, NEW k \in Keys
  PROVE  /\ GoodChain(index_of(k), chain[index_of(k)])
         /\ Table[k] = Absent <=> Hits(chain[index_of(k)], k) = {}
<1> DEFINE c == chain[index_of(k)]
<1>1. GoodChain(index_of(k), c)
  BY Zenon, IndexInRange DEF HashInv
<1>2. Packed(c) /\ Distinct(c)
  BY <1>1 DEF GoodChain
<1>3. Table[k] = Entry(c, k)
  BY DEF Table
<1> HIDE DEF c
<1>4. Hits(c, k) = {} => Entry(c, k) = Absent
  BY DEF Entry
<1>5. ASSUME Hits(c, k) # {} PROVE Entry(c, k) \in Vals
  <2>1. PICK j \in 1 .. Len(c) : \E s \in 1 .. Len(c[j]) : c[j][s].key = k
    BY <1>2, <1>5, HitFacts
  <2>2. PICK s \in 1 .. Len(c[j]) : c[j][s].key = k
    BY Zenon, <2>1
  <2>3. Entry(c, k) = c[j][s].val
    BY Zenon, <1>2, <2>2, EntryFacts
  <2>4. c[j] \in Seq(Slots)
    BY <1>2 DEF Packed
  <2>5. c[j][s] \in Slots
    BY <2>4
  <2> QED
    BY <2>3, <2>5 DEF Slots
<1> QED
  BY <1>1, <1>3, <1>4, <1>5, HashAssumption DEF c

(* A key that is found gets a new value.                                   *)
LEMMA OverwriteStep ==
  ASSUME HashInv, NEW k \in Keys, NEW v \in Vals, Overwrite(k, v)
  PROVE  HashInv' /\ Table' = [Table EXCEPT ![k] = v] /\ Table[k] # Absent
<1> DEFINE b == index_of(k)
           d == Revalued(chain[b], k, v)
<1>1. GoodChain(b, chain[b]) /\ Hits(chain[b], k) # {} /\ Table[k] # Absent
  BY Zenon, AbsentMeansNoHit DEF Overwrite
<1>2. chain' = [chain EXCEPT ![b] = d]
  BY Zenon DEF Overwrite, Revalued
<1>3. GoodChain(b, d) /\ Entry(d, k) = v /\ \A x : x # k => Entry(d, x) = Entry(chain[b], x)
  BY <1>1, SetValue
<1> HIDE DEF d
<1>4. HashInv' /\ Table' = [Table EXCEPT ![k] = v]
  BY Zenon, <1>2, <1>3, ChainChanges
<1> QED
  BY Zenon, <1>1, <1>4

(* A key that is not found gets a slot in the last bucket of its chain, or *)
(* in a new one behind it.                                                 *)
LEMMA AddStep ==
  ASSUME HashInv, NEW k \in Keys, NEW v \in Vals, InsertRoom(k, v) \/ InsertOverflow(k, v)
  PROVE  HashInv' /\ Table' = [Table EXCEPT ![k] = v] /\ Table[k] = Absent
<1> DEFINE b == index_of(k)
           c == chain[b]
<1>1. GoodChain(b, c) /\ Hits(c, k) = {} /\ Table[k] = Absent
  BY Zenon, AbsentMeansNoHit DEF InsertRoom, AddSlot, InsertOverflow, AddBucket
<1>2. TailOf(c) = Len(c)
  BY Zenon, <1>1, TailIsLast DEF GoodChain
<1>3. CASE InsertRoom(k, v)
  <2> DEFINE d == SlotAdded(c, k, v)
  <2>1. Len(c[Len(c)]) < INLINE_SLOTS /\ chain' = [chain EXCEPT ![b] = d]
    BY Zenon, <1>2, <1>3 DEF InsertRoom, AddSlot, SlotAdded
  <2>2. GoodChain(b, d) /\ Entry(d, k) = v /\ \A x : x # k => Entry(d, x) = Entry(c, x)
    BY <1>1, <2>1, AddToTail
  <2> HIDE DEF d
  <2> QED
    BY Zenon, <1>1, <2>1, <2>2, ChainChanges
<1>4. CASE InsertOverflow(k, v)
  <2> DEFINE d == BucketAdded(c, k, v)
  <2>1. Len(c[Len(c)]) >= INLINE_SLOTS /\ chain' = [chain EXCEPT ![b] = d]
    BY Zenon, <1>2, <1>4 DEF InsertOverflow, AddBucket, BucketAdded
  <2>2. GoodChain(b, d) /\ Entry(d, k) = v /\ \A x : x # k => Entry(d, x) = Entry(c, x)
    BY <1>1, <2>1, AddToChain
  <2> HIDE DEF d
  <2> QED
    BY Zenon, <1>1, <2>1, <2>2, ChainChanges
<1> QED
  BY Zenon, <1>3, <1>4

-----------------------------------------------------------------------------
(* A call of the table: what it returns and what it does to the map.       *)
LEMMA CallStep ==
  ASSUME HashInv, NEW k \in Keys, NEW v \in Vals, insert(k, v) \/ update(k, v)
  PROVE  /\ HashInv'
         /\ call' \in Map!Calls
         /\ \/ /\ call'.op = "insert" /\ call'.ok = (Table[call'.key] = Absent)
               /\ Table' = [Table EXCEPT ![call'.key] = call'.val]
            \/ /\ call'.op = "update" /\ call'.ok = (Table[call'.key] # Absent)
               /\ Table' = IF call'.ok THEN [Table EXCEPT ![call'.key] = call'.val] ELSE Table
<1>1. CASE Overwrite(k, v) /\ Returns("insert", k, v, FALSE)
  <2>1. HashInv' /\ Table' = [Table EXCEPT ![k] = v] /\ Table[k] # Absent
    BY Zenon, <1>1, OverwriteStep
  <2> QED
    BY Zenon, <1>1, <2>1 DEF Returns, Map!Calls
<1>2. CASE InsertRoom(k, v) \/ InsertOverflow(k, v)
  <2>1. HashInv' /\ Table' = [Table EXCEPT ![k] = v] /\ Table[k] = Absent
    BY Zenon, <1>2, AddStep
  <2>2. Returns("insert", k, v, TRUE)
    BY Zenon, <1>2 DEF InsertRoom, AddSlot, InsertOverflow, AddBucket
  <2> QED
    BY Zenon, <2>1, <2>2 DEF Returns, Map!Calls
<1>3. CASE Overwrite(k, v) /\ Returns("update", k, v, TRUE)
  <2>1. HashInv' /\ Table' = [Table EXCEPT ![k] = v] /\ Table[k] # Absent
    BY Zenon, <1>3, OverwriteStep
  <2> QED
    BY Zenon, <1>3, <2>1 DEF Returns, Map!Calls
<1>4. CASE /\ Hits(chain[index_of(k)], k) = {} /\ Returns("update", k, v, FALSE)
           /\ UNCHANGED <<chain, items, overflow_buckets>>
  <2>1. Table[k] = Absent
    BY Zenon, <1>4, AbsentMeansNoHit
  <2>2. HashInv' /\ Table' = Table
    BY Zenon, <1>4 DEF HashInv, Table
  <2> QED
    BY Zenon, <1>4, <2>1, <2>2 DEF Returns, Map!Calls
<1> QED
  BY Zenon, <1>1, <1>2, <1>3, <1>4 DEF insert, update, Replace

(* Every step of the table is such a call.                                 *)
LEMMA NextIsCall ==
  ASSUME HNext
  PROVE  \E k \in Keys, v \in Vals : insert(k, v) \/ update(k, v)
  BY Zenon, HashAssumption DEF HNext, remove

(* The empty table is one empty bucket per chain.                          *)
LEMMA HashStarts ==
  ASSUME HInit
  PROVE  HashInv /\ Table = [k \in Keys |-> Absent]
<1> DEFINE e == << <<>> >>
<1>1. e \in Seq(Seq(Slots)) /\ Len(e) = 1 /\ e[1] = <<>> /\ Len(e[1]) = 0
  OBVIOUS
<1>2. \A b \in 0 .. nb - 1 : chain[b] = e
  BY DEF HInit
<1>3. chain \in [0 .. nb - 1 -> Seq(Seq(Slots))]
  BY <1>1 DEF HInit
<1> HIDE DEF e
<1>4. Packed(e)
  BY <1>1, HashAssumption DEF Packed
<1>5. \A b : Distinct(e) /\ AtHome(b, e)
  BY <1>1 DEF Distinct, AtHome
<1>6. \A k : Hits(e, k) = {}
  BY <1>1 DEF Hits
<1>7. HashInv
  BY Zenon, <1>2, <1>3, <1>4, <1>5 DEF HashInv, GoodChain
<1>8. \A k \in Keys : Entry(chain[index_of(k)], k) = Absent
  BY Zenon, <1>2, <1>6, IndexInRange DEF Entry
<1> QED
  BY Zenon, <1>7, <1>8 DEF Table

(* Every chain of the table is packed and holds each of its keys once, and *)
(* only keys that hash to it.                                              *)
THEOREM HashInvariant == HSpec => []HashInv
<1>1. HInit => HashInv
  BY Zenon, HashStarts
<1>2. HashInv /\ [HNext]_hvars => HashInv'
  <2>1. ASSUME HashInv, HNext PROVE HashInv'
    BY Zenon, <2>1, NextIsCall, CallStep
  <2>2. ASSUME HashInv, UNCHANGED hvars PROVE HashInv'
    BY Zenon, <2>2 DEF HashInv, hvars
  <2> QED
    BY Zenon, <2>1, <2>2
<1> QED
  BY <1>1, <1>2, PTL DEF HSpec

(* The part of the types that the shape of the chains leaves open.         *)
Beside == items \in Nat /\ overflow_buckets \in Nat /\ (call = <<>> \/ call.ok \in BOOLEAN)

(* For any keys and sizes chains are lists of lists of slots, the counters *)
(* are natural numbers and a call returns true or false.                   *)
THEOREM HashTypeCorrect == HSpec => []HTypeOK
<1>1. HInit => Beside
  BY DEF HInit, Beside
<1>2. Beside /\ [HNext]_hvars => Beside'
  <2>1. ASSUME Beside, NEW k \in Keys, NEW v \in Vals, insert(k, v) \/ update(k, v)
        PROVE  Beside'
    <3>1. items' \in {items, items + 1}
      BY Zenon, <2>1 DEF insert, update, Replace, Overwrite, InsertRoom, AddSlot,
                         InsertOverflow, AddBucket
    <3>2. overflow_buckets' \in {overflow_buckets, overflow_buckets + 1}
      BY Zenon, <2>1 DEF insert, update, Replace, Overwrite, InsertRoom, AddSlot,
                         InsertOverflow, AddBucket
    <3>3. \E o : Returns(o, k, v, TRUE) \/ Returns(o, k, v, FALSE)
      BY Zenon, <2>1 DEF insert, update, Replace, InsertRoom, AddSlot,
                         InsertOverflow, AddBucket
    <3>4. call'.ok \in BOOLEAN
      <4>1. PICK o, r : Returns(o, k, v, r) /\ r \in BOOLEAN
        BY Zenon, <3>3
      <4>2. call'.ok = r
        BY Zenon, <4>1 DEF Returns
      <4> QED
        BY Zenon, <4>1, <4>2
    <3>5. \A n \in Nat : n + 1 \in Nat
      OBVIOUS
    <3> QED
      BY Zenon, <2>1, <3>1, <3>2, <3>4, <3>5 DEF Beside
  <2>2. ASSUME Beside, UNCHANGED hvars PROVE Beside'
    BY Zenon, <2>2 DEF Beside, hvars
  <2> QED
    BY Zenon, <2>1, <2>2, NextIsCall
<1>3. HashInv /\ Beside => HTypeOK
  BY Zenon DEF HashInv, Beside, HTypeOK
<1> QED
  BY <1>1, <1>2, <1>3, HashInvariant, PTL DEF HSpec

(* For any keys and sizes a key is in at most one slot, of the chain that  *)
(* lookup searches.                                                        *)
THEOREM HashOneSlot == HSpec => []OneSlotPerKey
<1>1. ASSUME HashInv, NEW b \in DOMAIN chain, NEW k \in Keys
      PROVE  /\ Cardinality(Hits(chain[b], k)) <= 1
             /\ Hits(chain[b], k) # {} => b = index_of(k)
  <2>1. GoodChain(b, chain[b])
    BY Zenon, <1>1 DEF HashInv
  <2>2. CASE Hits(chain[b], k) = {}
    BY <2>2, FS_EmptySet
  <2>3. CASE Hits(chain[b], k) # {}
    <3>1. PICK j \in 1 .. Len(chain[b]) : \E s \in 1 .. Len(chain[b][j]) : chain[b][j][s].key = k
      BY <2>1, <2>3, HitFacts DEF GoodChain
    <3>2. PICK s \in 1 .. Len(chain[b][j]) : chain[b][j][s].key = k
      BY Zenon, <3>1
    <3>3. Hits(chain[b], k) = {<<j, s>>}
      BY <2>1, <3>2, HitFacts DEF GoodChain
    <3>4. Cardinality(Hits(chain[b], k)) = 1
      BY Zenon, <3>3, FS_Singleton
    <3>5. index_of(k) = b
      BY Zenon, <2>1, <3>2 DEF GoodChain, AtHome
    <3> QED
      BY <3>4, <3>5
  <2> QED
    BY Zenon, <2>2, <2>3
<1>2. HashInv => OneSlotPerKey
  BY Zenon, <1>1 DEF OneSlotPerKey
<1> QED
  BY <1>2, HashInvariant, PTL

(* For any keys and sizes every bucket of a chain but the last is full and *)
(* no chained bucket is empty.                                             *)
THEOREM HashPacked == HSpec => []ChainsPacked
<1>1. ASSUME HashInv, NEW b \in DOMAIN chain
      PROVE  /\ \A j \in 1 .. Len(chain[b]) - 1 : Len(chain[b][j]) = INLINE_SLOTS
             /\ Len(chain[b]) > 1 => chain[b][Len(chain[b])] # <<>>
  <2>1. Packed(chain[b])
    BY Zenon, <1>1 DEF HashInv, GoodChain
  <2> QED
    BY <2>1 DEF Packed
<1>2. HashInv => ChainsPacked
  BY Zenon, <1>1 DEF ChainsPacked
<1> QED
  BY <1>2, HashInvariant, PTL

(* For any keys and sizes the table implements the index map: insert,      *)
(* update and remove return and do what the map does.                      *)
THEOREM HashIsMap == HSpec => HashImplementsMap
<1> DEFINE m == [k \in Keys |->
                   IF Hits(chain[index_of(k)], k) = {} THEN Absent ELSE lookup(k)]
<1>1. m = Table
  BY Zenon DEF Table, Entry, lookup
<1>2. m' = Table'
  BY Zenon DEF Table, Entry, lookup
<1>3. HInit => Map!Init
  BY Zenon, <1>1, HashStarts DEF HInit, Map!Init, Map!Empty
<1>4. ASSUME HashInv, HNext PROVE Map!Next
  <2>1. PICK k \in Keys, v \in Vals : insert(k, v) \/ update(k, v)
    BY Zenon, <1>4, NextIsCall
  <2> HIDE DEF m
  <2>2. /\ call' \in Map!Calls
        /\ \/ /\ call'.op = "insert" /\ call'.ok = (m[call'.key] = Absent)
              /\ m' = [m EXCEPT ![call'.key] = call'.val]
           \/ /\ call'.op = "update" /\ call'.ok = (m[call'.key] # Absent)
              /\ m' = IF call'.ok THEN [m EXCEPT ![call'.key] = call'.val] ELSE m
    BY Zenon, <1>1, <1>2, <1>4, <2>1, CallStep
  <2>3. Map!Insert(call') \/ Map!Update(call')
    BY Zenon, <2>2 DEF Map!Insert, Map!Update, m
  <2> QED
    BY Zenon, <2>2, <2>3 DEF Map!Next
<1>5. UNCHANGED hvars => UNCHANGED Map!vars
  BY Zenon DEF hvars, Map!vars, lookup
<1>6. HashInv /\ [HNext]_hvars => [Map!Next]_Map!vars
  BY <1>4, <1>5
<1> QED
  BY <1>3, <1>6, HashInvariant, PTL DEF HSpec, HashImplementsMap, Map!Spec

-----------------------------------------------------------------------------
(* The number of slots in use of each chain, and of buckets beyond its     *)
(* first.                                                                  *)
Sizes(t)  == [b \in 0 .. nb - 1 |-> ChainSize(t[b])]
Extras(t) == [b \in 0 .. nb - 1 |-> Len(t[b]) - 1]

(* The counters count the slots and the chained buckets.                   *)
CountInv ==
  /\ HashInv
  /\ items = SumFunction(Sizes(chain))
  /\ overflow_buckets = SumFunction(Extras(chain))

(* The size of a chain adds up the lengths of its buckets.                 *)
Lengths(c) == [j \in 1 .. Len(c) |-> Len(c[j])]

(* It is a natural number.                                                 *)
LEMMA SizeNat ==
  ASSUME NEW c \in Seq(Seq(Slots))
  PROVE  /\ IsFiniteSet(1 .. Len(c)) /\ \A j \in 1 .. Len(c) : Lengths(c)[j] \in Nat
         /\ ChainSize(c) = SumFunctionOnSet(Lengths(c), 1 .. Len(c))
         /\ ChainSize(c) \in Nat
<1>1. IsFiniteSet(1 .. Len(c))
  BY FS_Interval
<1>2. \A j \in 1 .. Len(c) : Lengths(c)[j] \in Nat
  BY DEF Lengths
<1>3. ChainSize(c) = SumFunctionOnSet(Lengths(c), 1 .. Len(c))
  BY Zenon DEF ChainSize, SumFunction, Lengths
<1> QED
  BY Zenon, <1>1, <1>2, <1>3, SumNat

(* Chains with buckets of the same lengths have the same size.             *)
LEMMA SizeKept ==
  ASSUME NEW c \in Seq(Seq(Slots)), NEW d \in Seq(Seq(Slots)), Len(d) = Len(c),
         \A l \in 1 .. Len(c) : Len(d[l]) = Len(c[l])
  PROVE  ChainSize(d) = ChainSize(c)
<1>1. Lengths(d) = Lengths(c)
  BY Zenon DEF Lengths
<1> QED
  BY <1>1, SizeNat

(* A slot more in the last bucket is a slot more in the chain.             *)
LEMMA SizeOfSlot ==
  ASSUME NEW c \in Seq(Seq(Slots)), NEW d \in Seq(Seq(Slots)), Len(d) = Len(c),
         Len(c) >= 1, Len(d[Len(c)]) = Len(c[Len(c)]) + 1,
         \A l \in 1 .. Len(c) : l # Len(c) => Len(d[l]) = Len(c[l])
  PROVE  ChainSize(d) = ChainSize(c) + 1
<1> DEFINE g == Lengths(c)
           h == Lengths(d)
           S == 1 .. Len(c)
           y == Len(c)
<1>1. \A x \in S : g[x] \in Nat /\ h[x] \in Nat /\ (x # y => h[x] = g[x])
  BY DEF Lengths
<1>2. y \in S /\ h[y] = g[y] + 1
  BY DEF Lengths
<1>3. /\ IsFiniteSet(S) /\ ChainSize(c) \in Nat /\ g[y] \in Nat
      /\ ChainSize(c) = SumFunctionOnSet(g, S) /\ ChainSize(d) = SumFunctionOnSet(h, S)
  BY Zenon, <1>1, <1>2, SizeNat
<1> HIDE DEF g, h, S, y
<1>4. SumFunctionOnSet(h, S) = SumFunctionOnSet(g, S) + h[y] - g[y]
  BY ZenonT(60), <1>1, <1>2, <1>3, SumChange
<1> QED
  BY <1>2, <1>3, <1>4

(* A bucket with one slot behind the chain is a slot more.                 *)
LEMMA SizeOfBucket ==
  ASSUME NEW c \in Seq(Seq(Slots)), NEW d \in Seq(Seq(Slots)), Len(d) = Len(c) + 1,
         \A l \in 1 .. Len(c) : Len(d[l]) = Len(c[l]), Len(d[Len(c) + 1]) >= 1, Len(d[Len(c) + 1]) <= 1
  PROVE  ChainSize(d) = ChainSize(c) + 1
<1> DEFINE g == Lengths(c)
           h == Lengths(d)
           S == 1 .. Len(d)
           R == 1 .. Len(c)
           y == Len(c) + 1
<1>1. y \in S /\ S \ {y} = R
  OBVIOUS
<1>2. \A x \in R : g[x] \in Nat /\ h[x] = g[x]
  BY SMTT(30) DEF Lengths
<1>3. h[y] \in Nat /\ h[y] >= 1 /\ h[y] <= 1
  BY <1>1 DEF Lengths
<1>4. /\ IsFiniteSet(S) /\ \A x \in S : h[x] \in Nat
      /\ IsFiniteSet(R) /\ ChainSize(c) \in Nat
      /\ ChainSize(c) = SumFunctionOnSet(g, R) /\ ChainSize(d) = SumFunctionOnSet(h, S)
  BY Zenon, SizeNat
<1> HIDE DEF g, h, S, R, y
<1>5. SumFunctionOnSet(h, S) = h[y] + SumFunctionOnSet(h, R)
  BY ZenonT(60), <1>1, <1>4, SumRemove
<1>6. SumFunctionOnSet(h, R) = SumFunctionOnSet(g, R)
  BY Zenon, <1>2, <1>4, SumSame
<1> QED
  BY <1>3, <1>4, <1>5, <1>6

(* The sums over the array range over natural numbers.                     *)
LEMMA SumsOfTable ==
  ASSUME NEW t \in [0 .. nb - 1 -> Seq(Seq(Slots))],
         \A b \in 0 .. nb - 1 : Len(t[b]) >= 1
  PROVE  /\ IsFiniteSet(0 .. nb - 1)
         /\ \A b \in 0 .. nb - 1 : Sizes(t)[b] \in Nat /\ Extras(t)[b] \in Nat
         /\ SumFunction(Sizes(t)) = SumFunctionOnSet(Sizes(t), 0 .. nb - 1)
         /\ SumFunction(Extras(t)) = SumFunctionOnSet(Extras(t), 0 .. nb - 1)
<1>1. IsFiniteSet(0 .. nb - 1)
  BY BucketsPositive, FS_Interval
<1>2. \A b \in 0 .. nb - 1 : ChainSize(t[b]) \in Nat
  BY Zenon, SizeNat
<1>3. \A b \in 0 .. nb - 1 : Len(t[b]) - 1 \in Nat
  OBVIOUS
<1>4. /\ SumFunction(Sizes(t)) = SumFunctionOnSet(Sizes(t), 0 .. nb - 1)
      /\ SumFunction(Extras(t)) = SumFunctionOnSet(Extras(t), 0 .. nb - 1)
  BY Zenon DEF SumFunction, Sizes, Extras
<1> QED
  BY Zenon, <1>1, <1>2, <1>3, <1>4 DEF Sizes, Extras

(* When one chain is replaced, the sums change by what it changes.         *)
LEMMA CountsChange ==
  ASSUME HashInv, HashInv', NEW b \in 0 .. nb - 1, NEW d,
         chain' = [chain EXCEPT ![b] = d]
  PROVE  /\ SumFunction(Sizes(chain')) =
              SumFunction(Sizes(chain)) + ChainSize(d) - ChainSize(chain[b])
         /\ SumFunction(Extras(chain')) =
              SumFunction(Extras(chain)) + (Len(d) - 1) - (Len(chain[b]) - 1)
<1> DEFINE S == 0 .. nb - 1
<1>1. \A x \in S : chain'[x] = IF x = b THEN d ELSE chain[x]
  BY Zenon DEF HashInv
<1>2. /\ chain \in [S -> Seq(Seq(Slots))] /\ \A x \in S : Len(chain[x]) >= 1
      /\ chain' \in [S -> Seq(Seq(Slots))] /\ \A x \in S : Len(chain'[x]) >= 1
  BY Zenon DEF HashInv, GoodChain, Packed
<1> DEFINE g == Sizes(chain)
           h == Sizes(chain')
           i == Extras(chain)
           j == Extras(chain')
<1>3. /\ IsFiniteSet(S)
      /\ \A x \in S : g[x] \in Nat /\ i[x] \in Nat
      /\ SumFunction(g) = SumFunctionOnSet(g, S) /\ SumFunction(i) = SumFunctionOnSet(i, S)
  BY Zenon, <1>2, SumsOfTable
<1>4. /\ \A x \in S : h[x] \in Nat /\ j[x] \in Nat
      /\ SumFunction(h) = SumFunctionOnSet(h, S) /\ SumFunction(j) = SumFunctionOnSet(j, S)
  BY Zenon, <1>2, SumsOfTable
<1>5. \A x \in S : x # b => h[x] = g[x] /\ j[x] = i[x]
  BY <1>1 DEF Sizes, Extras
<1>6. /\ h[b] = ChainSize(d) /\ g[b] = ChainSize(chain[b])
      /\ j[b] = Len(d) - 1 /\ i[b] = Len(chain[b]) - 1
  BY Zenon, <1>1 DEF Sizes, Extras
<1> HIDE DEF g, h, i, j, S
<1>7. b \in S
  BY Zenon DEF S
<1>8. SumFunctionOnSet(h, S) = SumFunctionOnSet(g, S) + h[b] - g[b]
  BY Zenon, <1>3, <1>4, <1>5, <1>7, SumChange
<1>9. SumFunctionOnSet(j, S) = SumFunctionOnSet(i, S) + j[b] - i[b]
  BY Zenon, <1>3, <1>4, <1>5, <1>7, SumChange
<1>10. /\ SumFunction(h) = SumFunction(g) + ChainSize(d) - ChainSize(chain[b])
       /\ SumFunction(j) = SumFunction(i) + (Len(d) - 1) - (Len(chain[b]) - 1)
  BY Zenon, <1>3, <1>4, <1>6, <1>8, <1>9
<1> QED
  BY Zenon, <1>10 DEF g, h, i, j

(* Every call keeps the counters exact.                                    *)
LEMMA CountStep ==
  ASSUME CountInv, NEW k \in Keys, NEW v \in Vals, insert(k, v) \/ update(k, v)
  PROVE  CountInv'
<1> DEFINE b == index_of(k)
           c == chain[b]
<1>1. HashInv /\ HashInv' /\ b \in 0 .. nb - 1
  BY Zenon, CallStep, IndexInRange DEF CountInv
<1>2. GoodChain(b, c) /\ c \in Seq(Seq(Slots)) /\ Len(c) >= 1
  BY Zenon, <1>1 DEF HashInv, GoodChain, Packed
<1>3. /\ items = SumFunction(Sizes(chain)) /\ items \in Nat
      /\ overflow_buckets = SumFunction(Extras(chain)) /\ overflow_buckets \in Nat
  <2>1. /\ chain \in [0 .. nb - 1 -> Seq(Seq(Slots))]
        /\ \A x \in 0 .. nb - 1 : Len(chain[x]) >= 1
    BY Zenon, <1>1 DEF HashInv, GoodChain, Packed
  <2>2. SumFunction(Sizes(chain)) \in Nat /\ SumFunction(Extras(chain)) \in Nat
    BY Zenon, <2>1, SumsOfTable, SumNat
  <2> QED
    BY Zenon, <2>2 DEF CountInv
<1>4. ChainSize(c) \in Nat /\ Len(c) \in Nat
  BY <1>2, SizeNat
<1>5. CASE Overwrite(k, v)
  <2> DEFINE d == Revalued(c, k, v)
  <2>1. /\ Hits(c, k) # {} /\ chain' = [chain EXCEPT ![b] = d]
        /\ items' = items /\ overflow_buckets' = overflow_buckets
    BY Zenon, <1>5 DEF Overwrite, Revalued
  <2>2. GoodChain(b, d) /\ Len(d) = Len(c) /\ \A l \in 1 .. Len(c) : Len(d[l]) = Len(c[l])
    BY <1>2, <2>1, SetValue
  <2> HIDE DEF d, c
  <2>3. d \in Seq(Seq(Slots))
    BY Zenon, <2>2 DEF GoodChain, Packed
  <2>4. ChainSize(d) = ChainSize(c)
    BY Zenon, <1>2, <2>2, <2>3, SizeKept
  <2>5. /\ SumFunction(Sizes(chain')) = SumFunction(Sizes(chain)) + ChainSize(d) - ChainSize(c)
        /\ SumFunction(Extras(chain')) = SumFunction(Extras(chain)) + (Len(d) - 1) - (Len(c) - 1)
    BY Zenon, <1>1, <2>1, CountsChange DEF c
  <2>6. items' = SumFunction(Sizes(chain')) /\ overflow_buckets' = SumFunction(Extras(chain'))
    BY <1>3, <1>4, <2>1, <2>2, <2>4, <2>5
  <2> QED
    BY Zenon, <1>1, <2>6 DEF CountInv
<1>6. CASE InsertRoom(k, v)
  <2> DEFINE d == SlotAdded(c, k, v)
  <2>1. TailOf(c) = Len(c)
    BY Zenon, <1>2, TailIsLast DEF GoodChain
  <2>2. /\ Hits(c, k) = {} /\ Len(c[Len(c)]) < INLINE_SLOTS
        /\ chain' = [chain EXCEPT ![b] = d]
        /\ items' = items + 1 /\ overflow_buckets' = overflow_buckets
    BY Zenon, <1>6, <2>1 DEF InsertRoom, AddSlot, SlotAdded
  <2>3. /\ GoodChain(b, d) /\ Len(d) = Len(c) /\ Len(d[Len(c)]) = Len(c[Len(c)]) + 1
        /\ \A l \in 1 .. Len(c) : l # Len(c) => Len(d[l]) = Len(c[l])
    <3> HIDE DEF c
    <3> QED
      BY <1>2, <2>2, AddToTail
  <2> HIDE DEF d, c
  <2>4. d \in Seq(Seq(Slots))
    BY Zenon, <2>3 DEF GoodChain, Packed
  <2>5. ChainSize(d) = ChainSize(c) + 1
    BY Zenon, <1>2, <2>3, <2>4, SizeOfSlot
  <2>6. /\ SumFunction(Sizes(chain')) = SumFunction(Sizes(chain)) + ChainSize(d) - ChainSize(c)
        /\ SumFunction(Extras(chain')) = SumFunction(Extras(chain)) + (Len(d) - 1) - (Len(c) - 1)
    BY Zenon, <1>1, <2>2, CountsChange DEF c
  <2>7. items' = SumFunction(Sizes(chain')) /\ overflow_buckets' = SumFunction(Extras(chain'))
    BY <1>3, <1>4, <2>2, <2>3, <2>5, <2>6
  <2> QED
    BY Zenon, <1>1, <2>7 DEF CountInv
<1>7. CASE InsertOverflow(k, v)
  <2> DEFINE d == BucketAdded(c, k, v)
  <2>1. TailOf(c) = Len(c)
    BY Zenon, <1>2, TailIsLast DEF GoodChain
  <2>2. /\ Hits(c, k) = {} /\ Len(c[Len(c)]) >= INLINE_SLOTS
        /\ chain' = [chain EXCEPT ![b] = d]
        /\ items' = items + 1 /\ overflow_buckets' = overflow_buckets + 1
    BY Zenon, <1>7, <2>1 DEF InsertOverflow, AddBucket, BucketAdded
  <2>3. /\ GoodChain(b, d) /\ Len(d) = Len(c) + 1
        /\ \A l \in 1 .. Len(c) : Len(d[l]) = Len(c[l])
        /\ Len(d[Len(c) + 1]) >= 1 /\ Len(d[Len(c) + 1]) <= 1
    BY SMTT(60), <1>2, <2>2, AddToChain
  <2> HIDE DEF d, c
  <2>4. d \in Seq(Seq(Slots))
    BY Zenon, <2>3 DEF GoodChain, Packed
  <2>5. ChainSize(d) = ChainSize(c) + 1
    BY Zenon, <1>2, <2>3, <2>4, SizeOfBucket
  <2>6. /\ SumFunction(Sizes(chain')) = SumFunction(Sizes(chain)) + ChainSize(d) - ChainSize(c)
        /\ SumFunction(Extras(chain')) = SumFunction(Extras(chain)) + (Len(d) - 1) - (Len(c) - 1)
    BY Zenon, <1>1, <2>2, CountsChange DEF c
  <2>7. items' = SumFunction(Sizes(chain')) /\ overflow_buckets' = SumFunction(Extras(chain'))
    BY SMTT(30), <1>3, <1>4, <2>2, <2>3, <2>5, <2>6
  <2> QED
    BY Zenon, <1>1, <2>7 DEF CountInv
<1>8. CASE UNCHANGED <<chain, items, overflow_buckets>>
  BY Zenon, <1>1, <1>3, <1>8 DEF CountInv
<1> QED
  BY Zenon, <1>5, <1>6, <1>7, <1>8 DEF insert, update, Replace

(* The empty table counts nothing.                                         *)
LEMMA CountStarts ==
  ASSUME HInit
  PROVE  CountInv
<1> DEFINE S == 0 .. nb - 1
           e == << <<>> >>
<1>1. HashInv
  BY Zenon, HashStarts
<1>2. \A b \in S : chain[b] = e
  BY Zenon DEF HInit
<1>3. e \in Seq(Seq(Slots)) /\ Len(e) = 1 /\ Len(e[1]) = 0
  OBVIOUS
<1> HIDE DEF e
<1>4. ChainSize(e) = 0
  <2>1. \A j \in 1 .. Len(e) : Lengths(e)[j] = 0
    BY <1>3 DEF Lengths
  <2> QED
    BY Zenon, <1>3, <2>1, SizeNat, SumZero
<1>5. /\ chain \in [S -> Seq(Seq(Slots))] /\ \A b \in S : Len(chain[b]) >= 1
  BY Zenon, <1>1 DEF HashInv, GoodChain, Packed
<1>6. \A b \in S : Sizes(chain)[b] = 0 /\ Extras(chain)[b] = 0
  BY <1>2, <1>3, <1>4 DEF Sizes, Extras
<1>7. SumFunction(Sizes(chain)) = 0 /\ SumFunction(Extras(chain)) = 0
  BY Zenon, <1>5, <1>6, SumsOfTable, SumZero
<1> QED
  BY Zenon, <1>1, <1>7 DEF HInit, CountInv

(* The longest chain times the chains in use bounds the items.             *)
LEMMA ItemsBound ==
  ASSUME CountInv
  PROVE  items <= occupancy_stats.max_chain * (nb - occupancy_stats.empty)
<1> DEFINE S == 0 .. nb - 1
           g == Sizes(chain)
           M == {ChainSize(chain[b]) : b \in DOMAIN chain}
           E == {b \in DOMAIN chain : ChainSize(chain[b]) = 0}
<1>1. /\ chain \in [S -> Seq(Seq(Slots))] /\ DOMAIN chain = S
      /\ \A b \in S : Len(chain[b]) >= 1
  BY Zenon DEF CountInv, HashInv, GoodChain, Packed
<1>2. /\ IsFiniteSet(S) /\ \A b \in S : g[b] \in Nat
      /\ SumFunction(g) = SumFunctionOnSet(g, S)
  BY Zenon, <1>1, SumsOfTable
<1>3. \A b \in S : g[b] = ChainSize(chain[b])
  BY Zenon DEF Sizes
<1>4. occupancy_stats.max_chain = Max(M) /\ occupancy_stats.empty = Cardinality(E)
  BY Zenon DEF occupancy_stats
<1>5. Cardinality(S) = nb /\ nb \in Nat /\ 0 \in S
  BY BucketsPositive, FS_Interval
<1>6. items = SumFunctionOnSet(g, S)
  BY Zenon, <1>2 DEF CountInv
<1>7. M = {g[b] : b \in S} /\ E = {b \in S : g[b] = 0}
  BY Zenon, <1>1, <1>3
<1>8. DOMAIN g = S /\ g = [b \in S |-> g[b]]
  BY Zenon DEF Sizes
<1> HIDE DEF S, g, M, E
<1>9. IsFiniteSet(M)
  <2>1. g \in Surjection(S, M)
    BY Zenon, <1>7, <1>8 DEF Surjection
  <2> QED
    BY Zenon, <1>2, <2>1, FS_Surjection
<1>10. M \subseteq Nat /\ M # {}
  BY Zenon, <1>2, <1>5, <1>7
<1>11. Max(M) \in Nat /\ \A b \in S : g[b] <= Max(M)
  BY Zenon, <1>7, <1>9, <1>10, MaxOfFinite
<1>12. Cardinality(S \ E) = nb - Cardinality(E)
  <2>1. S \cap E = E
    BY Zenon, <1>7
  <2> QED
    BY ZenonT(60), <1>2, <1>5, <2>1, FS_Difference
<1>13. Cardinality(S \ E) \in Nat
  BY Zenon, <1>2, FS_Difference, FS_CardinalityType
<1>14. SumFunctionOnSet(g, S) <= Cardinality(S \ E) * Max(M)
  <2>1. S \ E \in SUBSET S /\ \A x \in S \ (S \ E) : g[x] = 0
    BY Zenon, <1>7
  <2> QED
    BY Zenon, <1>2, <1>11, <2>1, SumBound
<1>15. Cardinality(S \ E) * Max(M) = Max(M) * Cardinality(S \ E)
  BY <1>11, <1>13
<1> QED
  BY Zenon, <1>4, <1>6, <1>12, <1>14, <1>15

(* For any keys and sizes items_ is the number of slots in use,            *)
(* overflow_buckets_ the number of chained buckets, and the statistics of  *)
(* occupancy_stats agree with them.                                        *)
THEOREM HashCounts == HSpec => []CountsExact
<1>1. HInit => CountInv
  BY Zenon, CountStarts
<1>2. CountInv /\ [HNext]_hvars => CountInv'
  <2>1. ASSUME CountInv, HNext PROVE CountInv'
    BY Zenon, <2>1, NextIsCall, CountStep
  <2>2. ASSUME CountInv, UNCHANGED hvars PROVE CountInv'
    BY Zenon, <2>2 DEF CountInv, HashInv, hvars
  <2> QED
    BY <2>1, <2>2
<1>3. ASSUME CountInv PROVE CountsExact
  <2>1. DOMAIN chain = 0 .. nb - 1
    BY Zenon, <1>3 DEF CountInv, HashInv
  <2>2. items = occupancy_stats.total
    BY Zenon, <1>3, <2>1 DEF CountInv, Sizes, occupancy_stats
  <2>3. overflow_buckets = SumFunction([b \in DOMAIN chain |-> Len(chain[b]) - 1])
    BY Zenon, <1>3, <2>1 DEF CountInv, Extras
  <2> QED
    BY Zenon, <1>3, <2>2, <2>3, ItemsBound DEF CountsExact
<1> QED
  BY <1>1, <1>2, <1>3, PTL DEF HSpec

=============================================================================
