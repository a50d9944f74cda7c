----------------------------- MODULE TreeProofs -----------------------------
(***************************************************************************)
(* The B+tree for any fan-out, number of keys and of calls: a lookup finds *)
(* what the leaves hold, a scan returns it in order, the tree implements   *)
(* the index map, and no node holds more than it has room for.  TreeInv    *)
(* says what a tree is: a row of linked leaves that share out the keys,    *)
(* and inner nodes that are over runs of leaves and whose keys are the     *)
(* first ones under their children.                                        *)
(***************************************************************************)
EXTENDS BPlusTree, TLAPS

(* What a node is, before anything is said of its place in the tree.       *)
NodeRec ==
  [is_leaf : BOOLEAN, keys : Seq(Nat), vals : Seq(TreeVals),
   children : Seq(Nat), next : Nat]

(* The keys given to the load are in order.                                *)
Sorted ==
  /\ keys \in Seq(Nat)
  /\ Len(keys) <= MaxKeys
  /\ \A p, q \in DOMAIN keys : p < q => keys[p] < keys[q]

(* Nodes 1 .. L are the leaves; leaf n holds the keys from place s[n] up   *)
(* to s[n + 1].                                                            *)
IsLeaf(s, L, n) ==
  /\ node[n].is_leaf
  /\ node[n].children = <<>>
  /\ Len(node[n].keys) \in 1 .. FANOUT
  /\ Len(node[n].vals) = Len(node[n].keys)
  /\ s[n + 1] = s[n] + Len(node[n].keys)
  /\ \A q \in 1 .. Len(node[n].keys) : node[n].keys[q] = keys[s[n] + q - 1]
  /\ node[n].next = IF n < L THEN n + 1 ELSE 0

(* The leaves share out the keys from the first on.                        *)
Leaves(s, L) ==
  /\ L \in 0 .. Len(node)
  /\ s \in [1 .. L + 1 -> 1 .. Len(keys) + 1]
  /\ s[1] = 1
  /\ \A m, n \in 1 .. L + 1 : m < n => s[m] < s[n]
  /\ \A n \in 1 .. L : IsLeaf(s, L, n)

(* The nodes of sq, one after the other, are over consecutive leaves.      *)
Consecutive(sq, a, b) ==
  \A c \in 1 .. Len(sq) - 1 : a[sq[c + 1]] = b[sq[c]] + 1

(* Node n is over the leaves a[n] to b[n], and its keys are the first ones *)
(* under all its children but one.                                         *)
IsInner(a, b, n) ==
  LET cs == node[n].children
  IN  /\ ~node[n].is_leaf
      /\ node[n].vals = <<>>
      /\ node[n].next = 0
      /\ Len(cs) \in 1 .. FANOUT + 1
      /\ Len(node[n].keys) = Len(cs) - 1
      /\ \A c \in 1 .. Len(cs) : cs[c] \in 1 .. n - 1
      /\ a[n] = a[cs[1]]
      /\ b[n] = b[cs[Len(cs)]]
      /\ Consecutive(cs, a, b)
      /\ \A c \in 1 .. Len(cs) - 1 : node[n].keys[c] = node[a[cs[c + 1]]].keys[1]

(* A leaf is over itself, and every later node is an inner node.           *)
Inners(a, b, L) ==
  /\ a \in [1 .. Len(node) -> 1 .. L]
  /\ b \in [1 .. Len(node) -> 1 .. L]
  /\ \A n \in 1 .. L : a[n] = n /\ b[n] = n
  /\ \A n \in L + 1 .. Len(node) : IsInner(a, b, n)

(* The nodes of the level that the load reads are over all the leaves.     *)
Levels(a, b, L) ==
  /\ level \in Seq(1 .. Len(node))
  /\ L = 0 => level = <<>>
  /\ L > 0 => level # <<>> /\ a[level[1]] = 1 /\ b[level[Len(level)]] = L
  /\ Consecutive(level, a, b)

(* Those of the level it builds are over the leaves under the nodes it     *)
(* has read.                                                               *)
Parents(a, b) ==
  /\ parents \in Seq(1 .. Len(node))
  /\ parents = <<>> => i = 1
  /\ parents # <<>> =>
       /\ i > 1 /\ Len(level) > 1
       /\ a[parents[1]] = 1
       /\ b[parents[Len(parents)]] =
            b[level[IF i <= Len(level) THEN i - 1 ELSE Len(level)]]
  /\ Consecutive(parents, a, b)

(* How far the load is.                                                    *)
Phases(s, L) ==
  /\ phase = "leaves" =>
       /\ L = Len(node)
       /\ Len(level) = L /\ \A j \in 1 .. L : level[j] = j
       /\ parents = <<>>
       /\ s[L + 1] = IF i <= Len(keys) THEN i ELSE Len(keys) + 1
  /\ phase # "leaves" => s[L + 1] = Len(keys) + 1
  /\ phase = "ready" => Len(level) <= 1 /\ root = IF level = <<>> THEN 0 ELSE level[1]
  /\ phase # "ready" => root = 0

(* What the variables are.                                                 *)
Types ==
  /\ Sorted
  /\ node \in Seq(NodeRec)
  /\ i \in Nat \ {0}
  /\ phase \in {"leaves", "inner", "ready"}

(* The tree, with the leaves that its nodes are over and the places of the *)
(* keys in them.                                                           *)
Shape(a, b, s, L) ==
  /\ Leaves(s, L)
  /\ Inners(a, b, L)
  /\ Levels(a, b, L)
  /\ phase = "inner" => Parents(a, b)
  /\ Phases(s, L)

(* The inductive invariant.                                                *)
TreeInv == Types /\ \E L, a, b, s : Shape(a, b, s, L)

(* A sequence without elements.                                            *)
LEMMA NoElements ==
  ASSUME NEW S, NEW sq \in Seq(S)
  PROVE  Len(sq) \in Nat /\ (sq = <<>> <=> Len(sq) = 0)
  OBVIOUS

(* The element of a sequence of length one.                                *)
LEMMA OnlyElement ==
  ASSUME NEW S, NEW sq \in Seq(S), Len(sq) = 1
  PROVE  sq[1] \in S
  OBVIOUS

(* What the fields of a node are.                                          *)
LEMMA NodeTyped ==
  ASSUME Types
  PROVE  /\ Len(node) \in Nat
         /\ DOMAIN node = 1 .. Len(node)
         /\ \A n \in 1 .. Len(node) :
              /\ node[n] \in NodeRec
              /\ node[n].keys \in Seq(Nat) /\ Len(node[n].keys) \in Nat
              /\ node[n].vals \in Seq(TreeVals) /\ Len(node[n].vals) \in Nat
              /\ Len(node[n].children) \in Nat
              /\ DOMAIN node[n].keys = 1 .. Len(node[n].keys)
<1>1. /\ Len(node) \in Nat
      /\ DOMAIN node = 1 .. Len(node)
      /\ \A n \in 1 .. Len(node) : node[n] \in NodeRec
  BY DEF Types
<1>2. ASSUME NEW n \in 1 .. Len(node)
      PROVE  /\ node[n].keys \in Seq(Nat)
             /\ node[n].vals \in Seq(TreeVals)
             /\ node[n].children \in Seq(Nat)
  BY <1>1 DEF NodeRec
<1>3. ASSUME NEW n \in 1 .. Len(node)
      PROVE  /\ Len(node[n].keys) \in Nat /\ Len(node[n].vals) \in Nat
             /\ Len(node[n].children) \in Nat
             /\ DOMAIN node[n].keys = 1 .. Len(node[n].keys)
  BY <1>2
<1> QED
  BY Zenon, <1>1, <1>2, <1>3

(* A run of c elements of a sequence, from the m-th on.                    *)
LEMMA RunFrom ==
  ASSUME NEW S, NEW q \in Seq(S), NEW m \in Nat \ {0}, NEW c \in Nat, m + c - 1 <= Len(q)
  PROVE  LET r == SubSeq(q, m, m + c - 1)
         IN  /\ r \in Seq(S) /\ Len(r) = c
             /\ \A j \in 1 .. c : r[j] = q[m + j - 1] /\ r[j] \in S
  OBVIOUS

(* A function on 1 .. m is a sequence of length m.                         *)
LEMMA ListOf ==
  ASSUME NEW S, NEW m \in Nat, NEW f \in [1 .. m -> S]
  PROVE  f \in Seq(S) /\ Len(f) = m
  OBVIOUS

(* The smaller of two numbers, of which the load takes counts.             *)
LEMMA LeastOfTwo ==
  ASSUME NEW x \in Nat, NEW y \in Nat
  PROVE  Min({x, y}) = IF x <= y THEN x ELSE y
<1>1. LET z == IF x <= y THEN x ELSE y
      IN  z \in {x, y} /\ \A w \in {x, y} : z <= w
  OBVIOUS
<1>2. \A z \in {x, y} : (\A w \in {x, y} : z <= w) => z = IF x <= y THEN x ELSE y
  OBVIOUS
<1> QED
  BY Zenon, <1>1, <1>2 DEF Min

(* A leaf stays one when its values change, or its link.                   *)
LEMMA LeafKept ==
  ASSUME NEW s, NEW L, NEW s2, NEW L2, NEW n \in Nat, IsLeaf(s, L, n), keys' = keys,
         s2[n] = s[n], s2[n + 1] = s[n + 1],
         node'[n].is_leaf = node[n].is_leaf,
         node'[n].children = node[n].children,
         node'[n].keys = node[n].keys,
         Len(node'[n].vals) = Len(node[n].vals),
         node'[n].next = IF n < L2 THEN n + 1 ELSE 0
  PROVE  IsLeaf(s2, L2, n)'
  BY ZenonT(60) DEF IsLeaf

(* A node over others stays one as long as they are over the same leaves.  *)
LEMMA InnerKept ==
  ASSUME NEW a, NEW b, NEW a2, NEW b2, NEW L, NEW n \in Nat, IsInner(a, b, n), Types,
         n \in 1 .. Len(node),
         \A m \in 1 .. n : a2[m] = a[m] /\ b2[m] = b[m] /\ a[m] \in 1 .. L,
         node'[n] = node[n], \A m \in 1 .. L : node'[m].keys = node[m].keys
  PROVE  IsInner(a2, b2, n)'
<1> DEFINE cs == node[n].children
<1>1. Len(cs) \in Nat
  BY Zenon, NodeTyped
<1>2. /\ ~node[n].is_leaf
      /\ node[n].vals = <<>>
      /\ node[n].next = 0
      /\ Len(cs) \in 1 .. FANOUT + 1
      /\ Len(node[n].keys) = Len(cs) - 1
      /\ \A c \in 1 .. Len(cs) : cs[c] \in 1 .. n - 1
      /\ a[n] = a[cs[1]]
      /\ b[n] = b[cs[Len(cs)]]
      /\ \A c \in 1 .. Len(cs) - 1 : a[cs[c + 1]] = b[cs[c]] + 1
      /\ \A c \in 1 .. Len(cs) - 1 : node[n].keys[c] = node[a[cs[c + 1]]].keys[1]
  BY Zenon DEF IsInner, Consecutive
<1>3. n \in 1 .. n /\ 1 .. n - 1 \subseteq 1 .. n
  OBVIOUS
<1>4. 1 \in 1 .. Len(cs) /\ Len(cs) \in 1 .. Len(cs)
      /\ \A c \in 1 .. Len(cs) - 1 : c \in 1 .. Len(cs) /\ c + 1 \in 1 .. Len(cs)
  <2> HIDE DEF cs
  <2> QED
    BY <1>1, <1>2
<1> HIDE DEF cs
<1>5. \A c \in 1 .. Len(cs) : /\ a2[cs[c]] = a[cs[c]] /\ b2[cs[c]] = b[cs[c]]
                              /\ a[cs[c]] \in 1 .. L
  BY Zenon, <1>2, <1>3
<1>6. a2[n] = a2[cs[1]] /\ b2[n] = b2[cs[Len(cs)]]
  BY Zenon, <1>2, <1>3, <1>4, <1>5
<1>7. ASSUME NEW c \in 1 .. Len(cs) - 1
      PROVE  /\ a2[cs[c + 1]] = b2[cs[c]] + 1
             /\ node[n].keys[c] = node'[a2[cs[c + 1]]].keys[1]
  <2>1. c \in 1 .. Len(cs) /\ c + 1 \in 1 .. Len(cs)
    BY Zenon, <1>4
  <2>2. /\ a2[cs[c + 1]] = a[cs[c + 1]] /\ b2[cs[c]] = b[cs[c]]
        /\ a[cs[c + 1]] \in 1 .. L
    BY Zenon, <2>1, <1>5
  <2>3. a[cs[c + 1]] = b[cs[c]] + 1 /\ node[n].keys[c] = node[a[cs[c + 1]]].keys[1]
    BY Zenon, <1>2
  <2>4. node'[a[cs[c + 1]]].keys = node[a[cs[c + 1]]].keys
    BY Zenon, <2>2
  <2> QED
    BY Zenon, <2>2, <2>3, <2>4
<1> QED
  BY ZenonT(60), <1>2, <1>6, <1>7 DEF IsInner, Consecutive, cs

(* Leaves and inner nodes stay what they are as long as no node changes.   *)
LEMMA NodesStay ==
  ASSUME NEW a, NEW b, NEW s, NEW L, NEW n, keys' = keys, node' = node
  PROVE  /\ IsLeaf(s, L, n)  => IsLeaf(s, L, n)'
         /\ IsInner(a, b, n) => IsInner(a, b, n)'
<1>1. IsLeaf(s, L, n)' <=> IsLeaf(s, L, n)
  BY ZenonT(30) DEF IsLeaf
<1>2. ASSUME NEW sq PROVE Consecutive(sq, a, b)' <=> Consecutive(sq, a, b)
  BY Zenon DEF Consecutive
<1>3. IsInner(a, b, n)' <=> IsInner(a, b, n)
  BY ZenonT(30), <1>2 DEF IsInner
<1> QED
  BY Zenon, <1>1, <1>3

(* Before anything is loaded there is no node.                             *)
LEMMA StartsInShape ==
  ASSUME TreeAssumption, TInit
  PROVE  TreeInv
<1>1. PICK n \in 0 .. MaxKeys : keys = [j \in 1 .. n |-> 2 * j]
  BY DEF TInit
<1>2. /\ node = <<>> /\ level = <<>> /\ parents = <<>>
      /\ i = 1 /\ phase = "leaves" /\ root = 0
  BY Zenon DEF TInit
<1>3. /\ keys \in Seq(Nat)
      /\ Len(keys) = n
      /\ \A p, q \in DOMAIN keys : p < q => keys[p] < keys[q]
  BY <1>1 DEF TreeAssumption
<1>4. Types
  BY <1>2, <1>3 DEF Types, Sorted, TreeAssumption
<1> DEFINE s == [m \in 1 .. 1 |-> 1]
           e == [m \in 1 .. 0 |-> m]
<1>5. Leaves(s, 0)
  BY <1>2, <1>3, <1>4 DEF Leaves
<1>6. Inners(e, e, 0) /\ Levels(e, e, 0)
  BY <1>2 DEF Inners, Levels, Consecutive
<1>7. Phases(s, 0)
  <2>1. s[0 + 1] = 1
    OBVIOUS
  <2>2. 1 = IF i <= Len(keys) THEN i ELSE Len(keys) + 1
    BY <1>2, <1>3
  <2> HIDE DEF s
  <2> QED
    BY <1>2, <2>1, <2>2 DEF Phases
<1>8. Shape(e, e, s, 0)
  <2> HIDE DEF s, e
  <2> QED
    BY Zenon, <1>2, <1>5, <1>6, <1>7 DEF Shape
<1> HIDE DEF s, e
<1> QED
  BY Zenon, <1>4, <1>8 DEF TreeInv

(* The end of the leaves, the change of level and the root touch no node.  *)
LEMMA SettlesShape ==
  ASSUME TreeAssumption, TreeInv, LeavesDone \/ NextLevel \/ SetRoot
  PROVE  TreeInv'
<1>1. PICK L, a, b, s : Shape(a, b, s, L)
  BY Zenon DEF TreeInv
<1>2. Types /\ keys' = keys /\ node' = node
  BY Zenon DEF TreeInv, LeavesDone, NextLevel, SetRoot
<1>3. Leaves(s, L)' /\ Inners(a, b, L)'
  <2>1. Leaves(s, L) /\ Inners(a, b, L)
    BY Zenon, <1>1 DEF Shape
  <2>2. ASSUME NEW n, IsLeaf(s, L, n) PROVE IsLeaf(s, L, n)'
    BY Zenon, <2>2, <1>2, NodesStay
  <2>3. ASSUME NEW n, IsInner(a, b, n) PROVE IsInner(a, b, n)'
    BY Zenon, <2>3, <1>2, NodesStay
  <2>4. Leaves(s, L)'
    BY Zenon, <2>1, <2>2, <1>2 DEF Leaves
  <2>5. Inners(a, b, L)'
    BY Zenon, <2>1, <2>3, <1>2 DEF Inners
  <2> QED
    BY Zenon, <2>4, <2>5
<1>4. i' \in Nat \ {0} /\ phase' \in {"leaves", "inner", "ready"}
  BY <1>2 DEF Types, LeavesDone, NextLevel, SetRoot
<1>5. Types'
  BY Zenon, <1>2, <1>4 DEF Types, Sorted, NodeRec, TreeVals
<1>6. /\ L \in Nat /\ Len(node) \in Nat /\ Len(keys) \in Nat /\ i \in Nat
      /\ level \in Seq(1 .. Len(node)) /\ Len(level) \in Nat
  BY <1>1, <1>2 DEF Shape, Leaves, Levels, Types, Sorted
<1>7. CASE LeavesDone
  <2>1. Levels(a, b, L)'
    BY Zenon, <1>1, <1>2, <1>7 DEF Shape, Levels, Consecutive, LeavesDone
  <2>2. parents = <<>> /\ s[L + 1] = Len(keys) + 1
    BY <1>1, <1>6, <1>7 DEF Shape, Phases, LeavesDone
  <2>3. Parents(a, b)'
    BY <2>2, <1>7 DEF Parents, Consecutive, LeavesDone
  <2>4. root = 0
    BY <1>1, <1>7 DEF Shape, Phases, LeavesDone
  <2>5. Phases(s, L)'
    BY <1>2, <1>7, <2>2, <2>4 DEF Phases, LeavesDone
  <2> QED
    BY Zenon, <1>3, <1>5, <2>1, <2>3, <2>5 DEF TreeInv, Shape
<1>8. CASE NextLevel
  <2>1. phase = "inner" /\ level' = parents /\ parents' = <<>> /\ i' = 1 /\ phase' = phase
        /\ root' = root
    BY Zenon, <1>8 DEF NextLevel
  <2>2. Len(level) > 1 /\ i > Len(level)
    BY Zenon, <1>8 DEF NextLevel
  <2>3. Parents(a, b) /\ Levels(a, b, L)
    BY Zenon, <2>1, <1>1 DEF Shape
  <2>4. level # <<>> /\ L > 0
    BY <2>2, <2>3, <1>6 DEF Levels
  <2>5. parents # <<>> /\ parents \in Seq(1 .. Len(node))
    BY <2>2, <2>3, <1>6 DEF Parents
  <2>6. a[parents[1]] = 1 /\ b[parents[Len(parents)]] = L
    <3>1. /\ a[parents[1]] = 1
          /\ b[parents[Len(parents)]] =
               b[level[IF i <= Len(level) THEN i - 1 ELSE Len(level)]]
      BY Zenon, <2>3, <2>5 DEF Parents
    <3>2. ~ (i <= Len(level))
      BY <2>2, <1>6
    <3>3. b[level[Len(level)]] = L
      BY Zenon, <2>3, <2>4 DEF Levels
    <3> QED
      BY Zenon, <3>1, <3>2, <3>3
  <2>7. L # 0
    BY <2>4, <1>6
  <2>8. Levels(a, b, L)'
    BY Zenon, <1>2, <2>1, <2>3, <2>4, <2>5, <2>6, <2>7 DEF Levels, Parents, Consecutive
  <2>9. Parents(a, b)'
    BY <2>1 DEF Parents, Consecutive
  <2>10. Phases(s, L)'
    BY Zenon, <1>1, <1>2, <2>1 DEF Shape, Phases
  <2> QED
    BY Zenon, <1>3, <1>5, <2>8, <2>9, <2>10 DEF TreeInv, Shape
<1>9. CASE SetRoot
  <2>1. /\ phase = "inner" /\ level' = level /\ phase' = "ready" /\ Len(level) <= 1
        /\ root' = IF level = <<>> THEN 0 ELSE level[1]
    BY Zenon, <1>9 DEF SetRoot
  <2>2. Levels(a, b, L)'
    BY Zenon, <1>1, <1>2, <2>1 DEF Shape, Levels, Consecutive
  <2>3. s[L + 1] = Len(keys) + 1
    BY <1>1, <2>1 DEF Shape, Phases
  <2>4. Phases(s, L)'
    BY <1>2, <2>1, <2>3 DEF Phases
  <2>5. phase' # "inner"
    BY <2>1
  <2> QED
    BY Zenon, <1>3, <1>5, <2>2, <2>4, <2>5 DEF TreeInv, Shape
<1> QED
  BY Zenon, <1>7, <1>8, <1>9

(* The next leaf takes over where the last one ended, and is linked from   *)
(* it.                                                                     *)
LEMMA LeafInShape ==
  ASSUME TreeAssumption, TreeInv, BuildLeaf
  PROVE  TreeInv'
<1>1. PICK L, a, b, s : Shape(a, b, s, L)
  BY Zenon DEF TreeInv
<1>2. Types /\ Leaves(s, L) /\ Inners(a, b, L) /\ Levels(a, b, L) /\ Phases(s, L)
  BY Zenon, <1>1 DEF TreeInv, Shape
<1> DEFINE K   == Len(keys)
           cnt == Min({FANOUT, K - i + 1})
           ks  == SubSeq(keys, i, i + cnt - 1)
           vs  == [j \in 1 .. cnt |-> i + j - 1]
           old == [j \in DOMAIN node |->
                     IF j = Len(node) THEN [node[j] EXCEPT !.next = Len(node) + 1]
                     ELSE node[j]]
           s2  == [n \in 1 .. L + 2 |-> IF n <= L + 1 THEN s[n] ELSE i + cnt]
           id  == [n \in 1 .. L + 1 |-> n]
<1>3. /\ phase = "leaves" /\ phase' = phase /\ keys' = keys /\ i <= K
      /\ node' = Append(old, Leaf(ks, vs))
      /\ level' = Append(level, Len(node) + 1)
      /\ i' = i + FANOUT
      /\ parents' = parents /\ root' = root
  BY Zenon DEF BuildLeaf, AddLeaf
<1>4. /\ L = Len(node) /\ L \in Nat
      /\ Len(level) = L /\ \A j \in 1 .. L : level[j] = j
      /\ parents = <<>>
      /\ s[L + 1] = i
      /\ root = 0
  BY <1>2, <1>3 DEF Phases, Leaves, Types
<1>5. /\ K \in Nat /\ i \in Nat \ {0} /\ K <= MaxKeys
      /\ FANOUT \in Nat \ {0} /\ MaxKeys \in Nat
      /\ keys \in Seq(Nat)
  BY <1>2 DEF Types, Sorted, TreeAssumption
<1>6. cnt = IF FANOUT <= K - i + 1 THEN FANOUT ELSE K - i + 1
  <2>1. K - i + 1 \in Nat
    BY <1>3, <1>5
  <2> HIDE DEF K
  <2> QED
    BY <2>1, <1>5, LeastOfTwo
<1>7. cnt \in 1 .. FANOUT /\ i + cnt - 1 <= K /\ cnt \in Nat
      /\ i + cnt = IF i + FANOUT <= K THEN i + FANOUT ELSE K + 1
  <2> HIDE DEF cnt, K
  <2> QED
    BY <1>3, <1>5, <1>6
<1>8. /\ ks \in Seq(Nat) /\ Len(ks) = cnt
      /\ \A q \in 1 .. cnt : ks[q] = keys[i + q - 1]
  <2> HIDE DEF cnt
  <2> QED
    BY SMTT(30), <1>5, <1>7
<1>9. vs \in Seq(TreeVals) /\ Len(vs) = cnt
  <2> HIDE DEF cnt, K
  <2>1. \A j \in 1 .. cnt : i + j - 1 \in TreeVals
    BY <1>5, <1>7 DEF TreeVals
  <2> QED
    BY <2>1, <1>7
<1>10. Leaf(ks, vs) \in NodeRec
  <2> HIDE DEF ks, vs
  <2> QED
    BY <1>8, <1>9 DEF Leaf, NodeRec
<1>11. old \in Seq(NodeRec) /\ Len(old) = L
       /\ \A n \in 1 .. L :
            old[n] = IF n = L THEN [node[n] EXCEPT !.next = L + 1] ELSE node[n]
  <2>1. \A n \in 1 .. L : node[n] \in NodeRec
    BY Zenon, <1>2, <1>4, NodeTyped
  <2>2. \A n \in 1 .. L : [node[n] EXCEPT !.next = L + 1] \in NodeRec
    <3>1. ASSUME NEW A, NEW B, NEW C, NEW D,
                 NEW r \in [is_leaf : A, keys : B, vals : C, children : D, next : Nat],
                 NEW x \in Nat
          PROVE  [r EXCEPT !.next = x]
                   \in [is_leaf : A, keys : B, vals : C, children : D, next : Nat]
      OBVIOUS
    <3>2. L + 1 \in Nat
      BY <1>4
    <3> QED
      BY Zenon, <2>1, <3>1, <3>2 DEF NodeRec
  <2>3. DOMAIN node = 1 .. L
    BY Zenon, <1>2, <1>4, NodeTyped
  <2> QED
    BY <2>1, <2>2, <2>3, <1>4
<1>12. /\ node' \in Seq(NodeRec) /\ Len(node') = L + 1
       /\ \A n \in 1 .. L : node'[n] = old[n]
       /\ node'[L + 1] = Leaf(ks, vs)
  <2>1. PICK lf : lf = Leaf(ks, vs)
    BY Zenon
  <2> HIDE DEF old, ks, vs
  <2>2. lf \in NodeRec /\ node' = Append(old, lf)
    BY Zenon, <2>1, <1>3, <1>10
  <2>3. /\ node' \in Seq(NodeRec) /\ Len(node') = L + 1
        /\ \A n \in 1 .. L : node'[n] = old[n]
        /\ node'[L + 1] = lf
    BY <2>2, <1>11
  <2> QED
    BY Zenon, <2>1, <2>3
<1>13. Types'
  <2>1. i' \in Nat \ {0}
    BY <1>3, <1>5
  <2> QED
    BY Zenon, <2>1, <1>2, <1>3, <1>12 DEF Types, Sorted, NodeRec, TreeVals
<1> HIDE DEF cnt, ks, vs, old
<1>14. PICK s3 :
       /\ s3 \in [1 .. L + 2 -> 1 .. K + 1]
       /\ s3[1] = 1
       /\ s3[L + 2] = i + cnt
       /\ \A n \in 1 .. L + 1 : s3[n] = s[n]
       /\ \A m, n \in 1 .. L + 2 : m < n => s3[m] < s3[n]
  <2>1. /\ s \in [1 .. L + 1 -> 1 .. K + 1] /\ s[1] = 1
        /\ \A m, n \in 1 .. L + 1 : m < n => s[m] < s[n]
    BY Zenon, <1>2 DEF Leaves
  <2>2. \A n \in 1 .. L + 1 : s[n] \in Nat /\ s[n] <= i
    BY SMTT(60), <2>1, <1>4, <1>5
  <2>3. i + cnt \in 1 .. K + 1
    BY <1>5, <1>7
  <2> HIDE DEF K
  <2>4. \A m, n \in 1 .. L + 2 : m < n => s2[m] < s2[n]
    BY <1>4, <1>5, <1>7, <2>1, <2>2
  <2>5. /\ s2 \in [1 .. L + 2 -> 1 .. K + 1]
        /\ s2[1] = 1
        /\ s2[L + 2] = i + cnt
        /\ \A n \in 1 .. L + 1 : s2[n] = s[n]
    BY <1>4, <2>1, <2>3
  <2> HIDE DEF s2
  <2> QED
    BY Zenon, <2>4, <2>5
<1> HIDE DEF s2, K
<1>15. ASSUME NEW n \in 1 .. L + 1 PROVE IsLeaf(s3, L + 1, n)'
  <2>1. CASE n \in 1 .. L
    <3>1. IsLeaf(s, L, n)
      BY Zenon, <2>1, <1>2 DEF Leaves
    <3>2. s3[n] = s[n] /\ s3[n + 1] = s[n + 1] /\ n < L + 1 /\ n \in Nat
      BY <2>1, <1>4, <1>14
    <3>3. node'[n] = IF n = L THEN [node[n] EXCEPT !.next = L + 1] ELSE node[n]
      BY Zenon, <2>1, <1>11, <1>12
    <3>4. node[n] \in NodeRec
      BY Zenon, <2>1, <1>2, <1>4, NodeTyped
    <3>5. node[n].next = IF n < L THEN n + 1 ELSE 0
      BY Zenon, <3>1 DEF IsLeaf
    <3>6. /\ node'[n].is_leaf = node[n].is_leaf
          /\ node'[n].children = node[n].children
          /\ node'[n].keys = node[n].keys
          /\ node'[n].vals = node[n].vals
          /\ node'[n].next = n + 1
      BY <2>1, <3>3, <3>4, <3>5, <1>4 DEF NodeRec
    <3> QED
      BY Zenon, <3>1, <3>2, <3>6, <1>3, LeafKept
  <2>2. CASE n = L + 1
    <3>1. /\ node'[n].is_leaf /\ node'[n].children = <<>> /\ node'[n].keys = ks
          /\ node'[n].vals = vs /\ node'[n].next = 0
      BY <2>2, <1>12 DEF Leaf
    <3>2. s3[n] = i /\ s3[n + 1] = i + cnt /\ ~(n < L + 1)
      BY <2>2, <1>4, <1>14
    <3>3. \A q \in 1 .. Len(ks) : ks[q] = keys[s3[n] + q - 1]
      BY Zenon, <3>2, <1>8
    <3>4. s3[n + 1] = s3[n] + Len(ks)
      BY Zenon, <3>2, <1>8
    <3> QED
      BY Zenon, <3>1, <3>2, <3>3, <3>4, <1>3, <1>7, <1>8, <1>9 DEF IsLeaf
  <2> QED
    BY <2>1, <2>2, <1>4
<1>16. Leaves(s3, L + 1)'
  <2>1. L + 1 \in 0 .. Len(node') /\ (L + 1) + 1 = L + 2
    BY <1>4, <1>12
  <2> QED
    BY Zenon, <2>1, <1>3, <1>14, <1>15 DEF Leaves, K
<1>17. Inners(id, id, L + 1)'
  <2>1. \A n \in (L + 1) + 1 .. L + 1 : FALSE
    BY <1>4
  <2>2. id \in [1 .. L + 1 -> 1 .. L + 1] /\ \A n \in 1 .. L + 1 : id[n] = n
    OBVIOUS
  <2> HIDE DEF id
  <2> QED
    BY Zenon, <2>1, <2>2, <1>12 DEF Inners
<1>18. /\ level' \in Seq(1 .. L + 1) /\ Len(level') = L + 1
       /\ \A j \in 1 .. L + 1 : level'[j] = j
  <2>1. level \in Seq(1 .. L + 1)
    BY <1>2, <1>4 DEF Levels
  <2> QED
    BY <2>1, <1>3, <1>4
<1>19. Levels(id, id, L + 1)'
  <2>1. \A n \in 1 .. L + 1 : id[n] = n
    OBVIOUS
  <2> HIDE DEF id
  <2>2. L + 1 # 0 /\ level' # <<>> /\ 1 \in 1 .. L + 1 /\ L + 1 \in 1 .. L + 1
    BY <1>4, <1>18
  <2>3. id[level'[1]] = 1 /\ id[level'[Len(level')]] = L + 1
    BY Zenon, <2>1, <2>2, <1>18
  <2>4. \A c \in 1 .. (L + 1) - 1 : c \in 1 .. L + 1 /\ c + 1 \in 1 .. L + 1
    BY <1>4
  <2>5. Consecutive(level', id, id)
    <3>1. ASSUME NEW c \in 1 .. (L + 1) - 1
          PROVE  id[level'[c + 1]] = id[level'[c]] + 1
      <4>1. level'[c + 1] = c + 1 /\ level'[c] = c
        BY Zenon, <2>4, <1>18
      <4> QED
        BY Zenon, <2>1, <2>4, <4>1
    <3> QED
      BY Zenon, <3>1, <1>18 DEF Consecutive
  <2> QED
    BY Zenon, <2>2, <2>3, <2>5, <1>12, <1>18 DEF Levels
<1>20. Phases(s3, L + 1)'
  <2>1. s3[(L + 1) + 1] = IF i' <= K THEN i' ELSE K + 1
    BY <1>3, <1>4, <1>7, <1>14
  <2>2. phase' = "leaves" /\ phase' # "ready"
    BY <1>3
  <2> QED
    BY Zenon, <2>1, <2>2, <1>3, <1>4, <1>12, <1>18 DEF Phases, K
<1>21. phase' # "inner"
  BY <1>3
<1> HIDE DEF id
<1> QED
  BY Zenon, <1>13, <1>16, <1>17, <1>19, <1>20, <1>21 DEF TreeInv, Shape

(* first_key finds the first key under every node.                         *)
FirstKeys(a) == \A n \in 1 .. Len(node) : first_key[n] = node[a[n]].keys[1]

(* The next inner node is over the leaves under the nodes it takes, and    *)
(* goes on where the last one ended.                                       *)
LEMMA InnerInShape ==
  ASSUME TreeAssumption, Types, NEW a, NEW b, NEW s, NEW L, Shape(a, b, s, L),
         FirstKeys(a), BuildInner
  PROVE  TreeInv'
<1> DEFINE M   == Len(level)
           N   == Len(node)
           cnt == Min({FANOUT + 1, M - i + 1})
           cs  == SubSeq(level, i, i + cnt - 1)
           ks  == [j \in 1 .. cnt - 1 |-> first_key[cs[j + 1]]]
<1>2. /\ phase = "inner" /\ phase' = phase /\ keys' = keys /\ M > 1 /\ i <= M
      /\ node' = Append(node, Inner(ks, cs))
      /\ parents' = Append(parents, N + 1)
      /\ i' = i + (FANOUT + 1)
      /\ level' = level /\ root' = root
  BY Zenon DEF BuildInner, AddInner
<1>3. /\ Types /\ Leaves(s, L) /\ Inners(a, b, L) /\ Levels(a, b, L)
      /\ Parents(a, b) /\ Phases(s, L)
  BY Zenon, <1>2 DEF Shape
<1>4. /\ L \in Nat /\ N \in Nat /\ M \in Nat /\ i \in Nat \ {0} /\ FANOUT \in Nat \ {0}
      /\ level \in Seq(1 .. N) /\ parents \in Seq(1 .. N) /\ L <= N
      /\ \A c \in 1 .. M : level[c] \in 1 .. N
  <2>1. level \in Seq(1 .. N) /\ parents \in Seq(1 .. N) /\ L \in 0 .. N
    BY Zenon, <1>3 DEF Levels, Parents, Leaves
  <2>2. N \in Nat /\ i \in Nat \ {0} /\ FANOUT \in Nat \ {0}
    BY Zenon, <1>3, NodeTyped DEF Types, TreeAssumption
  <2> HIDE DEF N
  <2> QED
    BY <2>1, <2>2
<1>5. L > 0 /\ a[level[1]] = 1 /\ b[level[M]] = L
  <2>1. level # <<>>
    BY <1>2, <1>4
  <2>2. L > 0
    BY <2>1, <1>3, <1>4 DEF Levels
  <2> QED
    BY Zenon, <2>2, <1>3 DEF Levels
<1>6. cnt = IF FANOUT + 1 <= M - i + 1 THEN FANOUT + 1 ELSE M - i + 1
  <2>1. M - i + 1 \in Nat /\ FANOUT + 1 \in Nat
    BY <1>2, <1>4
  <2> HIDE DEF M
  <2> QED
    BY <2>1, LeastOfTwo
<1>7. /\ cnt \in 1 .. FANOUT + 1 /\ i + cnt - 1 <= M /\ cnt \in Nat
      /\ i + cnt - 1 = IF i' <= M THEN i' - 1 ELSE M
  <2> HIDE DEF cnt, M
  <2> QED
    BY <1>2, <1>4, <1>6
<1>8. /\ cs \in Seq(1 .. N) /\ Len(cs) = cnt
      /\ \A q \in 1 .. cnt : cs[q] = level[i + q - 1] /\ cs[q] \in 1 .. N
  <2> HIDE DEF cnt, N
  <2> QED
    BY Zenon, <1>4, <1>7, RunFrom
<1> HIDE DEF cnt, cs
<1>9. \A n \in 1 .. N : a[n] \in 1 .. L /\ b[n] \in 1 .. L
  BY Zenon, <1>3 DEF Inners
<1>10. \A n \in 1 .. N : first_key[n] = node[a[n]].keys[1] /\ first_key[n] \in Nat
  <2>1. ASSUME NEW n \in 1 .. N
        PROVE  first_key[n] = node[a[n]].keys[1] /\ first_key[n] \in Nat
    <3>1. first_key[n] = node[a[n]].keys[1]
      BY Zenon DEF FirstKeys, N
    <3>2. a[n] \in 1 .. L /\ a[n] \in 1 .. N
      BY <1>4, <1>9
    <3>3. node[a[n]].keys \in Seq(Nat) /\ Len(node[a[n]].keys) \in 1 .. FANOUT
      BY Zenon, <1>3, <3>2, NodeTyped DEF Leaves, IsLeaf
    <3>4. node[a[n]].keys[1] \in Nat
      BY SMTT(60), <3>3
    <3> QED
      BY Zenon, <3>1, <3>4
  <2> QED
    BY Zenon, <2>1
<1>11. \A j \in 1 .. cnt - 1 : j \in 1 .. cnt /\ j + 1 \in 1 .. cnt
  BY <1>7
<1>12. /\ ks \in Seq(Nat) /\ Len(ks) = cnt - 1
       /\ \A j \in 1 .. cnt - 1 : ks[j] = node[a[cs[j + 1]]].keys[1]
  <2>1. \A j \in 1 .. cnt - 1 : /\ first_key[cs[j + 1]] \in Nat
                                /\ first_key[cs[j + 1]] = node[a[cs[j + 1]]].keys[1]
    BY Zenon, <1>8, <1>10, <1>11
  <2> QED
    BY <2>1, <1>7
<1> HIDE DEF ks
<1>13. Inner(ks, cs) \in NodeRec
  <2>1. cs \in Seq(Nat)
    BY <1>4, <1>8
  <2> QED
    BY <2>1, <1>12 DEF Inner, NodeRec
<1>14. /\ node' \in Seq(NodeRec) /\ Len(node') = N + 1
       /\ \A n \in 1 .. N : node'[n] = node[n]
       /\ node'[N + 1] = Inner(ks, cs)
  <2>1. PICK nd : nd = Inner(ks, cs)
    BY Zenon
  <2>2. nd \in NodeRec /\ node' = Append(node, nd) /\ node \in Seq(NodeRec)
    BY Zenon, <2>1, <1>2, <1>3, <1>13 DEF Types
  <2>3. /\ node' \in Seq(NodeRec) /\ Len(node') = N + 1
        /\ \A n \in 1 .. N : node'[n] = node[n]
        /\ node'[N + 1] = nd
    BY <2>2
  <2> QED
    BY Zenon, <2>1, <2>3
<1>15. Types'
  <2>1. i' \in Nat \ {0}
    BY <1>2, <1>4
  <2> QED
    BY Zenon, <2>1, <1>2, <1>3, <1>14 DEF Types, Sorted, NodeRec, TreeVals
<1> HIDE DEF N, M
<1>16. PICK w, x, y, x2, y2 :
         /\ w = N + 1 /\ x = a[cs[1]] /\ y = b[cs[cnt]]
         /\ x2 = [n \in 1 .. w |-> IF n = w THEN x ELSE a[n]]
         /\ y2 = [n \in 1 .. w |-> IF n = w THEN y ELSE b[n]]
  BY Zenon
<1>17. x \in 1 .. L /\ y \in 1 .. L /\ cs[1] \in 1 .. N /\ cs[cnt] \in 1 .. N
       /\ cs[1] = level[i] /\ cs[cnt] = level[i + cnt - 1]
  <2>1. 1 \in 1 .. cnt /\ cnt \in 1 .. cnt /\ i + 1 - 1 = i
    BY <1>4, <1>7
  <2>2. /\ cs[1] \in 1 .. N /\ cs[cnt] \in 1 .. N
        /\ cs[1] = level[i + 1 - 1] /\ cs[cnt] = level[i + cnt - 1]
    BY Zenon, <2>1, <1>8
  <2> QED
    BY Zenon, <2>1, <2>2, <1>9, <1>16
<1>18. /\ x2 \in [1 .. w -> 1 .. L] /\ y2 \in [1 .. w -> 1 .. L]
       /\ x2[w] = x /\ y2[w] = y
       /\ \A n \in 1 .. N : x2[n] = a[n] /\ y2[n] = b[n]
  BY SMTT(60), <1>4, <1>9, <1>16, <1>17
<1>19. w \in Nat /\ w = N + 1 /\ 1 .. N \subseteq 1 .. w /\ w - 1 = N
  BY <1>4, <1>16
<1>20. Leaves(s, L)'
  <2>1. ASSUME NEW n \in 1 .. L PROVE IsLeaf(s, L, n)'
    <3>1. IsLeaf(s, L, n) /\ n \in 1 .. N
      BY <1>3, <1>4 DEF Leaves
    <3>2. node'[n] = node[n]
      BY Zenon, <3>1, <1>14
    <3> QED
      BY Zenon, <3>1, <3>2, <1>2 DEF IsLeaf
  <2>2. L \in 0 .. Len(node')
    BY <1>4, <1>14
  <2> QED
    BY Zenon, <2>1, <2>2, <1>2, <1>3 DEF Leaves
<1>21. ASSUME NEW n \in L + 1 .. w PROVE IsInner(x2, y2, n)'
  <2>1. CASE n \in L + 1 .. N
    <3>1. IsInner(a, b, n)
      BY Zenon, <1>3, <2>1 DEF Inners, N
    <3>2. n \in 1 .. N /\ n \in Nat /\ 1 .. n \subseteq 1 .. N /\ 1 .. L \subseteq 1 .. N
      BY <2>1, <1>4
    <3>3. \A m \in 1 .. n : x2[m] = a[m] /\ y2[m] = b[m] /\ a[m] \in 1 .. L
      BY Zenon, <3>2, <1>9, <1>18
    <3>4. \A m \in 1 .. L : node'[m].keys = node[m].keys
      BY Zenon, <3>2, <1>14
    <3>5. node'[n] = node[n]
      BY Zenon, <3>2, <1>14
    <3> QED
      BY Zenon, <3>1, <3>2, <3>3, <3>4, <3>5, <1>3, InnerKept DEF N
  <2>2. CASE n = w
    <3>1. /\ ~node'[w].is_leaf /\ node'[w].vals = <<>> /\ node'[w].next = 0
          /\ node'[w].children = cs /\ node'[w].keys = ks
      BY <1>14, <1>19 DEF Inner
    <3>2. \A c \in 1 .. cnt : /\ x2[cs[c]] = a[cs[c]] /\ y2[cs[c]] = b[cs[c]]
                              /\ cs[c] \in 1 .. w - 1 /\ a[cs[c]] \in 1 .. L
      BY Zenon, <1>8, <1>9, <1>18, <1>19
    <3>3. x2[w] = x2[cs[1]] /\ y2[w] = y2[cs[cnt]]
      BY Zenon, <1>16, <1>17, <1>18
    <3>4. ASSUME NEW c \in 1 .. cnt - 1
          PROVE  /\ x2[cs[c + 1]] = y2[cs[c]] + 1
                 /\ ks[c] = node'[x2[cs[c + 1]]].keys[1]
      <4>1. c \in 1 .. cnt /\ c + 1 \in 1 .. cnt
        BY Zenon, <1>11
      <4>2. x2[cs[c + 1]] = a[cs[c + 1]] /\ y2[cs[c]] = b[cs[c]] /\ a[cs[c + 1]] \in 1 .. L
        BY Zenon, <3>2, <4>1
      <4>3. cs[c] = level[i + c - 1] /\ cs[c + 1] = level[i + (c + 1) - 1]
        BY Zenon, <1>8, <4>1
      <4>4. i + c - 1 \in 1 .. M - 1 /\ i + (c + 1) - 1 = (i + c - 1) + 1
        BY <1>4, <1>7
      <4>5. a[level[(i + c - 1) + 1]] = b[level[i + c - 1]] + 1
        BY Zenon, <4>4, <1>3 DEF Levels, Consecutive, M
      <4>6. a[cs[c + 1]] = b[cs[c]] + 1
        BY Zenon, <4>3, <4>4, <4>5
      <4>7. a[cs[c + 1]] \in 1 .. N
        BY <4>2, <1>4
      <4>8. ks[c] = node'[a[cs[c + 1]]].keys[1]
        BY Zenon, <4>7, <1>12, <1>14
      <4> QED
        BY Zenon, <4>2, <4>6, <4>8
    <3>5. Consecutive(cs, x2, y2)
      BY Zenon, <3>4, <1>8 DEF Consecutive
    <3>6. IsInner(x2, y2, w)'
      <4> HIDE <2>2
      <4> QED
        BY ZenonT(60), <3>1, <3>2, <3>3, <3>4, <3>5, <1>7, <1>8, <1>12 DEF IsInner, Consecutive
    <3> QED
      BY Zenon, <3>6, <2>2
  <2> QED
    BY <2>1, <2>2, <1>4, <1>19
<1>22. Inners(x2, y2, L)'
  <2>1. \A n \in 1 .. L : n \in 1 .. N
    BY <1>4
  <2>2. \A n \in 1 .. L : x2[n] = n /\ y2[n] = n
    BY Zenon, <2>1, <1>3, <1>18 DEF Inners
  <2> QED
    BY Zenon, <2>2, <1>14, <1>18, <1>19, <1>21 DEF Inners
<1>23. Levels(x2, y2, L)'
  <2>1. \A c \in 1 .. M : x2[level[c]] = a[level[c]] /\ y2[level[c]] = b[level[c]]
    BY Zenon, <1>4, <1>18
  <2>2. 1 \in 1 .. M /\ M \in 1 .. M /\ L # 0
        /\ \A c \in 1 .. M - 1 : c \in 1 .. M /\ c + 1 \in 1 .. M
    BY SMTT(30), <1>2, <1>4, <1>5
  <2>6. level # <<>>
    BY <1>2, <1>4 DEF M
  <2>7. level \in Seq(1 .. w)
    BY <1>4, <1>19
  <2>3. x2[level[1]] = 1 /\ y2[level[M]] = L
    BY Zenon, <2>1, <2>2, <1>5
  <2>4. ASSUME NEW c \in 1 .. M - 1 PROVE x2[level[c + 1]] = y2[level[c]] + 1
    <3>1. a[level[c + 1]] = b[level[c]] + 1
      BY Zenon, <1>3 DEF Levels, Consecutive, M
    <3>2. x2[level[c + 1]] = a[level[c + 1]] /\ y2[level[c]] = b[level[c]]
      BY Zenon, <2>1, <2>2
    <3> QED
      BY Zenon, <3>1, <3>2
  <2>5. Len(node') = w
    BY Zenon, <1>14, <1>19
  <2> QED
    BY Zenon, <2>2, <2>3, <2>4, <2>5, <2>6, <2>7, <1>2 DEF Levels, Consecutive, M
<1> DEFINE P == Len(parents)
<1>24. /\ parents' \in Seq(1 .. w) /\ Len(parents') = P + 1 /\ P \in Nat
       /\ parents'[P + 1] = w
       /\ \A c \in 1 .. P : parents'[c] = parents[c] /\ parents[c] \in 1 .. N
  <2>1. parents \in Seq(1 .. w)
    BY <1>4, <1>19
  <2> QED
    BY SMTT(60), <2>1, <1>2, <1>4, <1>19
<1> HIDE DEF P
<1>25. \A c \in 1 .. P : /\ x2[parents'[c]] = a[parents[c]]
                         /\ y2[parents'[c]] = b[parents[c]]
  BY ZenonT(60), <1>18, <1>24
<1>26. x2[parents'[1]] = 1
  <2>1. CASE parents = <<>>
    <3>1. i = 1 /\ P + 1 = 1
      BY <2>1, <1>3 DEF Parents, P
    <3> QED
      BY Zenon, <3>1, <1>5, <1>16, <1>17, <1>18, <1>24
  <2>2. CASE parents # <<>>
    <3>1. a[parents[1]] = 1
      BY Zenon, <2>2, <1>3 DEF Parents
    <3>2. 1 \in 1 .. P
      BY <2>2, <1>4 DEF P
    <3> QED
      BY Zenon, <3>1, <3>2, <1>25
  <2> QED
    BY Zenon, <2>1, <2>2
<1>27. ASSUME NEW c \in 1 .. P PROVE x2[parents'[c + 1]] = y2[parents'[c]] + 1
  <2>1. CASE c \in 1 .. P - 1
    <3>1. a[parents[c + 1]] = b[parents[c]] + 1
      BY Zenon, <2>1, <1>3 DEF Parents, Consecutive, P
    <3>2. c + 1 \in 1 .. P
      BY <2>1, <1>24
    <3> QED
      BY Zenon, <3>1, <3>2, <1>25
  <2>2. CASE c = P
    <3>1. parents # <<>>
      BY <2>2, <1>4 DEF P
    <3>2. /\ i > 1 /\ b[parents[P]] = b[level[IF i <= M THEN i - 1 ELSE M]]
      BY Zenon, <3>1, <1>3 DEF Parents, P, M
    <3>3. i - 1 \in 1 .. M - 1 /\ (i - 1) + 1 = i
      BY <3>2, <1>2, <1>4
    <3>4. a[level[(i - 1) + 1]] = b[level[i - 1]] + 1
      BY Zenon, <3>3, <1>3 DEF Levels, Consecutive, M
    <3>5. x = b[parents[P]] + 1
      BY Zenon, <3>2, <3>3, <3>4, <1>2, <1>16, <1>17
    <3> QED
      BY Zenon, <2>2, <3>5, <1>18, <1>24, <1>25
  <2> QED
    BY <2>1, <2>2, <1>24
<1>28. y2[parents'[P + 1]] = b[level[IF i' <= M THEN i' - 1 ELSE M]]
  <2>1. b[level[i + cnt - 1]] = b[level[IF i' <= M THEN i' - 1 ELSE M]]
    BY Zenon, <1>7
  <2> QED
    BY Zenon, <2>1, <1>16, <1>17, <1>18, <1>24
<1>29. Parents(x2, y2)'
  <2>1. i' > 1 /\ (P + 1) - 1 = P
    BY <1>2, <1>4, <1>24
  <2>4. parents' # <<>>
    BY <1>24
  <2>2. y2[level[IF i' <= M THEN i' - 1 ELSE M]] = b[level[IF i' <= M THEN i' - 1 ELSE M]]
    <3>1. (IF i' <= M THEN i' - 1 ELSE M) \in 1 .. M
      BY <1>2, <1>4, <2>1
    <3> QED
      BY Zenon, <3>1, <1>4, <1>18
  <2>3. Len(node') = w
    BY Zenon, <1>14, <1>19
  <2> QED
    BY Zenon, <2>1, <2>2, <2>3, <2>4, <1>2, <1>24, <1>26, <1>27, <1>28
       DEF Parents, Consecutive, M
<1>30. Phases(s, L)'
  BY Zenon, <1>2, <1>3 DEF Phases
<1> QED
  BY Zenon, <1>15, <1>20, <1>22, <1>23, <1>29, <1>30 DEF TreeInv, Shape

(* Where the keys of a leaf are among the loaded keys.                     *)
LEMMA LeafPlaces ==
  ASSUME Types, NEW s, NEW L, Leaves(s, L), NEW n \in 1 .. L
  PROVE  /\ s[n] \in Nat /\ s[n] >= 1
         /\ s[n + 1] \in Nat /\ s[n + 1] <= Len(keys) + 1
         /\ Len(node[n].keys) \in Nat /\ Len(node[n].keys) >= 1
         /\ s[n + 1] = s[n] + Len(node[n].keys)
         /\ \A q \in 1 .. Len(node[n].keys) :
              /\ s[n] + q - 1 \in 1 .. Len(keys)
              /\ node[n].keys[q] = keys[s[n] + q - 1]
<1>1. L \in Nat /\ s \in [1 .. L + 1 -> 1 .. Len(keys) + 1] /\ Len(keys) \in Nat
  BY DEF Leaves, Types, Sorted
<1>2. n \in 1 .. L + 1 /\ n + 1 \in 1 .. L + 1 /\ n \in 1 .. Len(node)
  BY <1>1 DEF Leaves, Types
<1>3. s[n] \in 1 .. Len(keys) + 1 /\ s[n + 1] \in 1 .. Len(keys) + 1
  BY Zenon, <1>1, <1>2
<1>4. Len(node[n].keys) \in Nat
  BY Zenon, <1>2, NodeTyped
<1>5. /\ Len(node[n].keys) \in 1 .. FANOUT
      /\ s[n + 1] = s[n] + Len(node[n].keys)
      /\ \A q \in 1 .. Len(node[n].keys) : node[n].keys[q] = keys[s[n] + q - 1]
  BY Zenon DEF Leaves, IsLeaf
<1> DEFINE m == Len(node[n].keys)
           x == s[n]
           y == s[n + 1]
           K == Len(keys)
<1> HIDE DEF m, x, y, K
<1>6. /\ m \in Nat /\ m \in 1 .. FANOUT /\ y = x + m
      /\ x \in 1 .. K + 1 /\ y \in 1 .. K + 1 /\ K \in Nat
  BY Zenon, <1>1, <1>3, <1>4, <1>5 DEF m, x, y, K
<1>7. /\ x \in Nat /\ x >= 1 /\ y \in Nat /\ y <= K + 1 /\ m >= 1
      /\ \A q \in 1 .. m : x + q - 1 \in 1 .. K
  BY <1>6
<1> QED
  BY Zenon, <1>4, <1>5, <1>7 DEF m, x, y, K

(* The loaded keys are in order, so their places are.                      *)
LEMMA KeyOrder ==
  ASSUME Types, NEW p \in 1 .. Len(keys), NEW q \in 1 .. Len(keys)
  PROVE  /\ keys[p] \in Nat /\ keys[q] \in Nat
         /\ p < q => keys[p] < keys[q]
         /\ p <= q => keys[p] <= keys[q]
         /\ keys[p] = keys[q] => p = q
<1>1. DOMAIN keys = 1 .. Len(keys) /\ Len(keys) \in Nat /\ keys[p] \in Nat /\ keys[q] \in Nat
  BY DEF Types, Sorted
<1>2. (p < q => keys[p] < keys[q]) /\ (q < p => keys[q] < keys[p])
  BY Zenon, <1>1 DEF Types, Sorted
<1> DEFINE x == keys[p]
           y == keys[q]
<1> HIDE DEF x, y
<1>3. x \in Nat /\ y \in Nat /\ (p < q => x < y) /\ (q < p => y < x) /\ p \in Nat /\ q \in Nat
  BY <1>1, <1>2 DEF x, y
<1>4. (p <= q => x <= y) /\ (x = y => p = q)
  <2>1. p < q \/ p = q \/ q < p
    BY <1>3
  <2>2. p = q => x = y
    BY DEF x, y
  <2> QED
    BY <1>3, <2>1, <2>2
<1> QED
  BY Zenon, <1>1, <1>2, <1>4 DEF x, y

(* Leaves further on have later places.                                    *)
LEMMA LeafOrder ==
  ASSUME Types, NEW s, NEW L, Leaves(s, L), NEW m \in 1 .. L, NEW n \in 1 .. L, m < n
  PROVE  s[m + 1] <= s[n]
<1>1. L \in Nat /\ m \in Nat /\ n \in Nat
  BY DEF Leaves, Types
<1>2. m + 1 \in 1 .. L + 1 /\ n \in 1 .. L + 1 /\ (m + 1 < n \/ m + 1 = n)
  BY <1>1
<1>3. s[m + 1] \in Nat /\ s[n] \in Nat
  BY Zenon, LeafPlaces
<1>4. m + 1 < n => s[m + 1] < s[n]
  BY Zenon, <1>2 DEF Leaves
<1> QED
  BY <1>2, <1>3, <1>4

(* A place of the loaded keys is that of one slot of one leaf.             *)
LEMMA OneSlot ==
  ASSUME Types, NEW s, NEW L, Leaves(s, L), NEW k,
         NEW m \in 1 .. L, NEW n \in 1 .. L,
         NEW x \in Hits(m, k), NEW y \in Hits(n, k)
  PROVE  m = n /\ x = y
<1>1. /\ m # 0 /\ n # 0 /\ m \in 1 .. Len(node) /\ n \in 1 .. Len(node)
      /\ m \in Nat /\ n \in Nat
  BY DEF Leaves, Types
<1>2. /\ x \in 1 .. Len(node[m].keys) /\ node[m].keys[x] = k
      /\ y \in 1 .. Len(node[n].keys) /\ node[n].keys[y] = k
  BY Zenon, <1>1, NodeTyped DEF Hits
<1> DEFINE p == s[m] + x - 1
           q == s[n] + y - 1
<1>3. p \in 1 .. Len(keys) /\ q \in 1 .. Len(keys) /\ keys[p] = k /\ keys[q] = k
  <2>1. p \in 1 .. Len(keys) /\ keys[p] = k
    BY ZenonT(60), <1>2, LeafPlaces
  <2>2. q \in 1 .. Len(keys) /\ keys[q] = k
    BY ZenonT(60), <1>2, LeafPlaces
  <2> QED
    BY Zenon, <2>1, <2>2
<1>4. p = q
  <2> HIDE DEF p, q
  <2> QED
    BY Zenon, <1>3, KeyOrder
<1>5. /\ s[m] \in Nat /\ s[n] \in Nat /\ Len(node[m].keys) \in Nat /\ Len(node[n].keys) \in Nat
      /\ s[m + 1] = s[m] + Len(node[m].keys) /\ s[n + 1] = s[n] + Len(node[n].keys)
  BY ZenonT(60), LeafPlaces
<1> DEFINE v  == s[m]
           w  == s[n]
           lm == Len(node[m].keys)
           ln == Len(node[n].keys)
<1> HIDE DEF v, w, lm, ln
<1>6. /\ v \in Nat /\ w \in Nat /\ lm \in Nat /\ ln \in Nat
      /\ x \in 1 .. lm /\ y \in 1 .. ln /\ v + x - 1 = w + y - 1
      /\ m < n => v + lm <= w
      /\ n < m => w + ln <= v
  BY Zenon, <1>2, <1>4, <1>5, LeafOrder DEF v, w, lm, ln
<1>7. ~(m < n) /\ ~(n < m) /\ x \in Nat /\ y \in Nat
  BY <1>6
<1>8. m = n
  BY <1>1, <1>7
<1> QED
  BY <1>6, <1>7, <1>8 DEF v, w

(* The least of one number.                                                *)
LEMMA MinOfOne == \A x \in Int : Min({x}) = x
  BY DEF Min

(* The leaves hold a key in a slot, and the map has that slot's value, or  *)
(* nowhere, and the map has none.                                          *)
LEMMA StoredFound ==
  ASSUME Types, NEW s, NEW L, Leaves(s, L), NEW a, NEW b, Inners(a, b, L), NEW k
  PROVE  /\ \A n \in 1 .. L : \A x \in Hits(n, k) :
              Hits(n, k) = {x} /\ Min(Hits(n, k)) = x /\ Stored(k) = node[n].vals[x]
         /\ (\A n \in 1 .. L : Hits(n, k) = {}) => Stored(k) = Absent
<1> DEFINE at == {n \in DOMAIN node : node[n].is_leaf /\ Hits(n, k) # {}}
<1>1. L \in Nat /\ Len(node) \in Nat /\ L <= Len(node) /\ DOMAIN node = 1 .. Len(node)
  BY DEF Leaves, Types
<1>2. \A n \in DOMAIN node : node[n].is_leaf <=> n \in 1 .. L
  <2>1. \A n \in 1 .. L : node[n].is_leaf
    BY Zenon DEF Leaves, IsLeaf
  <2>2. \A n \in L + 1 .. Len(node) : ~node[n].is_leaf
    BY Zenon DEF Inners, IsInner
  <2> QED
    BY <1>1, <2>1, <2>2
<1>3. \A n \in 1 .. L : n \in DOMAIN node
  BY <1>1
<1>4. ASSUME NEW n \in 1 .. L, NEW x \in Hits(n, k)
      PROVE  Hits(n, k) = {x} /\ Min(Hits(n, k)) = x /\ Stored(k) = node[n].vals[x]
  <2>1. Hits(n, k) = {x}
    BY Zenon, OneSlot
  <2>2. \A m \in at : m = n
    BY Zenon, <1>2, OneSlot
  <2>3. at = {n}
    BY Zenon, <1>2, <1>3, <2>2
  <2>4. n \in Int /\ x \in Int
    <3>1. n # 0 /\ n \in Int
      OBVIOUS
    <3>2. x \in DOMAIN node[n].keys
      BY Zenon, <3>1 DEF Hits
    <3>3. DOMAIN node[n].keys = 1 .. Len(node[n].keys)
      BY Zenon, <1>1, <1>3, NodeTyped
    <3> QED
      BY <3>1, <3>2, <3>3
  <2>5. Min(at) = n /\ Min(Hits(n, k)) = x
    BY Zenon, <2>1, <2>3, <2>4, MinOfOne
  <2>6. Stored(k) = node[Min(at)].vals[Min(Hits(Min(at), k))]
    BY Zenon, <2>3 DEF Stored
  <2> QED
    BY Zenon, <2>1, <2>5, <2>6
<1>5. ASSUME \A n \in 1 .. L : Hits(n, k) = {} PROVE Stored(k) = Absent
  <2>1. at = {}
    BY Zenon, <1>2, <1>5
  <2> QED
    BY Zenon, <2>1 DEF Stored
<1> QED
  BY Zenon, <1>4, <1>5

(* The values that the leaves hold.                                        *)
LEMMA ValueTyped ==
  ASSUME Types, NEW s, NEW L, Leaves(s, L), NEW n \in 1 .. L, NEW k, NEW x \in Hits(n, k)
  PROVE  node[n].vals[x] \in TreeVals
<1>1. n # 0 /\ n \in 1 .. Len(node)
  BY DEF Leaves, Types
<1>2. x \in 1 .. Len(node[n].keys)
  BY Zenon, <1>1, NodeTyped DEF Hits
<1>3. Len(node[n].vals) = Len(node[n].keys) /\ node[n].vals \in Seq(TreeVals)
  BY Zenon, <1>1, NodeTyped DEF Leaves, IsLeaf
<1> QED
  BY <1>2, <1>3

(* What is stored depends on the nodes only.                               *)
LEMMA StoredStays ==
  ASSUME node' = node
  PROVE  \A k : Stored(k)' = Stored(k)
  BY ZenonT(60) DEF Stored, Hits

(* The shape depends on the tree and on the state of the load only.        *)
LEMMA ShapeStays ==
  ASSUME TreeInv, UNCHANGED <<keys, node, level, parents, i, phase, root>>
  PROVE  TreeInv' /\ \A q : Stored(q)' = Stored(q)
<1>1. PICK L, a, b, s : Shape(a, b, s, L)
  BY Zenon DEF TreeInv
<1>2. /\ keys' = keys /\ node' = node /\ level' = level /\ parents' = parents
      /\ i' = i /\ phase' = phase /\ root' = root
  OBVIOUS
<1>3. Types'
  BY Zenon, <1>2 DEF TreeInv, Types, Sorted, NodeRec, TreeVals
<1>4. Leaves(s, L)'
  <2>1. ASSUME NEW n, IsLeaf(s, L, n) PROVE IsLeaf(s, L, n)'
    BY Zenon, <2>1, <1>2, NodesStay
  <2> QED
    BY Zenon, <2>1, <1>1, <1>2 DEF Shape, Leaves
<1>5. Inners(a, b, L)'
  <2>1. ASSUME NEW n, IsInner(a, b, n) PROVE IsInner(a, b, n)'
    BY Zenon, <2>1, <1>2, NodesStay
  <2> QED
    BY Zenon, <2>1, <1>1, <1>2 DEF Shape, Inners
<1>6. Levels(a, b, L)' /\ (phase' = "inner" => Parents(a, b)')
  BY Zenon, <1>1, <1>2 DEF Shape, Levels, Parents, Consecutive
<1>7. Phases(s, L)'
  BY Zenon, <1>1, <1>2 DEF Shape, Phases
<1>8. \A q : Stored(q)' = Stored(q)
  BY Zenon, <1>2, StoredStays
<1> QED
  BY Zenon, <1>3, <1>4, <1>5, <1>6, <1>7, <1>8 DEF TreeInv, Shape

(* The map has what the slots of the leaves hold for k.                    *)
Reads(L, k) ==
  /\ \A n \in 1 .. L : \A x \in Hits(n, k) : Stored(k) = node[n].vals[x]
  /\ (\A n \in 1 .. L : Hits(n, k) = {}) => Stored(k) = Absent

(* So it is for every key, whatever the tree in that shape.                *)
LeavesRead ==
  \A a, b, s, L, k : Types /\ Leaves(s, L) /\ Inners(a, b, L) => Reads(L, k)

(* StoredFound in every state, so also in the one after a step.            *)
LEMMA StoredFoundAlways == LeavesRead
<1>1. ASSUME NEW a, NEW b, NEW s, NEW L, NEW k, Types, Leaves(s, L), Inners(a, b, L)
      PROVE  Reads(L, k)
  BY Zenon, <1>1, StoredFound DEF Reads
<1> QED
  BY Zenon, <1>1 DEF LeavesRead

(* Where an update writes, only that value changes.                        *)
LEMMA WriteKeeps ==
  ASSUME TreeAssumption, Types, NEW a, NEW b, NEW s, NEW L, Shape(a, b, s, L),
         phase = "ready", NEW k \in Nat, NEW v \in TreeVals,
         NEW n \in 1 .. L, NEW x, x \in Hits(n, k),
         node' = [node EXCEPT ![n].vals[x] = v],
         UNCHANGED <<keys, level, parents, i, phase, root>>
  PROVE  TreeInv' /\ \A q : Stored(q)' = IF q = k THEN v ELSE Stored(q)
<1>1. /\ Leaves(s, L) /\ Inners(a, b, L) /\ Levels(a, b, L) /\ Phases(s, L)
      /\ L \in Nat /\ L <= Len(node) /\ Len(node) \in Nat /\ n \in 1 .. Len(node) /\ n # 0
  BY DEF Shape, Leaves, Types
<1>2. /\ keys' = keys /\ level' = level /\ parents' = parents
      /\ i' = i /\ phase' = phase /\ root' = root
  OBVIOUS
<1> DEFINE vs == node[n].vals
<1>3. node[n] \in NodeRec /\ vs \in Seq(TreeVals) /\ IsLeaf(s, L, n)
  BY Zenon, <1>1, NodeTyped DEF Leaves
<1>4. x \in 1 .. Len(vs)
  BY Zenon, <1>1, <1>3, NodeTyped DEF Hits, IsLeaf
<1>5. /\ [vs EXCEPT ![x] = v] \in Seq(TreeVals)
      /\ Len([vs EXCEPT ![x] = v]) = Len(vs)
      /\ [vs EXCEPT ![x] = v][x] = v
      /\ \A y \in 1 .. Len(vs) : y # x => [vs EXCEPT ![x] = v][y] = vs[y]
  <2> HIDE DEF vs
  <2> QED
    BY <1>3, <1>4
<1>6. PICK ws : ws = [vs EXCEPT ![x] = v]
  BY Zenon
<1>7. node' = [node EXCEPT ![n] = [node[n] EXCEPT !.vals = ws]]
  BY <1>6
<1> HIDE DEF vs
<1>8. node \in Seq(NodeRec)
  BY Zenon DEF Types
<1>9. /\ [node[n] EXCEPT !.vals = ws] \in NodeRec
      /\ LET r == [node[n] EXCEPT !.vals = ws]
         IN  /\ r.is_leaf = node[n].is_leaf /\ r.children = node[n].children
             /\ r.keys = node[n].keys /\ r.next = node[n].next /\ r.vals = ws
  <2>1. ASSUME NEW A, NEW B, NEW C, NEW D, NEW E, NEW w \in C,
               NEW r \in [is_leaf : A, keys : B, vals : C, children : D, next : E]
        PROVE  /\ [r EXCEPT !.vals = w]
                    \in [is_leaf : A, keys : B, vals : C, children : D, next : E]
               /\ [r EXCEPT !.vals = w].is_leaf = r.is_leaf
               /\ [r EXCEPT !.vals = w].children = r.children
               /\ [r EXCEPT !.vals = w].keys = r.keys
               /\ [r EXCEPT !.vals = w].next = r.next
               /\ [r EXCEPT !.vals = w].vals = w
    OBVIOUS
  <2>2. ws \in Seq(TreeVals)
    BY Zenon, <1>5, <1>6
  <2> QED
    BY Zenon, <2>1, <2>2, <1>3 DEF NodeRec
<1>10. PICK r : r = [node[n] EXCEPT !.vals = ws]
  BY Zenon
<1>11. /\ node' \in Seq(NodeRec) /\ Len(node') = Len(node)
       /\ node'[n] = r /\ \A m \in 1 .. Len(node) : m # n => node'[m] = node[m]
  <2>1. node' = [node EXCEPT ![n] = r] /\ r \in NodeRec
    BY Zenon, <1>7, <1>9, <1>10
  <2> QED
    <3>1. DOMAIN node = 1 .. Len(node) /\ node \in [1 .. Len(node) -> NodeRec]
      BY <1>8
    <3>2. node' \in [1 .. Len(node) -> NodeRec]
      BY Zenon, <2>1, <3>1
    <3>3. node' \in Seq(NodeRec) /\ Len(node') = Len(node)
      <4>1. ASSUME NEW m, m \in Nat, NEW f, f \in [1 .. m -> NodeRec]
            PROVE  f \in Seq(NodeRec) /\ Len(f) = m
        BY Zenon, <4>1, ListOf
      <4> QED
        BY Zenon, <4>1, <3>2, <1>1
    <3>4. node'[n] = r /\ \A m \in 1 .. Len(node) : m # n => node'[m] = node[m]
      BY Zenon, <2>1, <3>1, <1>1
    <3> QED
      BY Zenon, <3>3, <3>4
<1>12. /\ r.is_leaf = node[n].is_leaf /\ r.children = node[n].children
       /\ r.keys = node[n].keys /\ r.next = node[n].next /\ r.vals = ws
  BY Zenon, <1>9, <1>10
<1>13. ASSUME NEW m \in 1 .. Len(node)
       PROVE  /\ node'[m].is_leaf = node[m].is_leaf /\ node'[m].children = node[m].children
              /\ node'[m].keys = node[m].keys /\ node'[m].next = node[m].next
              /\ Len(node'[m].vals) = Len(node[m].vals)
  BY Zenon, <1>5, <1>6, <1>11, <1>12 DEF vs
<1>14. Types'
  BY Zenon, <1>2, <1>11 DEF Types, Sorted, NodeRec, TreeVals
<1>15. Leaves(s, L)'
  <2>1. ASSUME NEW m \in 1 .. L PROVE IsLeaf(s, L, m)'
    <3>1. m \in 1 .. Len(node) /\ m \in Nat
      BY <1>1
    <3>2. IsLeaf(s, L, m)
      BY Zenon, <1>1 DEF Leaves
    <3>3. node'[m].next = IF m < L THEN m + 1 ELSE 0
      BY Zenon, <3>1, <3>2, <1>13 DEF IsLeaf
    <3> QED
      BY Zenon, <3>1, <3>2, <3>3, <1>2, <1>13, LeafKept
  <2> QED
    BY Zenon, <2>1, <1>1, <1>2, <1>11 DEF Leaves
<1>16. Inners(a, b, L)'
  <2>1. ASSUME NEW m \in L + 1 .. Len(node) PROVE IsInner(a, b, m)'
    <3>1. m \in 1 .. Len(node) /\ m \in Nat /\ m # n /\ 1 .. m \subseteq 1 .. Len(node)
          /\ 1 .. L \subseteq 1 .. Len(node)
      BY <1>1
    <3>2. IsInner(a, b, m)
      BY Zenon, <1>1 DEF Inners
    <3>3. \A c \in 1 .. m : a[c] = a[c] /\ b[c] = b[c] /\ a[c] \in 1 .. L
      BY Zenon, <3>1, <1>1 DEF Inners
    <3>4. node'[m] = node[m] /\ \A c \in 1 .. L : node'[c].keys = node[c].keys
      BY Zenon, <3>1, <1>11, <1>13
    <3> QED
      BY Zenon, <3>1, <3>2, <3>3, <3>4, InnerKept
  <2> QED
    BY Zenon, <2>1, <1>1, <1>11 DEF Inners
<1>17. Levels(a, b, L)' /\ Phases(s, L)' /\ phase' # "inner"
  <2>1. phase' # "inner"
    BY <1>2
  <2>2. Levels(a, b, L)'
    BY Zenon, <1>1, <1>2, <1>11 DEF Levels, Consecutive
  <2>3. Phases(s, L)'
    BY Zenon, <1>1, <1>2, <1>11 DEF Phases
  <2> QED
    BY Zenon, <2>1, <2>2, <2>3
<1>18. \A m \in 1 .. L : \A q : Hits(m, q)' = Hits(m, q)
  <2>1. \A m \in 1 .. L : m \in 1 .. Len(node) /\ m # 0
    BY <1>1
  <2> QED
    BY ZenonT(60), <2>1, <1>13 DEF Hits
<1>19. ASSUME NEW q PROVE Stored(q)' = IF q = k THEN v ELSE Stored(q)
  <2>1. Reads(L, q)
    BY Zenon, <1>1, StoredFoundAlways DEF LeavesRead
  <2>2. LeavesRead'
    BY StoredFoundAlways, PTL
  <2>3. Reads(L, q)'
    BY Zenon, <2>2, <1>14, <1>15, <1>16 DEF LeavesRead
  <2>8. /\ \A m \in 1 .. L : \A y \in Hits(m, q) : Stored(q)' = node'[m].vals[y]
        /\ (\A m \in 1 .. L : Hits(m, q) = {}) => Stored(q)' = Absent
    BY Zenon, <2>3, <1>18 DEF Reads
  <2>4. CASE q = k
    <3>1. Stored(q)' = node'[n].vals[x]
      BY Zenon, <2>8, <2>4
    <3> QED
      BY Zenon, <3>1, <2>4, <1>5, <1>6, <1>11, <1>12
  <2>5. CASE q # k /\ \A m \in 1 .. L : Hits(m, q) = {}
    BY Zenon, <2>1, <2>8, <2>5 DEF Reads
  <2>6. ASSUME q # k, NEW m \in 1 .. L, NEW y, y \in Hits(m, q) PROVE Stored(q)' = Stored(q)
    <3>1. m \in 1 .. Len(node) /\ m # 0
      BY <1>1
    <3>2. m = n => y # x
      BY Zenon, <2>6, <3>1, <1>1 DEF Hits
    <3>3. m = n => y \in 1 .. Len(vs)
      BY Zenon, <2>6, <1>1, <1>3, NodeTyped DEF Hits, IsLeaf, vs
    <3>4. node'[m].vals[y] = node[m].vals[y]
      <4>1. CASE m = n
        <5>1. node'[n].vals = ws /\ node[n].vals = vs
          BY Zenon, <1>11, <1>12 DEF vs
        <5>2. ws[y] = vs[y]
          BY Zenon, <4>1, <3>2, <3>3, <1>5, <1>6
        <5> QED
          BY Zenon, <4>1, <5>1, <5>2
      <4>2. CASE m # n
        BY Zenon, <4>2, <3>1, <1>11
      <4> QED
        BY Zenon, <4>1, <4>2
    <3>5. Stored(q) = node[m].vals[y]
      BY Zenon, <2>1, <2>6 DEF Reads
    <3>6. Stored(q)' = node'[m].vals[y]
      BY Zenon, <2>6, <2>8
    <3> QED
      BY Zenon, <3>4, <3>5, <3>6
  <2>7. (\A m \in 1 .. L : Hits(m, q) = {}) \/ \E m \in 1 .. L : \E y : y \in Hits(m, q)
    BY Zenon
  <2> QED
    BY Zenon, <2>4, <2>5, <2>6, <2>7
<1> QED
  BY Zenon, <1>14, <1>15, <1>16, <1>17, <1>19 DEF TreeInv, Shape

(* A call of TNext is one of update and insert, on a number.               *)
LEMMA NextIsStep ==
  ASSUME TreeAssumption, TNext
  PROVE  \/ BuildLeaf \/ LeavesDone \/ BuildInner \/ NextLevel \/ SetRoot
         \/ \E k \in Probes, v \in TreeVals : update(k, v) \/ insert(k, v)
<1>1. 0 \in TreeVals /\ NewVals \subseteq TreeVals
  BY DEF TreeVals, TreeAssumption
<1> QED
  BY Zenon, <1>1 DEF TNext, remove

-----------------------------------------------------------------------------
(* The part of the types that the shape leaves open.                       *)
Around ==
  /\ parents \in Seq(1 .. Len(node))
  /\ call = <<>> \/ call.ok \in BOOLEAN

(* Parents are nodes, and a call returns true or false.                    *)
LEMMA AroundStep ==
  ASSUME TreeAssumption, TreeInv, Around, TNext
  PROVE  Around'
<1>1. Probes \subseteq Nat
  BY DEF Probes, TreeAssumption
<1>2. node \in Seq(NodeRec) /\ Len(node) \in Nat
  BY DEF TreeInv, Types
<1>3. CASE BuildLeaf
  <2>1. parents = <<>> /\ parents' = parents /\ call' = call
    BY <1>3 DEF BuildLeaf, AddLeaf, TreeInv, Shape, Phases
  <2> QED
    BY <2>1 DEF Around
<1>4. CASE BuildInner
  <2>1. PICK nd : node' = Append(node, nd) /\ parents' = Append(parents, Len(node) + 1)
                  /\ call' = call
    BY Zenon, <1>4 DEF BuildInner, AddInner
  <2>2. Len(node') = Len(node) + 1
    BY <2>1, <1>2
  <2>3. parents \in Seq(1 .. Len(node) + 1)
    BY <1>2 DEF Around
  <2>4. parents' \in Seq(1 .. Len(node) + 1)
    BY <1>2, <2>1, <2>3
  <2> QED
    BY Zenon, <2>1, <2>2, <2>4 DEF Around
<1>5. CASE LeavesDone \/ NextLevel \/ SetRoot
  <2>1. node' = node /\ call' = call /\ parents' \in {parents, <<>>}
    BY Zenon, <1>5 DEF LeavesDone, NextLevel, SetRoot
  <2>3. ASSUME NEW S PROVE <<>> \in Seq(S)
    OBVIOUS
  <2>2. parents' \in Seq(1 .. Len(node))
    BY Zenon, <2>1, <2>3 DEF Around
  <2> QED
    BY Zenon, <2>1, <2>2 DEF Around
<1>6. ASSUME NEW k \in Probes, NEW v \in TreeVals, update(k, v) \/ insert(k, v) PROVE Around'
  <2>1. parents' = parents
    BY Zenon, <1>6 DEF update, insert, Replace, Returns
  <2>2. Len(node') = Len(node)
    <3>1. CASE node' = node
      BY Zenon, <3>1
    <3>2. ASSUME NEW n, NEW x, node' = [node EXCEPT ![n].vals[x] = v]
          PROVE  Len(node') = Len(node)
      BY <3>2, <1>2
    <3> QED
      BY Zenon, <1>6, <3>1, <3>2 DEF update, insert, Replace
  <2>3. \E o, f : f \in BOOLEAN /\ call' = [op |-> o, key |-> k, val |-> v, ok |-> f]
    BY Zenon, <1>6 DEF update, insert, Replace, Returns
  <2>4. call'.ok \in BOOLEAN
    BY <2>3
  <2> QED
    BY Zenon, <2>1, <2>2, <2>4 DEF Around
<1> QED
  BY Zenon, <1>3, <1>4, <1>5, <1>6, NextIsStep

(* The map of the refinement.                                              *)
Held == [k \in Probes |-> IF phase = "ready" THEN Stored(k) ELSE Absent]

(* Every key of the loaded tree has a value or is absent.                  *)
LEMMA HeldTyped ==
  ASSUME TreeAssumption, TreeInv
  PROVE  \A k \in Nat : Stored(k) \in TreeVals \cup {Absent}
<1>1. PICK L, a, b, s : Shape(a, b, s, L)
  BY Zenon DEF TreeInv
<1>2. Types /\ Leaves(s, L) /\ Inners(a, b, L)
  BY Zenon, <1>1 DEF TreeInv, Shape
<1>3. ASSUME NEW k \in Nat PROVE Stored(k) \in TreeVals \cup {Absent}
  <2>1. CASE \A n \in 1 .. L : Hits(n, k) = {}
    BY Zenon, <2>1, <1>2, StoredFound
  <2>2. ASSUME NEW n \in 1 .. L, NEW x \in Hits(n, k) PROVE Stored(k) \in TreeVals
    <3>1. Stored(k) = node[n].vals[x]
      BY Zenon, <1>2, StoredFound
    <3> QED
      BY Zenon, <3>1, <1>2, ValueTyped
  <2> QED
    BY Zenon, <2>1, <2>2
<1> QED
  BY Zenon, <1>3

(* What a scan from place v of the loaded keys on would see.               *)
Upward(v) == [j \in 1 .. Len(keys) + 1 - v |-> Stored(keys[v + j - 1])]

(* What is stored for the key of a slot is the value of the slot.          *)
LEMMA SlotStored ==
  ASSUME Types, NEW a, NEW b, NEW s, NEW L, Leaves(s, L), Inners(a, b, L),
         NEW n \in 1 .. L, NEW j \in 1 .. Len(node[n].keys)
  PROVE  Stored(keys[s[n] + j - 1]) = node[n].vals[j]
<1>1. n # 0 /\ n \in 1 .. Len(node)
  BY DEF Leaves, Types
<1>2. node[n].keys[j] = keys[s[n] + j - 1]
  BY ZenonT(60), LeafPlaces
<1>3. j \in Hits(n, keys[s[n] + j - 1])
  BY Zenon, <1>1, <1>2, NodeTyped DEF Hits
<1> QED
  BY <1>3, StoredFound

(* The values of a leaf and those after it are the ones from its place on. *)
StepsUp(s, n) == node[n].vals \o Upward(s[n + 1]) = Upward(s[n])

(* One sequence after another.                                             *)
LEMMA Joining ==
  ASSUME NEW S, NEW q \in Seq(S), NEW r \in Seq(S)
  PROVE  /\ q \o r \in Seq(S) /\ Len(q \o r) = Len(q) + Len(r)
         /\ \A n \in 1 .. Len(q) + Len(r) :
              (q \o r)[n] = IF n <= Len(q) THEN q[n] ELSE r[n - Len(q)]
  OBVIOUS

(* The values of a leaf, and those from the next leaf on.                  *)
LEMMA UpwardStep ==
  ASSUME Types, NEW a, NEW b, NEW s, NEW L, Shape(a, b, s, L), NEW n \in 1 .. L
  PROVE  StepsUp(s, n)
<1> DEFINE K  == Len(keys)
           F  == [p \in 1 .. K |-> Stored(keys[p])]
           S  == TreeVals \cup {Stored(keys[p]) : p \in 1 .. K}
           v  == s[n]
           m  == Len(node[n].keys)
           sq == node[n].vals
           Up(x) == [j \in 1 .. K + 1 - x |-> F[x + j - 1]]
<1>1. Leaves(s, L) /\ Inners(a, b, L) /\ n \in 1 .. Len(node) /\ K \in Nat
  BY SMTT(30) DEF Shape, Leaves, Types, Sorted
<1>2. F \in [1 .. K -> S]
  OBVIOUS
<1>3. v \in Nat /\ v >= 1 /\ m \in Nat /\ v + m <= K + 1 /\ s[n + 1] = v + m
  BY ZenonT(60), <1>1, LeafPlaces
<1>4. sq \in Seq(TreeVals) /\ Len(sq) = m
  BY Zenon, <1>1, NodeTyped DEF Leaves, IsLeaf
<1>5. sq \in Seq(S)
  <2> HIDE DEF sq
  <2>1. TreeVals \subseteq S
    OBVIOUS
  <2> HIDE DEF S
  <2> QED
    BY <1>4, <2>1
<1>6. \A j \in 1 .. m : v + j - 1 \in 1 .. K /\ sq[j] = Stored(keys[v + j - 1])
  <2>1. \A j \in 1 .. m : v + j - 1 \in 1 .. K
    BY Zenon, <1>1, LeafPlaces
  <2>2. \A j \in 1 .. m : sq[j] = Stored(keys[v + j - 1])
    BY <1>1, SlotStored
  <2> QED
    BY Zenon, <2>1, <2>2
<1>7. \A j \in 1 .. m : sq[j] = F[v + j - 1]
  BY Zenon, <1>6
<1>8. ASSUME NEW x \in Nat, x >= 1 PROVE Upward(x) = Up(x)
  <2>1. \A j \in 1 .. K + 1 - x : x + j - 1 \in 1 .. K
    BY <1>1, <1>8
  <2> QED
    BY Zenon, <2>1 DEF Upward
<1>9. sq \o Up(v + m) = Up(v)
  <2> HIDE DEF F, S, v, m, sq, K
  <2> DEFINE r   == K + 1 - (v + m)
             Rst == [j \in 1 .. r |-> F[v + m + j - 1]]
  <2>1. r \in Nat /\ m + r = K + 1 - v /\ K + 1 - v \in Nat
    BY <1>1, <1>3
  <2>2. \A j \in 1 .. r : v + m + j - 1 \in 1 .. K
    BY <1>1, <1>3, <2>1
  <2>3. Rst \in [1 .. r -> S]
    BY <1>2, <2>2
  <2>4. Rst \in Seq(S) /\ Len(Rst) = r
    <3> HIDE DEF Rst, r
    <3> QED
      BY <2>1, <2>3
  <2>5. sq \o Rst = [j \in 1 .. m + r |-> IF j <= m THEN sq[j] ELSE Rst[j - m]]
    <3> HIDE DEF Rst, r
    <3> DEFINE c == sq \o Rst
    <3>1. c \in Seq(S) /\ Len(c) = m + r
      BY Zenon, <1>4, <1>5, <2>4, Joining
    <3>2. ASSUME NEW j \in 1 .. m + r
          PROVE  c[j] = IF j <= m THEN sq[j] ELSE Rst[j - m]
      BY Zenon, <1>4, <1>5, <2>4, Joining
    <3> HIDE DEF c
    <3>3. c = [j \in 1 .. m + r |-> c[j]]
      BY <2>1, <3>1
    <3> QED
      BY Zenon, <3>2, <3>3 DEF c
  <2>6. \A j \in 1 .. m + r : (IF j <= m THEN sq[j] ELSE Rst[j - m]) = F[v + j - 1]
    <3>1. ASSUME NEW j \in 1 .. m + r, j <= m PROVE sq[j] = F[v + j - 1]
      BY <1>3, <1>7, <2>1, <3>1
    <3>2. ASSUME NEW j \in 1 .. m + r, ~(j <= m) PROVE Rst[j - m] = F[v + j - 1]
      <4>1. j - m \in 1 .. r /\ v + m + (j - m) - 1 = v + j - 1
        BY <1>3, <2>1, <3>2
      <4> QED
        BY Zenon, <4>1
    <3> QED
      BY Zenon, <3>1, <3>2
  <2> QED
    BY Zenon, <2>1, <2>5, <2>6
<1>10. v + m \in Nat /\ v + m >= 1
  BY SMTT(30), <1>3
<1> HIDE DEF Up, v, m, sq
<1>11. sq \o Upward(v + m) = Upward(v)
  BY Zenon, <1>3, <1>8, <1>9, <1>10
<1> QED
  BY Zenon, <1>3, <1>11 DEF StepsUp, v, sq

(* The first key of a leaf.                                                *)
LEMMA FirstOfLeaf ==
  ASSUME Types, NEW s, NEW L, Leaves(s, L), NEW n \in 1 .. L
  PROVE  node[n].keys[1] = keys[s[n]]
<1>1. Len(node[n].keys) \in 1 .. FANOUT
      /\ \A q \in 1 .. Len(node[n].keys) : node[n].keys[q] = keys[s[n] + q - 1]
  BY Zenon DEF Leaves, IsLeaf
<1>2. node \in Seq(NodeRec) /\ n \in 1 .. Len(node) /\ node[n] \in NodeRec
  BY DEF Types, Leaves
<1>3. Len(node[n].keys) \in Nat
  BY <1>2 DEF NodeRec
<1>4. 1 \in 1 .. Len(node[n].keys)
  BY <1>1, <1>3
<1>5. s[n] \in Nat
  BY DEF Leaves
<1>6. s[n] + 1 - 1 = s[n]
  BY <1>5
<1> QED
  BY Zenon, <1>1, <1>4, <1>6

(* The shape of the tree bounds its nodes.                                 *)
LEMMA ShapeFits ==
  ASSUME TreeAssumption, TreeInv, Around
  PROVE  TTypeOK
<1>1. PICK L, a, b, s : Shape(a, b, s, L)
  BY Zenon DEF TreeInv
<1>2. Types /\ Leaves(s, L) /\ Inners(a, b, L) /\ Levels(a, b, L) /\ Phases(s, L)
  BY Zenon, <1>1 DEF TreeInv, Shape
<1>3. L \in Nat /\ Len(node) \in Nat /\ L <= Len(node) /\ FANOUT \in Nat
  BY <1>2 DEF Leaves, Types, TreeAssumption
<1>4. ASSUME NEW n \in 1 .. Len(node)
      PROVE  /\ Len(node[n].keys) <= FANOUT
             /\ Len(node[n].children) <= FANOUT + 1
             /\ node[n].next \in 0 .. Len(node)
  <2>1. CASE n \in 1 .. L
    <3>1. /\ node[n].children = <<>> /\ Len(node[n].keys) \in 1 .. FANOUT
          /\ node[n].next = IF n < L THEN n + 1 ELSE 0
      BY Zenon, <2>1, <1>2 DEF Leaves, IsLeaf
    <3> QED
      BY <3>1, <2>1, <1>3
  <2>2. CASE n \in L + 1 .. Len(node)
    <3>1. /\ Len(node[n].children) \in 1 .. FANOUT + 1 /\ node[n].next = 0
          /\ Len(node[n].keys) = Len(node[n].children) - 1
      BY Zenon, <2>2, <1>2 DEF Inners, IsInner
    <3> QED
      BY SMTT(30), <3>1, <1>3
  <2> QED
    BY <2>1, <2>2, <1>3
<1>5. level \in Seq(1 .. Len(node)) /\ parents \in Seq(1 .. Len(node))
  BY Zenon, <1>2 DEF Levels, Around
<1>6. root \in 0 .. Len(node)
  BY SMTT(30), <1>2, <1>3, <1>5 DEF Phases
<1>7. Range(level) \cup Range(parents) \cup {root} \subseteq 0 .. Len(node)
  BY SMTT(30), <1>3, <1>5, <1>6 DEF Range
<1>8. DOMAIN node = 1 .. Len(node)
  BY Zenon, <1>2, NodeTyped
<1> QED
  BY Zenon, <1>2, <1>4, <1>7, <1>8 DEF TTypeOK, Types, Around

(* Nothing is loaded at first.                                             *)
LEMMA MapStarts == TInit => Map!Init
<1>1. SUFFICES ASSUME TInit PROVE Map!Init
  OBVIOUS
<1>2. phase = "leaves" /\ call = <<>>
  BY Zenon, <1>1 DEF TInit
<1> QED
  BY <1>2 DEF Map!Init, Map!Empty

(* Induction over the numbers of the nodes, and how many numbers there are *)
(* up to one of them.  The lemmas that use either assume it; NumbersHold,  *)
(* below, is that both hold.                                               *)
Inductive(Good) == 0 \in Good /\ \A n \in Nat : n \in Good => n + 1 \in Good

Numbers ==
  /\ \A Good : Inductive(Good) => Nat \subseteq Good
  /\ \A q \in Nat : Cardinality(1 .. q) = q

(* The length of the prefix of 1 .. m that avoids T, as the loops of the   *)
(* tree count it.                                                          *)
LEMMA PrefixLength ==
  ASSUME Numbers, NEW m \in Nat, NEW T
  PROVE  \E q \in 0 .. m :
           /\ Cardinality({j \in 1 .. m : \A h \in 1 .. j : h \notin T}) = q
           /\ \A h \in 1 .. q : h \notin T
           /\ q < m => q + 1 \in T
<1> DEFINE P    == {j \in 1 .. m : \A h \in 1 .. j : h \notin T}
           Good == {n \in Nat : n <= m =>
                      \E q \in 0 .. n :
                        /\ \A h \in 1 .. q : h \notin T
                        /\ q < n => q + 1 \in T}
<1>1. 0 \in Good
  OBVIOUS
<1>2. ASSUME NEW n \in Nat, n \in Good PROVE n + 1 \in Good
  <2> SUFFICES ASSUME n + 1 <= m
               PROVE  \E q \in 0 .. n + 1 :
                        /\ \A h \in 1 .. q : h \notin T
                        /\ q < n + 1 => q + 1 \in T
    OBVIOUS
  <2>1. PICK q \in 0 .. n : (\A h \in 1 .. q : h \notin T) /\ (q < n => q + 1 \in T)
    BY <1>2
  <2>2. CASE q = n /\ n + 1 \notin T
    <3>1. n + 1 \in 0 .. n + 1 /\ \A h \in 1 .. n + 1 : h \notin T
      BY <2>1, <2>2
    <3> QED
      BY <3>1
  <2>3. CASE q < n \/ n + 1 \in T
    <3>1. q \in 0 .. n + 1 /\ (q < n + 1 => q + 1 \in T)
      BY <2>1, <2>3
    <3> QED
      BY <2>1, <3>1
  <2> QED
    BY <2>2, <2>3
<1>3. Nat \subseteq Good
  <2> HIDE DEF Good
  <2> QED
    BY Zenon, <1>1, <1>2 DEF Numbers, Inductive
<1>4. PICK q \in 0 .. m : (\A h \in 1 .. q : h \notin T) /\ (q < m => q + 1 \in T)
  BY <1>3
<1>5. P = 1 .. q
  BY <1>4
<1>6. Cardinality(1 .. q) = q
  BY DEF Numbers
<1> QED
  BY Zenon, <1>4, <1>5, <1>6

(* Follows(f, D, Stop, out, down): f is computed by going down from a      *)
(* place of D until one of Stop is met.                                    *)
Follows(f, D, Stop, out, down) ==
  f = [n \in D |-> IF n \in Stop THEN out[n] ELSE f[down[n]]]

(* Every step goes to a smaller place.                                     *)
GoesDown(D, Stop, down) ==
  \A n \in D \ Stop : down[n] \in D /\ down[n] < n

(* R relates every place that stops to itself, and takes a step back.      *)
HandsOn(R, D, Stop, down) ==
  /\ \A n \in D \cap Stop : <<n, n>> \in R
  /\ \A n \in D \ Stop : \A z \in D \cap Stop :
       <<down[n], z>> \in R => <<n, z>> \in R

(* From start the descent stops at some z, to which R relates it.          *)
EndsAt(f, D, Stop, out, R, start) ==
  \E z \in D \cap Stop : f[start] = out[z] /\ <<start, z>> \in R

(* A descent is well defined.                                              *)
LEMMA DescentExists ==
  ASSUME Numbers, NEW D, D \subseteq Nat, NEW top \in Nat, \A n \in D : n < top,
         NEW Stop, NEW out, NEW down, GoesDown(D, Stop, down)
  PROVE  \E f : Follows(f, D, Stop, out, down)
<1> DEFINE Val(f, n) == IF n \in Stop THEN out[n] ELSE f[down[n]]
           Good == {m \in Nat : \E f : /\ f = [n \in D |-> f[n]]
                                       /\ \A n \in D : n < m => f[n] = Val(f, n)}
<1>1. 0 \in Good
  <2> DEFINE f == [n \in D |-> n]
  <2>1. f = [n \in D |-> f[n]] /\ \A n \in D : ~(n < 0)
    OBVIOUS
  <2> QED
    BY Zenon, <2>1
<1>2. ASSUME NEW m \in Nat, m \in Good PROVE m + 1 \in Good
  <2>1. PICK f : /\ f = [n \in D |-> f[n]]
                 /\ \A n \in D : n < m => f[n] = Val(f, n)
    BY Zenon, <1>2
  <2> DEFINE g == [n \in D |-> IF n = m THEN Val(f, m) ELSE f[n]]
  <2>2. g = [n \in D |-> g[n]]
    BY Zenon
  <2>3. ASSUME NEW n \in D, n < m + 1 PROVE g[n] = Val(g, n)
    <3>1. n \in Stop \/ (down[n] \in D /\ down[n] # m /\ down[n] < n)
      BY <2>3 DEF GoesDown
    <3>2. Val(g, n) = Val(f, n)
      BY Zenon, <3>1
    <3>3. n = m \/ n < m
      BY <2>3
    <3> QED
      BY Zenon, <2>1, <3>2, <3>3
  <2>4. \E h : h = [n \in D |-> h[n]] /\ \A n \in D : n < m + 1 => h[n] = Val(h, n)
    <3> HIDE DEF g
    <3> QED
      BY Zenon, <2>2, <2>3
  <2>5. m + 1 \in Nat
    OBVIOUS
  <2> QED
    BY Zenon, <2>4, <2>5
<1>3. Nat \subseteq Good
  <2> HIDE DEF Good
  <2> QED
    BY Zenon, <1>1, <1>2 DEF Numbers, Inductive
<1>4. PICK f : /\ f = [n \in D |-> f[n]]
               /\ \A n \in D : n < top => f[n] = Val(f, n)
  BY Zenon, <1>3
<1>5. \A n \in D : f[n] = Val(f, n)
  BY Zenon, <1>4
<1>6. f = [n \in D |-> Val(f, n)]
  BY Zenon, <1>4, <1>5
<1> QED
  BY Zenon, <1>6 DEF Follows

(* A descent ends, with what out gives there; what every step hands on     *)
(* (the pairs of R) relates its start to its end.                          *)
LEMMA DescentEnds ==
  ASSUME Numbers, NEW D, D \subseteq Nat, NEW Stop, NEW out, NEW down,
         GoesDown(D, Stop, down),
         NEW f, Follows(f, D, Stop, out, down),
         NEW R, HandsOn(R, D, Stop, down),
         NEW start \in D
  PROVE  EndsAt(f, D, Stop, out, R, start)
<1> DEFINE Ends(n) == \E z \in D \cap Stop : f[n] = out[z] /\ <<n, z>> \in R
           Good == {m \in Nat : \A n \in D : n < m => Ends(n)}
<1>1. \A n \in D : f[n] = IF n \in Stop THEN out[n] ELSE f[down[n]]
  BY Zenon DEF Follows
<1>2. 0 \in Good
  BY \A n \in D : ~(n < 0)
<1>3. ASSUME NEW m \in Nat, m \in Good PROVE m + 1 \in Good
  <2>1. ASSUME NEW n \in D, n < m + 1 PROVE Ends(n)
    <3>1. CASE n \in Stop
      BY Zenon, <3>1, <1>1 DEF HandsOn
    <3>2. CASE n \notin Stop
      <4>1. down[n] \in D /\ down[n] < n
        BY Zenon, <3>2 DEF GoesDown
      <4>2. n \in Nat /\ down[n] \in Nat
        BY Zenon, <4>1
      <4>3. down[n] < m
        BY <2>1, <4>1, <4>2
      <4>4. Ends(down[n])
        BY Zenon, <1>3, <4>1, <4>3
      <4> QED
        BY Zenon, <1>1, <3>2, <4>4 DEF HandsOn
    <3> QED
      BY Zenon, <3>1, <3>2
  <2>2. m + 1 \in Nat
    OBVIOUS
  <2> QED
    BY Zenon, <2>1, <2>2
<1>4. Nat \subseteq Good
  <2> HIDE DEF Good
  <2> QED
    BY Zenon, <1>2, <1>3 DEF Numbers, Inductive
<1>5. start + 1 \in Nat /\ start < start + 1
  OBVIOUS
<1> QED
  BY Zenon, <1>4, <1>5 DEF EndsAt

(* The first key below a node is that of the first leaf below it.          *)
LEMMA FirstKeyBelow ==
  ASSUME Numbers, Types, NEW a, NEW b, NEW s, NEW L, Leaves(s, L), Inners(a, b, L),
         NEW start \in 1 .. Len(node)
  PROVE  first_key[start] = node[a[start]].keys[1]
<1> DEFINE D    == 1 .. Len(node)
           Stop == 1 .. L
           out  == [m \in D |-> node[m].keys[1]]
           down == [m \in D |-> node[m].children[1]]
           Step(f, n) == IF node[n].is_leaf THEN node[n].keys[1]
                         ELSE f[node[n].children[1]]
           R    == {e \in D \X D : a[e[1]] = a[e[2]]}
<1>1. Len(node) \in Nat /\ L \in Nat /\ L <= Len(node) /\ DOMAIN node = D
  BY DEF Types, Leaves
<1>2. \A n \in D \ Stop : ~node[n].is_leaf /\ node[n].children[1] \in 1 .. n - 1
                          /\ a[n] = a[node[n].children[1]]
  BY <1>1 DEF Inners, IsInner
<1>3. \A n \in Stop : node[n].is_leaf /\ a[n] = n /\ n \in D
  <2>1. \A n \in Stop : node[n].is_leaf /\ a[n] = n
    BY Zenon DEF Leaves, IsLeaf, Inners
  <2> QED
    BY <1>1, <2>1
<1>4. D \subseteq Nat /\ Len(node) + 1 \in Nat /\ \A n \in D : n < Len(node) + 1
  BY <1>1
<1>5. GoesDown(D, Stop, down)
  BY <1>1, <1>2 DEF GoesDown
<1>6. \A f : Follows(f, D, Stop, out, down) <=> f = [n \in DOMAIN node |-> Step(f, n)]
  <2>1. ASSUME NEW f, NEW n \in D
        PROVE  (IF n \in Stop THEN out[n] ELSE f[down[n]]) = Step(f, n)
    BY Zenon, <1>2, <1>3
  <2> QED
    BY ZenonT(60), <1>1, <2>1 DEF Follows
<1>7. Follows(first_key, D, Stop, out, down)
  <2>1. PICK f : Follows(f, D, Stop, out, down)
    <3> HIDE DEF D, Stop, out, down
    <3> QED
      BY Zenon, <1>4, <1>5, DescentExists
  <2>2. first_key = [n \in DOMAIN node |-> Step(first_key, n)]
    BY Zenon, <1>6, <2>1 DEF first_key
  <2> QED
    BY Zenon, <1>6, <2>2
<1>8. HandsOn(R, D, Stop, down)
  <2>1. \A n \in D \cap Stop : <<n, n>> \in R
    OBVIOUS
  <2>2. \A n \in D \ Stop : \A z \in D \cap Stop : <<down[n], z>> \in R => <<n, z>> \in R
    BY Zenon, <1>2
  <2> QED
    BY Zenon, <2>1, <2>2 DEF HandsOn
<1>9. EndsAt(first_key, D, Stop, out, R, start)
  <2> HIDE DEF D, Stop, out, down, R
  <2>1. start \in D
    BY DEF D
  <2> QED
    BY Zenon, <1>4, <1>5, <1>7, <1>8, <2>1, DescentEnds
<1>10. PICK z \in D \cap Stop : first_key[start] = out[z] /\ <<start, z>> \in R
  BY Zenon, <1>9 DEF EndsAt
<1> QED
  BY <1>3, <1>10

(* The child that the search in an inner node picks.                       *)
LEMMA ChildFits ==
  ASSUME Numbers, Types, NEW a, NEW b, NEW n \in 1 .. Len(node), IsInner(a, b, n),
         NEW k \in Nat
  PROVE  LET cs == node[n].children
             c  == Child(node[n], k)
         IN  /\ c \in 1 .. Len(cs)
             /\ c > 1 => node[n].keys[c - 1] <= k
             /\ c < Len(cs) => k < node[n].keys[c]
<1> DEFINE ks == node[n].keys
           m  == Len(ks)
           T  == {h \in 1 .. m : ~(k >= ks[h])}
<1>1. ks \in Seq(Nat) /\ m \in Nat /\ DOMAIN ks = 1 .. m
  BY Zenon, NodeTyped
<1>2. {j \in DOMAIN ks : \A h \in 1 .. j : k >= ks[h]}
        = {j \in 1 .. m : \A h \in 1 .. j : h \notin T}
  <2>1. \A h \in 1 .. m : h \notin T <=> k >= ks[h]
    BY Zenon
  <2>2. \A j \in 1 .. m : 1 .. j \subseteq 1 .. m
    BY <1>1
  <2> HIDE DEF T, m, ks
  <2> QED
    BY Zenon, <1>1, <2>1, <2>2
<1>3. PICK q \in 0 .. m :
           /\ Cardinality({j \in 1 .. m : \A h \in 1 .. j : h \notin T}) = q
           /\ \A h \in 1 .. q : h \notin T
           /\ q < m => q + 1 \in T
  <2> HIDE DEF T, m
  <2> QED
    BY Zenon, <1>1, PrefixLength
<1>4. Child(node[n], k) = 1 + q
  BY Zenon, <1>2, <1>3 DEF Child
<1>5. Len(node[n].children) = m + 1
  BY <1>1 DEF IsInner
<1>6. \A h \in 1 .. m : ks[h] \in Nat
  BY SMTT(30), <1>1
<1> HIDE DEF ks, m
<1>7. q > 0 => ks[q] <= k
  BY <1>1, <1>3, <1>6
<1>8. q < m => k < ks[q + 1]
  BY <1>1, <1>3, <1>6
<1> QED
  BY <1>1, <1>4, <1>5, <1>7, <1>8 DEF ks

(* Node x may be on the way to k: no leaf before it has k, nor any after.  *)
Inside(a, b, s, L, k, x) ==
  /\ a[x] = 1 \/ keys[s[a[x]]] <= k
  /\ b[x] = L \/ k < keys[s[b[x] + 1]]

(* A step down stays on the way.                                           *)
LEMMA InsideStep ==
  ASSUME Numbers, Types, NEW a, NEW b, NEW s, NEW L, Leaves(s, L), Inners(a, b, L),
         NEW k \in Nat, NEW n \in L + 1 .. Len(node), Inside(a, b, s, L, k, n)
  PROVE  Inside(a, b, s, L, k, node[n].children[Child(node[n], k)])
<1> DEFINE cs == node[n].children
           c  == Child(node[n], k)
<1>1. L \in Nat /\ Len(node) \in Nat /\ n \in 1 .. Len(node) /\ IsInner(a, b, n)
  BY DEF Types, Leaves, Inners
<1>2. /\ c \in 1 .. Len(cs)
      /\ c > 1 => node[n].keys[c - 1] <= k
      /\ c < Len(cs) => k < node[n].keys[c]
  BY Zenon, <1>1, ChildFits
<1>3. /\ Len(cs) \in Nat
      /\ a[n] = a[cs[1]]
      /\ b[n] = b[cs[Len(cs)]]
      /\ \A d \in 1 .. Len(cs) - 1 : a[cs[d + 1]] = b[cs[d]] + 1
      /\ \A d \in 1 .. Len(cs) - 1 : node[n].keys[d] = node[a[cs[d + 1]]].keys[1]
      /\ \A d \in 1 .. Len(cs) : cs[d] \in 1 .. n - 1
  <2>1. Len(cs) \in Nat
    BY Zenon, <1>1, NodeTyped
  <2> QED
    BY Zenon, <1>1, <2>1 DEF IsInner, Consecutive
<1> HIDE DEF cs, c
<1>4. \A d \in 1 .. Len(cs) : a[cs[d]] \in 1 .. L
  BY SMTT(30), <1>1, <1>3 DEF Inners
<1>5. \A m \in 1 .. L : node[m].keys[1] = keys[s[m]]
  BY Zenon, FirstOfLeaf
<1>6. a[cs[c]] = 1 \/ keys[s[a[cs[c]]]] <= k
  <2>1. CASE c = 1
    BY Zenon, <1>3, <2>1 DEF Inside
  <2>2. CASE c # 1
    <3>1. c - 1 \in 1 .. Len(cs) - 1 /\ (c - 1) + 1 = c /\ c > 1
      BY <1>2, <1>3, <2>2
    <3>2. node[n].keys[c - 1] = node[a[cs[c]]].keys[1]
      BY Zenon, <1>3, <3>1
    <3> QED
      BY Zenon, <1>2, <1>4, <1>5, <3>1, <3>2
  <2> QED
    BY Zenon, <2>1, <2>2
<1>7. b[cs[c]] = L \/ k < keys[s[b[cs[c]] + 1]]
  <2>1. CASE c = Len(cs)
    BY Zenon, <1>3, <2>1 DEF Inside
  <2>2. CASE c # Len(cs)
    <3>1. c \in 1 .. Len(cs) - 1 /\ c + 1 \in 1 .. Len(cs) /\ c < Len(cs)
      BY <1>2, <1>3, <2>2
    <3>2. node[n].keys[c] = keys[s[a[cs[c + 1]]]] /\ a[cs[c + 1]] = b[cs[c]] + 1
      BY Zenon, <1>3, <1>4, <1>5, <3>1
    <3> QED
      BY Zenon, <1>2, <3>1, <3>2
  <2> QED
    BY Zenon, <2>1, <2>2
<1> QED
  BY Zenon, <1>6, <1>7 DEF Inside, cs, c

(* The descent ends in the leaf whose range of keys k is in, whether the   *)
(* tree has k or not.                                                      *)
LEMMA DescendFits ==
  ASSUME Numbers, Types, NEW a, NEW b, NEW s, NEW L, Shape(a, b, s, L), phase = "ready",
         NEW k \in Nat
  PROVE  /\ L = 0 => Descend(k) = 0
         /\ L > 0 => /\ Descend(k) \in 1 .. L
                     /\ Descend(k) = 1 \/ keys[s[Descend(k)]] <= k
                     /\ Descend(k) = L \/ k < keys[s[Descend(k) + 1]]
<1> DEFINE D    == 0 .. Len(node)
           Stop == 0 .. L
           out  == [m \in D |-> m]
           down == [m \in D |-> node[m].children[Child(node[m], k)]]
           Step(f, n) == IF n = 0 THEN 0
                         ELSE IF node[n].is_leaf THEN n
                         ELSE f[node[n].children[Child(node[n], k)]]
           In(x) == Inside(a, b, s, L, k, x)
           R    == {e \in D \X D : e[1] # 0 => e[2] # 0 /\ (In(e[1]) => In(e[2]))}
           from == CHOOSE f : f = [n \in D |-> Step(f, n)]
<1>1. Leaves(s, L) /\ Inners(a, b, L) /\ L \in Nat /\ Len(node) \in Nat /\ L <= Len(node)
  BY DEF Shape, Leaves, Types
<1>2. ASSUME NEW n \in D \ Stop
      PROVE  /\ n \in L + 1 .. Len(node) /\ n # 0
             /\ ~node[n].is_leaf
             /\ node[n].children[Child(node[n], k)] \in 1 .. n - 1
  <2>1. n \in L + 1 .. Len(node) /\ n # 0 /\ n \in 1 .. Len(node)
    BY <1>1
  <2>2. IsInner(a, b, n)
    BY Zenon, <1>1, <2>1 DEF Inners
  <2>3. Child(node[n], k) \in 1 .. Len(node[n].children)
    BY Zenon, <2>1, <2>2, ChildFits
  <2> QED
    BY Zenon, <2>1, <2>2, <2>3 DEF IsInner
<1>3. \A n \in Stop : n = 0 \/ node[n].is_leaf
  BY <1>1 DEF Leaves, IsLeaf
<1>4. D \subseteq Nat /\ Len(node) + 1 \in Nat /\ \A n \in D : n < Len(node) + 1
  BY <1>1
<1>5. GoesDown(D, Stop, down)
  BY <1>1, <1>2 DEF GoesDown
<1>6. \A f : Follows(f, D, Stop, out, down) <=> f = [n \in D |-> Step(f, n)]
  <2>1. ASSUME NEW f, NEW n \in D
        PROVE  (IF n \in Stop THEN out[n] ELSE f[down[n]]) = Step(f, n)
    BY Zenon, <1>2, <1>3
  <2> QED
    BY ZenonT(60), <2>1 DEF Follows
<1>7. Follows(from, D, Stop, out, down)
  <2>1. PICK f : Follows(f, D, Stop, out, down)
    <3> HIDE DEF D, Stop, out, down
    <3> QED
      BY Zenon, <1>4, <1>5, DescentExists
  <2>2. from = [n \in D |-> Step(from, n)]
    BY Zenon, <1>6, <2>1
  <2> QED
    BY Zenon, <1>6, <2>2
<1>8. Descend(k) = from[root]
  BY Zenon DEF Descend
<1>9. HandsOn(R, D, Stop, down)
  <2>1. ASSUME NEW n \in D \ Stop, In(n) PROVE In(node[n].children[Child(node[n], k)])
    BY Zenon, <1>1, <1>2, <2>1, InsideStep
  <2>2. \A n \in D \ Stop : node[n].children[Child(node[n], k)] # 0
    BY <1>2
  <2> HIDE DEF In
  <2>3. \A n \in D \cap Stop : <<n, n>> \in R
    BY Zenon
  <2>4. \A n \in D \ Stop : \A z \in D \cap Stop : <<down[n], z>> \in R => <<n, z>> \in R
    BY Zenon, <2>1, <2>2
  <2> QED
    BY Zenon, <2>3, <2>4 DEF HandsOn
<1>10. root \in D /\ (L = 0 => root = 0) /\ (L > 0 => root # 0 /\ a[root] = 1 /\ b[root] = L)
  <2>1. root = IF level = <<>> THEN 0 ELSE level[1]
    BY Zenon DEF Shape, Phases
  <2>2. level \in Seq(1 .. Len(node))
    BY Zenon DEF Shape, Levels
  <2>3. level # <<>> => Len(level) = 1 /\ level[1] \in 1 .. Len(node)
    <3>1. Len(level) <= 1
      BY Zenon DEF Shape, Phases
    <3>2. Len(level) \in Nat
      BY Zenon, <2>2, NoElements
    <3>3. \A x \in Nat : x <= 1 => x = 0 \/ x = 1
      OBVIOUS
    <3>4. Len(level) = 1 => level[1] \in 1 .. Len(node)
      BY Zenon, <2>2, OnlyElement
    <3> QED
      BY Zenon, <2>2, <3>1, <3>2, <3>3, <3>4, NoElements
  <2>4. /\ L = 0 => level = <<>>
        /\ L > 0 => level # <<>> /\ a[level[1]] = 1 /\ b[level[Len(level)]] = L
    BY Zenon DEF Shape, Levels
  <2> QED
    BY <1>1, <2>1, <2>3, <2>4
<1>11. EndsAt(from, D, Stop, out, R, root)
  <2> HIDE DEF D, Stop, out, down, from, R
  <2> QED
    BY Zenon, <1>4, <1>5, <1>7, <1>9, <1>10, DescentEnds
<1>12. PICK z \in D \cap Stop : from[root] = out[z] /\ <<root, z>> \in R
  BY Zenon, <1>11 DEF EndsAt
<1>13. Descend(k) = z /\ (root # 0 => z # 0 /\ (In(root) => In(z)))
  <2> HIDE DEF from, In
  <2> QED
    BY Zenon, <1>8, <1>12
<1>14. CASE L = 0
  <2>1. z = 0 /\ ~(L > 0)
    BY <1>14
  <2> QED
    BY Zenon, <1>13, <1>14, <2>1
<1>15. CASE L > 0
  <2>1. In(root)
    BY Zenon, <1>10, <1>15 DEF Inside
  <2>2. z # 0 /\ In(z)
    BY Zenon, <1>10, <1>13, <1>15, <2>1
  <2>3. z \in 1 .. L
    BY <1>1, <2>2
  <2>4. a[z] = z /\ b[z] = z
    BY Zenon, <1>1, <2>3 DEF Inners
  <2>5. L # 0
    BY <1>15
  <2> QED
    BY Zenon, <1>13, <2>2, <2>3, <2>4, <2>5 DEF Inside
<1> QED
  BY <1>1, <1>14, <1>15

(* The leaf of the descent parts the loaded keys: those before it are      *)
(* below k, those after it are above.                                      *)
LEMMA DescentCuts ==
  ASSUME Numbers, Types, NEW a, NEW b, NEW s, NEW L, Shape(a, b, s, L), phase = "ready",
         NEW k \in Nat, L > 0, NEW p \in 1 .. Len(keys)
  PROVE  LET z == Descend(k)
         IN  /\ p < s[z] => keys[p] < k
             /\ p >= s[z + 1] => k < keys[p]
<1> DEFINE z == Descend(k)
<1>1. Leaves(s, L) /\ L \in Nat /\ Len(keys) \in Nat /\ s[1] = 1
  BY DEF Shape, Leaves, Types, Sorted
<1>2. /\ z \in 1 .. L
      /\ z = 1 \/ keys[s[z]] <= k
      /\ z = L \/ k < keys[s[z + 1]]
  BY Zenon, DescendFits
<1> HIDE DEF z
<1>3. s[L + 1] = Len(keys) + 1
  BY DEF Shape, Phases
<1>4. /\ s[z] \in Nat /\ s[z] >= 1 /\ s[z + 1] \in Nat
      /\ s[z + 1] = s[z] + Len(node[z].keys) /\ Len(node[z].keys) \in Nat
      /\ Len(node[z].keys) >= 1 /\ s[z + 1] <= Len(keys) + 1
  BY Zenon, <1>1, <1>2, LeafPlaces
<1>5. s[z] \in 1 .. Len(keys)
  BY SMTT(30), <1>1, <1>4
<1>6. keys[p] \in Nat /\ keys[s[z]] \in Nat
  BY Zenon, <1>5, KeyOrder
<1>7. ASSUME p < s[z] PROVE keys[p] < k
  <2>1. z # 1
    BY <1>1, <1>7
  <2>2. keys[p] < keys[s[z]]
    BY Zenon, <1>5, <1>7, KeyOrder
  <2> QED
    BY <1>2, <1>6, <2>1, <2>2
<1>8. ASSUME p >= s[z + 1] PROVE k < keys[p]
  <2>1. z # L
    BY <1>1, <1>3, <1>8
  <2>2. s[z + 1] \in 1 .. Len(keys) /\ s[z + 1] <= p
    BY SMTT(30), <1>1, <1>4, <1>8
  <2>3. keys[s[z + 1]] <= keys[p] /\ keys[s[z + 1]] \in Nat
    BY Zenon, <2>2, KeyOrder
  <2> QED
    BY <1>2, <1>6, <2>1, <2>3
<1> QED
  BY Zenon, <1>7, <1>8 DEF z

(* A key that a leaf holds is where the descent ends.                      *)
LEMMA DescendMeets ==
  ASSUME Numbers, Types, NEW a, NEW b, NEW s, NEW L, Shape(a, b, s, L), phase = "ready",
         NEW k \in Nat, NEW n \in 1 .. L, NEW x \in Hits(n, k)
  PROVE  Descend(k) = n
<1> DEFINE z  == Descend(k)
           v  == s[z]
           v2 == s[z + 1]
           w  == s[n]
           w2 == s[n + 1]
           l  == Len(node[n].keys)
           p  == s[n] + x - 1
<1>1. Leaves(s, L) /\ L \in Nat /\ L > 0
  BY SMTT(30) DEF Shape, Leaves
<1>2. z \in 1 .. L
  BY Zenon, <1>1, DescendFits
<1>3. n # 0 /\ n \in Nat /\ n \in 1 .. Len(node)
  BY DEF Shape, Leaves, Types
<1>4. x \in 1 .. l /\ node[n].keys[x] = k
  BY Zenon, <1>3, NodeTyped DEF Hits
<1>5. /\ w \in Nat /\ w2 \in Nat /\ l \in Nat /\ w2 = w + l
      /\ p \in 1 .. Len(keys) /\ keys[p] = k
  BY ZenonT(60), <1>1, <1>4, LeafPlaces
<1>6. v \in Nat /\ v2 \in Nat
  BY Zenon, <1>1, <1>2, LeafPlaces
<1>7. (p < v => keys[p] < k) /\ (p >= v2 => k < keys[p])
  <2> HIDE DEF p
  <2> QED
    BY Zenon, <1>1, <1>5, DescentCuts
<1>8. (z < n => v2 <= w) /\ (n < z => w2 <= v)
  BY Zenon, <1>1, <1>2, LeafOrder
<1>9. p = w + x - 1
  OBVIOUS
<1> HIDE DEF z, v, v2, w, w2, l, p
<1>10. ~(p < v) /\ ~(p >= v2)
  BY <1>5, <1>7
<1>11. ~(z < n) /\ ~(n < z)
  BY <1>4, <1>5, <1>6, <1>8, <1>9, <1>10
<1> QED
  BY <1>1, <1>2, <1>3, <1>11 DEF z

(* A lookup returns what the leaves hold, and 0 for a key that none has.   *)
LEMMA LookupRight ==
  ASSUME Numbers, TreeAssumption, TreeInv, phase = "ready", NEW k \in Nat
  PROVE  lookup(k) = IF Stored(k) = Absent THEN 0 ELSE Stored(k)
<1>1. PICK L, a, b, s : Shape(a, b, s, L)
  BY Zenon DEF TreeInv
<1>2. Types /\ Leaves(s, L) /\ Inners(a, b, L)
  BY Zenon, <1>1 DEF TreeInv, Shape
<1>3. L \in Nat
  BY <1>2 DEF Leaves, Types
<1>4. ASSUME NEW n \in 1 .. L, NEW x \in Hits(n, k)
      PROVE  lookup(k) = IF Stored(k) = Absent THEN 0 ELSE Stored(k)
  <2>1. Descend(k) = n
    BY Zenon, <1>1, <1>2, DescendMeets
  <2>2. Hits(n, k) = {x} /\ Min(Hits(n, k)) = x /\ Stored(k) = node[n].vals[x]
    BY Zenon, <1>2, StoredFound
  <2>3. node[n].vals[x] \in TreeVals
    BY Zenon, <1>2, ValueTyped
  <2>4. Stored(k) # Absent
    BY Zenon, <2>2, <2>3 DEF TreeAssumption, TreeVals
  <2>5. lookup(k) = node[n].vals[x]
    BY Zenon, <2>1, <2>2 DEF lookup
  <2> QED
    BY Zenon, <2>2, <2>4, <2>5
<1>5. ASSUME \A n \in 1 .. L : Hits(n, k) = {}
      PROVE  lookup(k) = IF Stored(k) = Absent THEN 0 ELSE Stored(k)
  <2>1. Stored(k) = Absent
    BY Zenon, <1>2, <1>5, StoredFound
  <2>2. Descend(k) = 0 \/ Descend(k) \in 1 .. L
    <3>1. L = 0 \/ L > 0
      BY <1>3
    <3> QED
      BY Zenon, <1>1, <1>2, <3>1, DescendFits
  <2>3. Hits(Descend(k), k) = {}
    BY Zenon, <1>5, <2>2 DEF Hits
  <2> QED
    BY Zenon, <2>1, <2>3 DEF lookup
<1> QED
  BY Zenon, <1>4, <1>5

(* The descent for a key finds its slot if it has one.                     *)
LEMMA DescendFinds ==
  ASSUME Numbers, TreeAssumption, Types, NEW a, NEW b, NEW s, NEW L, Shape(a, b, s, L),
         phase = "ready", NEW k \in Nat
  PROVE  \/ Hits(Descend(k), k) = {} /\ Stored(k) = Absent
         \/ \E x : /\ Descend(k) \in 1 .. L
                   /\ Hits(Descend(k), k) = {x} /\ Min(Hits(Descend(k), k)) = x
                   /\ Stored(k) = node[Descend(k)].vals[x]
                   /\ Stored(k) \in TreeVals /\ Stored(k) # Absent
<1> DEFINE z == Descend(k)
<1>1. Leaves(s, L) /\ Inners(a, b, L) /\ L \in Nat
  BY DEF Shape, Leaves, Types
<1>2. CASE Hits(z, k) = {}
  <2>1. \A n \in 1 .. L : Hits(n, k) = {}
    BY Zenon, <1>2, DescendMeets
  <2>2. Stored(k) = Absent
    BY Zenon, <2>1, <1>1, StoredFound
  <2> QED
    BY Zenon, <1>2, <2>2
<1>3. CASE Hits(z, k) # {}
  <2>1. z # 0
    BY Zenon, <1>3 DEF Hits
  <2>2. L # 0
    BY Zenon, <2>1, DescendFits
  <2>3. L > 0
    BY <2>2, <1>1
  <2>4. z \in 1 .. L
    BY Zenon, <2>3, DescendFits
  <2> HIDE DEF z
  <2>5. PICK x : x \in Hits(z, k)
    BY Zenon, <1>3
  <2>6. Hits(z, k) = {x} /\ Min(Hits(z, k)) = x /\ Stored(k) = node[z].vals[x]
    BY Zenon, <2>4, <2>5, <1>1, StoredFound
  <2>7. Stored(k) \in TreeVals
    BY Zenon, <2>4, <2>5, <2>6, <1>1, ValueTyped
  <2>8. Stored(k) # Absent
    BY Zenon, <2>7 DEF TreeAssumption, TreeVals
  <2> QED
    BY Zenon, <2>4, <2>6, <2>7, <2>8 DEF z
<1> QED
  BY Zenon, <1>2, <1>3

(* first_key finds what BuildInner asks of it.                             *)
LEMMA BuildInnerKeeps ==
  ASSUME Numbers, TreeAssumption, TreeInv, BuildInner
  PROVE  TreeInv'
<1>1. PICK L, a, b, s : Shape(a, b, s, L)
  BY Zenon DEF TreeInv
<1>2. Types /\ Leaves(s, L) /\ Inners(a, b, L)
  BY Zenon, <1>1 DEF TreeInv, Shape
<1>3. FirstKeys(a)
  BY Zenon, <1>2, FirstKeyBelow DEF FirstKeys
<1> QED
  BY Zenon, <1>1, <1>2, <1>3, InnerInShape

(* What a call does to the map, and that it returns what the map says.     *)
LEMMA CallEffect ==
  ASSUME Numbers, TreeAssumption, TreeInv, NEW k \in Nat, NEW v \in TreeVals,
         update(k, v) \/ insert(k, v)
  PROVE  /\ TreeInv' /\ phase = "ready" /\ phase' = phase
         /\ \/ /\ call' = [op |-> "insert", key |-> k, val |-> v, ok |-> FALSE]
               /\ \A q : Stored(q)' = Stored(q)
            \/ /\ call' = [op |-> "update", key |-> k, val |-> v, ok |-> FALSE]
               /\ Stored(k) = Absent /\ \A q : Stored(q)' = Stored(q)
            \/ /\ call' = [op |-> "update", key |-> k, val |-> v, ok |-> TRUE]
               /\ Stored(k) # Absent
               /\ \A q : Stored(q)' = IF q = k THEN v ELSE Stored(q)
<1>1. /\ phase = "ready" /\ phase' = phase
      /\ UNCHANGED <<keys, level, parents, i, phase, root>>
  BY Zenon DEF update, insert, Replace, Returns
<1>2. CASE insert(k, v)
  <2>1. /\ node' = node
        /\ call' = [op |-> "insert", key |-> k, val |-> v, ok |-> FALSE]
    BY Zenon, <1>2 DEF insert, Returns
  <2> QED
    BY Zenon, <1>1, <2>1, ShapeStays
<1>3. CASE update(k, v)
  <2> DEFINE z == Descend(k)
  <2>1. PICK L, a, b, s : Shape(a, b, s, L)
    BY Zenon DEF TreeInv
  <2>2. Types
    BY Zenon DEF TreeInv
  <2>3. \/ Hits(z, k) = {} /\ Stored(k) = Absent
        \/ \E x : /\ z \in 1 .. L
                  /\ Hits(z, k) = {x} /\ Min(Hits(z, k)) = x /\ Stored(k) # Absent
    BY Zenon, <1>1, <2>1, <2>2, DescendFinds
  <2>4. Replace(k, v, z, Hits(z, k))
    BY Zenon, <1>3 DEF update
  <2> HIDE DEF z
  <2>5. CASE Hits(z, k) = {} /\ Stored(k) = Absent
    <3>1. /\ node' = node
          /\ call' = [op |-> "update", key |-> k, val |-> v, ok |-> FALSE]
      BY Zenon, <2>4, <2>5 DEF Replace, Returns
    <3> QED
      BY Zenon, <1>1, <2>5, <3>1, ShapeStays
  <2>6. ASSUME NEW x, z \in 1 .. L, Hits(z, k) = {x}, Min(Hits(z, k)) = x, Stored(k) # Absent
        PROVE  /\ TreeInv'
               /\ call' = [op |-> "update", key |-> k, val |-> v, ok |-> TRUE]
               /\ \A q : Stored(q)' = IF q = k THEN v ELSE Stored(q)
    <3>1. x \in Hits(z, k) /\ Hits(z, k) # {}
      BY Zenon, <2>6
    <3>2. /\ node' = [node EXCEPT ![z].vals[x] = v]
          /\ call' = [op |-> "update", key |-> k, val |-> v, ok |-> TRUE]
      BY Zenon, <2>4, <2>6, <3>1 DEF Replace, Returns
    <3> QED
      BY Zenon, <1>1, <2>1, <2>2, <2>6, <3>1, <3>2, WriteKeeps
  <2> QED
    BY Zenon, <1>1, <2>3, <2>5, <2>6
<1> QED
  BY Zenon, <1>2, <1>3

(* TreeInv is inductive.                                                   *)
LEMMA NextKeeps ==
  ASSUME Numbers, TreeAssumption, TreeInv, [TNext]_tvars
  PROVE  TreeInv'
<1>1. Probes \subseteq Nat
  BY DEF Probes, TreeAssumption
<1>2. CASE TNext
  BY Zenon, <1>1, <1>2, NextIsStep, LeafInShape, BuildInnerKeeps, SettlesShape, CallEffect
<1>3. CASE UNCHANGED tvars
  BY Zenon, <1>3, ShapeStays DEF tvars
<1> QED
  BY Zenon, <1>2, <1>3

(* From a leaf on, the links lead along the loaded keys to their end.      *)
LEMMA AlongUpward ==
  ASSUME Numbers, Types, NEW a, NEW b, NEW s, NEW L, Shape(a, b, s, L), phase = "ready",
         NEW z \in 1 .. L
  PROVE  Along[z] = Upward(s[z])
<1> DEFINE N == Len(node)
           Step(f, n) == IF n = 0 THEN <<>> ELSE node[n].vals \o f[node[n].next]
           g == [n \in 0 .. N |-> IF n \in 1 .. L THEN Upward(s[n]) ELSE <<>>]
<1>1. /\ Leaves(s, L) /\ Inners(a, b, L)
      /\ L \in Nat /\ N \in Nat /\ L <= N /\ Len(keys) \in Nat
      /\ s[L + 1] = Len(keys) + 1
  BY DEF Shape, Leaves, Phases, Types, Sorted
<1>2. Upward(s[L + 1]) = <<>>
  BY <1>1 DEF Upward
<1>3. \A n \in 1 .. L : node[n].vals \o Upward(s[n + 1]) = Upward(s[n])
  <2>1. \A n \in 1 .. L : StepsUp(s, n)
    BY Zenon, UpwardStep
  <2> QED
    BY Zenon, <2>1 DEF StepsUp
<1>4. \A n \in 1 .. L : node[n].next = IF n < L THEN n + 1 ELSE 0
  BY Zenon, <1>1 DEF Leaves, IsLeaf
<1>5. \A n \in 1 .. L :
        n \in 0 .. N /\ n # 0 /\ (n < L => n + 1 \in 1 .. L) /\ (~(n < L) => n = L)
  BY <1>1
<1>6. /\ 0 \in 0 .. N /\ 0 \notin 1 .. L
      /\ \A n \in 0 .. N : n \in 1 .. L \/ n = 0 \/ n \in L + 1 .. N
  BY <1>1
<1>7. ASSUME NEW n \in 0 .. N PROVE g[n] = Step(g, n)
  <2>1. CASE n = 0
    BY Zenon, <1>6, <2>1
  <2>2. CASE n \in 1 .. L /\ n < L
    <3>1. n + 1 \in 1 .. L /\ n + 1 \in 0 .. N /\ node[n].next = n + 1 /\ n # 0
      BY Zenon, <1>4, <1>5, <2>2
    <3>2. g[n + 1] = Upward(s[n + 1]) /\ g[n] = Upward(s[n])
      BY Zenon, <2>2, <3>1
    <3> HIDE DEF g
    <3> QED
      BY Zenon, <1>3, <2>2, <3>1, <3>2
  <2>3. CASE n \in 1 .. L /\ ~(n < L)
    <3>1. n = L /\ node[n].next = 0 /\ n # 0
      BY Zenon, <1>4, <1>5, <2>3
    <3>2. g[0] = Upward(s[L + 1]) /\ g[n] = Upward(s[n])
      BY Zenon, <1>2, <1>6, <2>3
    <3> HIDE DEF g
    <3> QED
      BY Zenon, <1>3, <2>3, <3>1, <3>2
  <2>4. CASE n \in L + 1 .. N
    <3>1. n # 0 /\ n \notin 1 .. L
      BY <1>1, <2>4
    <3>2. node[n].vals = <<>> /\ node[n].next = 0
      BY Zenon, <1>1, <2>4 DEF Inners, IsInner
    <3>3. g[0] = <<>> /\ g[n] = <<>>
      BY Zenon, <1>6, <3>1
    <3>4. <<>> \o <<>> = <<>>
      OBVIOUS
    <3> HIDE DEF g
    <3> QED
      BY Zenon, <3>1, <3>2, <3>3, <3>4
  <2> QED
    BY Zenon, <1>6, <2>1, <2>2, <2>3, <2>4
<1>8. g = [n \in 0 .. N |-> Step(g, n)]
  BY Zenon, <1>7
<1> HIDE DEF g
<1>9. Along = [n \in 0 .. N |-> Step(Along, n)]
  BY Zenon, <1>8 DEF Along
<1>10. \A n \in 0 .. N : Along[n] = Step(Along, n)
  BY Zenon, <1>9
<1>11. Along[0] = <<>>
  BY Zenon, <1>6, <1>10
<1> DEFINE Good == {d \in Nat : \A n \in 1 .. L : n + d = L => Along[n] = Upward(s[n])}
<1>12. 0 \in Good
  <2>1. ASSUME NEW n \in 1 .. L, n + 0 = L PROVE Along[n] = Upward(s[n])
    <3>1. n = L /\ ~(n < L)
      BY <1>1, <2>1
    <3>2. node[n].next = 0 /\ n # 0 /\ n \in 0 .. N
      BY Zenon, <1>4, <1>5, <3>1
    <3>3. Along[n] = node[n].vals \o <<>>
      BY Zenon, <1>10, <1>11, <3>2
    <3> QED
      BY Zenon, <1>2, <1>3, <3>1, <3>3
  <2>2. 0 \in Nat
    OBVIOUS
  <2> QED
    BY Zenon, <2>1, <2>2
<1>13. ASSUME NEW d \in Nat, d \in Good PROVE d + 1 \in Good
  <2>1. ASSUME NEW n \in 1 .. L, n + (d + 1) = L PROVE Along[n] = Upward(s[n])
    <3>1. n < L /\ n + 1 \in 1 .. L /\ (n + 1) + d = L
      BY <1>1, <2>1
    <3>2. Along[n + 1] = Upward(s[n + 1])
      BY Zenon, <1>13, <3>1
    <3>3. Along[n] = node[n].vals \o Along[n + 1]
      BY Zenon, <1>4, <1>5, <1>10, <3>1
    <3> QED
      BY Zenon, <1>3, <3>2, <3>3
  <2>2. d + 1 \in Nat
    OBVIOUS
  <2> QED
    BY Zenon, <2>1, <2>2
<1>14. Nat \subseteq Good
  <2> HIDE DEF Good
  <2> QED
    BY Zenon, <1>12, <1>13 DEF Numbers, Inductive
<1>15. L - z \in Nat /\ z + (L - z) = L
  BY <1>1
<1> QED
  BY Zenon, <1>14, <1>15

(* All loaded keys before the place that a scan from lo starts at are      *)
(* below lo, and no others.                                                *)
StartsAt(s, L, lo) ==
  LET z == Descend(lo)
      q == Cardinality({j \in DOMAIN node[z].keys :
                          \A h \in 1 .. j : node[z].keys[h] < lo})
  IN  /\ z \in 1 .. L
      /\ q \in Nat /\ s[z] \in Nat /\ s[z] >= 1
      /\ s[z] + q <= Len(keys) + 1
      /\ Cardinality({j \in DOMAIN keys : keys[j] < lo}) = s[z] - 1 + q

(* The place in its leaf that a scan starts from.                          *)
LEMMA ScanStarts ==
  ASSUME Numbers, Types, NEW a, NEW b, NEW s, NEW L, Shape(a, b, s, L), phase = "ready",
         NEW lo \in Nat, L > 0
  PROVE  StartsAt(s, L, lo)
<1> DEFINE z  == Descend(lo)
           ks == node[z].keys
           m  == Len(ks)
           T  == {h \in 1 .. m : ~(ks[h] < lo)}
           K  == Len(keys)
           v  == s[z]
<1>1. Leaves(s, L) /\ L \in Nat /\ K \in Nat /\ DOMAIN keys = 1 .. K
  BY DEF Shape, Leaves, Types, Sorted
<1>2. z \in 1 .. L
  BY Zenon, DescendFits
<1>3. z \in 1 .. Len(node)
  <2> HIDE DEF z
  <2> QED
    BY <1>2 DEF Shape, Leaves, Types
<1>4. m \in Nat /\ DOMAIN ks = 1 .. m
  BY Zenon, <1>3, NodeTyped
<1>5. /\ v \in Nat /\ v >= 1 /\ v + m <= K + 1 /\ s[z + 1] = v + m
      /\ \A h \in 1 .. m : v + h - 1 \in 1 .. K /\ ks[h] = keys[v + h - 1]
  BY ZenonT(60), <1>1, <1>2, LeafPlaces
<1>6. \A p \in 1 .. K : /\ p < v => keys[p] < lo
                        /\ p >= v + m => lo < keys[p]
  <2>1. ASSUME NEW p \in 1 .. K
        PROVE  (p < s[z] => keys[p] < lo) /\ (p >= s[z + 1] => lo < keys[p])
    BY Zenon, DescentCuts
  <2> HIDE DEF z
  <2> QED
    BY Zenon, <1>5, <2>1
<1> HIDE DEF z, v
<1>7. {j \in DOMAIN ks : \A h \in 1 .. j : ks[h] < lo}
        = {j \in 1 .. m : \A h \in 1 .. j : h \notin T}
  BY <1>4
<1>8. PICK q \in 0 .. m :
           /\ Cardinality({j \in 1 .. m : \A h \in 1 .. j : h \notin T}) = q
           /\ \A h \in 1 .. q : h \notin T
           /\ q < m => q + 1 \in T
  <2> HIDE DEF T, m
  <2> QED
    BY Zenon, <1>4, PrefixLength
<1>9. q \in Nat /\ v + q <= K + 1 /\ q <= m
  BY <1>1, <1>4, <1>5
<1>10. \A p \in 1 .. K : keys[p] \in Nat
  BY Zenon, KeyOrder
<1>11. \A h \in 1 .. q : h \in 1 .. m /\ ks[h] < lo
  <2> HIDE DEF ks
  <2> QED
    BY <1>4, <1>8, <1>9
<1>12. q < m => v + q \in 1 .. K /\ ~(keys[v + q] < lo)
  <2> SUFFICES ASSUME q < m PROVE v + q \in 1 .. K /\ ~(keys[v + q] < lo)
    OBVIOUS
  <2>1. q + 1 \in 1 .. m /\ v + (q + 1) - 1 = v + q
    BY <1>4, <1>5, <1>9
  <2>2. ~(ks[q + 1] < lo)
    BY Zenon, <1>8
  <2> HIDE DEF ks
  <2> QED
    BY Zenon, <1>5, <2>1, <2>2
<1>13. ASSUME NEW p \in 1 .. K PROVE keys[p] < lo <=> p \in 1 .. v - 1 + q
  <2>1. CASE p < v
    BY <1>5, <1>6, <1>9, <2>1
  <2>2. CASE p >= v /\ p < v + q
    <3>1. p - v + 1 \in 1 .. q /\ v + (p - v + 1) - 1 = p
      BY <1>5, <1>9, <2>2
    <3>2. keys[p] < lo
      <4> HIDE DEF ks, m
      <4> QED
        BY Zenon, <1>5, <1>11, <3>1
    <3> QED
      BY <1>5, <1>9, <2>2, <3>2
  <2>3. CASE p >= v + q /\ q < m
    <3>1. keys[v + q] <= keys[p] /\ keys[v + q] \in Nat
      BY Zenon, <1>12, <2>3, KeyOrder
    <3>2. ~(keys[v + q] < lo)
      BY Zenon, <1>12, <2>3
    <3>3. ~(keys[p] < lo)
      BY <1>10, <3>1, <3>2
    <3> QED
      BY <1>5, <1>9, <2>3, <3>3
  <2>4. CASE p >= v + q /\ q = m
    <3>1. lo < keys[p]
      BY Zenon, <1>6, <2>4
    <3>2. ~(keys[p] < lo)
      BY <1>10, <3>1
    <3> QED
      BY <1>5, <1>9, <2>4, <3>2
  <2> QED
    BY <1>4, <1>5, <1>9, <2>1, <2>2, <2>3, <2>4
<1>14. {j \in DOMAIN keys : keys[j] < lo} = 1 .. v - 1 + q
  <2>1. \A p \in 1 .. v - 1 + q : p \in 1 .. K
    BY <1>1, <1>5, <1>9
  <2> QED
    BY Zenon, <1>1, <1>13, <2>1
<1>15. v - 1 + q \in Nat
  BY <1>5, <1>9
<1>16. Cardinality(1 .. v - 1 + q) = v - 1 + q
  BY <1>15 DEF Numbers
<1> QED
  BY Zenon, <1>2, <1>5, <1>7, <1>8, <1>9, <1>14, <1>16 DEF StartsAt, z, v
(* A scan sees the stored values of the loaded keys that are not below lo, *)
(* in order, until n are taken or none is left.                            *)
LEMMA ScanRight ==
  ASSUME Numbers, TreeInv, phase = "ready", NEW lo \in Nat, NEW n \in Nat
  PROVE  LET below == Cardinality({j \in DOMAIN keys : keys[j] < lo})
             taken == Min({n, Len(keys) - below})
         IN  scan(lo, n) = [j \in 1 .. taken |-> Stored(keys[below + j])]
<1> DEFINE below == Cardinality({j \in DOMAIN keys : keys[j] < lo})
           taken == Min({n, Len(keys) - below})
           K == Len(keys)
           z == Descend(lo)
<1>1. PICK L, a, b, s : Shape(a, b, s, L)
  BY Zenon DEF TreeInv
<1>2. Types /\ Leaves(s, L) /\ Inners(a, b, L)
  BY Zenon, <1>1 DEF TreeInv, Shape
<1>3. L \in Nat /\ K \in Nat /\ DOMAIN keys = 1 .. K
  BY <1>2 DEF Leaves, Types, Sorted
<1>4. CASE L = 0
  <2>1. K = 0
    <3>1. s[1] = 1 /\ s[L + 1] = K + 1
      BY Zenon, <1>1, <1>2 DEF Shape, Leaves, Phases
    <3>2. s[0 + 1] = s[1]
      OBVIOUS
    <3>3. 1 = K + 1
      BY Zenon, <1>4, <3>1, <3>2
    <3> QED
      BY <1>3, <3>3
  <2>2. {j \in DOMAIN keys : keys[j] < lo} = {}
    BY <1>3, <2>1
  <2>3. below = 0
    <3>1. 0 \in Nat /\ {} = 1 .. 0
      OBVIOUS
    <3>2. Cardinality(1 .. 0) = 0
      BY Zenon, <3>1 DEF Numbers
    <3> QED
      BY Zenon, <2>2, <3>1, <3>2
  <2>4. taken = 0
    <3>1. K - below = 0
      BY <2>1, <2>3
    <3>2. Min({n, 0}) \in {n, 0} /\ Min({n, 0}) <= 0
      BY LeastOfTwo
    <3>3. \A x \in {n, 0} : x <= 0 => x = 0
      OBVIOUS
    <3> QED
      BY Zenon, <3>1, <3>2, <3>3
  <2>5. scan(lo, n) = <<>>
    BY Zenon, <1>1, <1>2, <1>4, DescendFits DEF scan
  <2>6. [j \in 1 .. 0 |-> Stored(keys[below + j])] = <<>>
    OBVIOUS
  <2> QED
    BY Zenon, <2>4, <2>5, <2>6
<1>5. CASE L > 0
  <2> DEFINE q   == Cardinality({j \in DOMAIN node[z].keys :
                                   \A h \in 1 .. j : node[z].keys[h] < lo})
             v   == s[z]
             idx == 1 + q
             all == Along[z]
             top == Min({idx + n - 1, Len(all)})
  <2>1. /\ z \in 1 .. L
        /\ q \in Nat /\ v \in Nat /\ v >= 1
        /\ v + q <= K + 1
        /\ below = v - 1 + q
    <3>1. StartsAt(s, L, lo)
      BY Zenon, <1>1, <1>2, <1>5, ScanStarts
    <3> QED
      BY Zenon, <3>1 DEF StartsAt
  <2>2. all = Upward(v)
    <3>1. z \in 1 .. L
      BY Zenon, <2>1
    <3>2. \A x \in 1 .. L : Along[x] = Upward(s[x])
      <4>1. ASSUME NEW x \in 1 .. L PROVE Along[x] = Upward(s[x])
        BY <1>1, <1>2, AlongUpward
      <4> QED
        BY Zenon, <4>1
    <3> HIDE DEF z
    <3> QED
      BY Zenon, <3>1, <3>2
  <2>3. z # 0
    <3> HIDE DEF z
    <3> QED
      BY <2>1
  <2>4. scan(lo, n) = SubSeq(all, idx, top)
    BY Zenon, <2>3 DEF scan
  <2> HIDE DEF z, q, v, all, K, below
  <2>5. all = [j \in 1 .. K + 1 - v |-> Stored(keys[v + j - 1])]
    BY Zenon, <2>2 DEF Upward, K
  <2>6. K + 1 - v \in Nat /\ Len(all) = K + 1 - v
    BY <1>3, <2>1, <2>5
  <2>7. taken \in Nat /\ top = q + taken /\ q + taken <= K + 1 - v
    <3>1. K - below \in Nat /\ idx + n - 1 \in Nat /\ Len(all) \in Nat
      BY <1>3, <2>1, <2>6
    <3>2. taken = IF n <= K - below THEN n ELSE K - below
      BY Zenon, <3>1, LeastOfTwo DEF K
    <3>3. top = IF idx + n - 1 <= Len(all) THEN idx + n - 1 ELSE Len(all)
      BY Zenon, <3>1, LeastOfTwo
    <3> HIDE DEF taken, top
    <3> QED
      BY <1>3, <2>1, <2>6, <3>1, <3>2, <3>3
  <2> HIDE DEF taken, top
  <2>8. SubSeq(all, idx, top) = [j \in 1 .. taken |-> all[q + j]]
    <3>1. 1 + top - idx = taken
      BY <2>1, <2>7
    <3>2. \A j \in 1 .. taken : j + idx - 1 = q + j
      BY <2>1, <2>7
    <3>3. SubSeq(all, idx, top) = [j \in 1 .. (1 + top - idx) |-> all[j + idx - 1]]
      BY <2>1, <2>5, <2>6, <2>7
    <3> HIDE DEF idx
    <3> QED
      BY Zenon, <3>1, <3>2, <3>3
  <2>9. ASSUME NEW j \in 1 .. taken PROVE all[q + j] = Stored(keys[below + j])
    <3>1. q + j \in 1 .. K + 1 - v /\ v + (q + j) - 1 = below + j
      BY <2>1, <2>6, <2>7
    <3> QED
      BY Zenon, <2>5, <3>1
  <2> QED
    BY Zenon, <2>4, <2>8, <2>9 DEF taken, K, below
<1> QED
  BY <1>3, <1>4, <1>5

(* In a tree a lookup finds what the leaves hold.                          *)
LEMMA ShapeAnswers ==
  ASSUME Numbers, TreeAssumption, TreeInv
  PROVE  LookupFinds
<1>1. Probes \subseteq Nat
  BY DEF Probes, TreeAssumption
<1> QED
  BY Zenon, <1>1, LookupRight DEF LookupFinds

(* In a tree a scan returns what the leaves hold, in order.                *)
LEMMA ShapeScans ==
  ASSUME Numbers, TreeAssumption, TreeInv
  PROVE  ScanInOrder
<1>1. Probes \subseteq Nat /\ {0, 1, FANOUT, MaxKeys} \subseteq Nat
  BY DEF Probes, TreeAssumption
<1>2. ASSUME phase = "ready", NEW lo \in Probes, NEW n \in {0, 1, FANOUT, MaxKeys}
      PROVE  LET below == Cardinality({j \in DOMAIN keys : keys[j] < lo})
                 taken == Min({n, Len(keys) - below})
             IN  scan(lo, n) = [j \in 1 .. taken |-> Stored(keys[below + j])]
  <2>1. lo \in Nat /\ n \in Nat
    BY Zenon, <1>1
  <2> QED
    BY Zenon, <1>2, <2>1, ScanRight
<1> QED
  BY Zenon, <1>2 DEF ScanInOrder

(* Setting the root loads the map, a call does what the map's does, and no *)
(* other step can be seen in it.                                           *)
LEMMA MapSteps ==
  ASSUME Numbers, TreeAssumption, TreeInv, [TNext]_tvars
  PROVE  [Map!Next]_Map!vars
<1>1. Probes \subseteq Nat
  BY DEF Probes, TreeAssumption
<1>3. ASSUME BuildLeaf \/ LeavesDone \/ BuildInner \/ NextLevel
      PROVE  UNCHANGED Map!vars
  <2>1. phase # "ready" /\ phase' # "ready" /\ call' = call
    BY <1>3 DEF BuildLeaf, AddLeaf, LeavesDone, BuildInner, AddInner, NextLevel
  <2> QED
    BY Zenon, <2>1 DEF Map!vars
<1>4. ASSUME SetRoot PROVE Map!Next
  <2>1. phase # "ready" /\ phase' = "ready" /\ call' = call /\ node' = node
    BY <1>4 DEF SetRoot
  <2>2. \A k \in Probes : Stored(k)' = Stored(k)
    BY Zenon, <2>1, StoredStays
  <2>3. \A k \in Probes : Stored(k) \in TreeVals \cup {Absent}
    BY Zenon, <1>1, <1>4, HeldTyped
  <2>4. Held = [k \in Probes |-> Absent]
    BY Zenon, <2>1 DEF Held
  <2>5. Held' = [k \in Probes |-> Stored(k)]
    BY Zenon, <2>1, <2>2 DEF Held
  <2>6. [k \in Probes |-> Stored(k)] \in [Probes -> TreeVals \cup {Absent}]
    BY Zenon, <2>3
  <2>7. Held' \in [Probes -> TreeVals \cup {Absent}]
    BY Zenon, <2>5, <2>6
  <2>8. Map!Load
    BY Zenon, <2>1, <2>4, <2>7 DEF Map!Load, Map!Empty, Held
  <2> QED
    BY Zenon, <2>8 DEF Map!Next
<1>5. ASSUME NEW k \in Probes, NEW v \in TreeVals, update(k, v) \/ insert(k, v)
      PROVE  Map!Next
  <2>1. k \in Nat
    BY Zenon, <1>1
  <2>2. /\ phase = "ready" /\ phase' = phase
        /\ \/ /\ call' = [op |-> "insert", key |-> k, val |-> v, ok |-> FALSE]
              /\ \A q : Stored(q)' = Stored(q)
           \/ /\ call' = [op |-> "update", key |-> k, val |-> v, ok |-> FALSE]
              /\ Stored(k) = Absent /\ \A q : Stored(q)' = Stored(q)
           \/ /\ call' = [op |-> "update", key |-> k, val |-> v, ok |-> TRUE]
              /\ Stored(k) # Absent
              /\ \A q : Stored(q)' = IF q = k THEN v ELSE Stored(q)
    BY Zenon, <1>5, <2>1, CallEffect
  <2>3. Held = [q \in Probes |-> Stored(q)] /\ Held' = [q \in Probes |-> Stored(q)']
    BY Zenon, <2>2 DEF Held
  <2>4. Held[k] = Stored(k)
    BY Zenon, <2>3
  <2>5. ASSUME NEW o \in {"insert", "update"}, NEW f \in BOOLEAN,
               call' = [op |-> o, key |-> k, val |-> v, ok |-> f]
        PROVE  /\ call' \in Map!Calls
               /\ call'.op = o /\ call'.key = k /\ call'.val = v /\ call'.ok = f
    BY <2>5 DEF Map!Calls
  <2>6. CASE /\ call' = [op |-> "insert", key |-> k, val |-> v, ok |-> FALSE]
             /\ \A q : Stored(q)' = Stored(q)
    <3>1. Held' = Held
      BY Zenon, <2>3, <2>6
    <3>2. call' \in Map!Calls /\ call'.op = "insert" /\ call'.ok = FALSE
      BY Zenon, <2>5, <2>6
    <3>3. Map!Insert(call')
      BY Zenon, <3>1, <3>2 DEF Map!Insert, Held
    <3> QED
      BY Zenon, <3>2, <3>3 DEF Map!Next
  <2>7. CASE /\ call' = [op |-> "update", key |-> k, val |-> v, ok |-> FALSE]
             /\ Stored(k) = Absent /\ \A q : Stored(q)' = Stored(q)
    <3>1. Held' = Held
      BY Zenon, <2>3, <2>7
    <3>2. call' \in Map!Calls /\ call'.op = "update" /\ call'.key = k /\ call'.ok = FALSE
      BY Zenon, <2>5, <2>7
    <3>3. call'.ok = (Held[call'.key] # Absent)
      BY Zenon, <3>2, <2>4, <2>7
    <3>4. Map!Update(call')
      BY Zenon, <3>1, <3>2, <3>3 DEF Map!Update, Held
    <3> QED
      BY Zenon, <3>2, <3>4 DEF Map!Next
  <2>8. CASE /\ call' = [op |-> "update", key |-> k, val |-> v, ok |-> TRUE]
             /\ Stored(k) # Absent
             /\ \A q : Stored(q)' = IF q = k THEN v ELSE Stored(q)
    <3>1. Held' = [Held EXCEPT ![k] = v]
      BY Zenon, <2>3, <2>8
    <3>2. /\ call' \in Map!Calls /\ call'.op = "update" /\ call'.key = k /\ call'.val = v
          /\ call'.ok = TRUE
      BY Zenon, <2>5, <2>8
    <3>3. call'.ok = (Held[call'.key] # Absent)
      BY Zenon, <3>2, <2>4, <2>8
    <3>4. Held' = IF call'.ok THEN [Held EXCEPT ![call'.key] = call'.val] ELSE Held
      BY Zenon, <3>1, <3>2
    <3>5. Map!Update(call')
      BY Zenon, <3>2, <3>3, <3>4 DEF Map!Update, Held
    <3> QED
      BY Zenon, <3>2, <3>5 DEF Map!Next
  <2> QED
    BY Zenon, <2>2, <2>6, <2>7, <2>8
<1>6. UNCHANGED tvars => UNCHANGED Map!vars
  <2>1. SUFFICES ASSUME UNCHANGED tvars PROVE UNCHANGED Map!vars
    OBVIOUS
  <2>2. phase' = phase /\ call' = call /\ node' = node
    BY Zenon, <2>1 DEF tvars
  <2>3. \A k : Stored(k)' = Stored(k)
    BY Zenon, <2>2, StoredStays
  <2> QED
    BY Zenon, <2>2, <2>3 DEF Map!vars
<1> QED
  BY Zenon, <1>3, <1>4, <1>5, <1>6, NextIsStep

-----------------------------------------------------------------------------
(* SumTheorems has the induction, and the library the size of an interval. *)
INSTANCE SumTheorems

(* What the lemmas assume of the numbers.                                  *)
LEMMA NumbersHold == Numbers
<1>1. ASSUME NEW Good, Inductive(Good) PROVE Nat \subseteq Good
  BY Zenon, <1>1, NatSetInduction DEF Inductive
<1>2. \A q \in Nat : Cardinality(1 .. q) = q
  BY FS_Interval
<1> QED
  BY Zenon, <1>1, <1>2 DEF Numbers

(* The load and the calls keep the tree in shape.                          *)
LEMMA TreeInvariant ==
  ASSUME TreeAssumption
  PROVE  TSpec => []TreeInv
<1>1. TInit => TreeInv
  BY Zenon, StartsInShape
<1>2. TreeInv /\ [TNext]_tvars => TreeInv'
  BY Zenon, NextKeeps, NumbersHold
<1> QED
  BY <1>1, <1>2, PTL DEF TSpec

(* For any fan-out, number of keys and updates, and through any number of  *)
(* levels, a lookup finds what the leaves hold for its key and nothing     *)
(* else (index.hpp:93-105).                                                *)
THEOREM LookupIsRight ==
  ASSUME TreeAssumption
  PROVE  TSpec => []LookupFinds
<1>1. TreeInv => LookupFinds
  BY Zenon, ShapeAnswers, NumbersHold
<1> QED
  BY <1>1, TreeInvariant, PTL

(* A scan returns the values of the loaded keys from its first key on, in  *)
(* order, across leaves and after any updates (index.hpp:124-147).         *)
THEOREM ScanIsRight ==
  ASSUME TreeAssumption
  PROVE  TSpec => []ScanInOrder
<1>1. TreeInv => ScanInOrder
  BY Zenon, ShapeScans, NumbersHold
<1> QED
  BY <1>1, TreeInvariant, PTL

(* For any fan-out and number of keys the tree implements the index map:   *)
(* loading it gives the map its keys, update and remove return and do what *)
(* the map does (index.hpp:107-122), and insert is refused.                *)
THEOREM TreeIsMap ==
  ASSUME TreeAssumption
  PROVE  TSpec => TreeImplementsMap
<1>1. TreeInv /\ [TNext]_tvars => [Map!Next]_Map!vars
  BY Zenon, MapSteps, NumbersHold
<1> QED
  BY <1>1, MapStarts, TreeInvariant, PTL DEF TSpec, TreeImplementsMap, Map!Spec

(* No leaf gets more keys and no inner node more children than it has room *)
(* for, and every link leads to a node (index.hpp:50-90).                  *)
THEOREM NodesFit ==
  ASSUME TreeAssumption
  PROVE  TSpec => []TTypeOK
<1>1. TInit => Around
  BY DEF TInit, Around
<1>2. TreeInv /\ Around /\ [TNext]_tvars => Around'
  <2>1. UNCHANGED tvars /\ Around => Around'
    BY Zenon DEF tvars, Around
  <2> QED
    BY Zenon, <2>1, AroundStep
<1>3. TreeInv /\ Around => TTypeOK
  BY Zenon, ShapeFits
<1> QED
  BY <1>1, <1>2, <1>3, TreeInvariant, PTL DEF TSpec

=============================================================================
