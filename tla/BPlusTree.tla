------------------------------ MODULE BPlusTree ------------------------------
(***************************************************************************)
(* index.hpp: the bulk-loaded B+tree.  Nodes are numbered in the order in  *)
(* which alloc_node makes them; 0 is nullptr.  A step of the load is one   *)
(* iteration of one of its loops.                                          *)
(***************************************************************************)
EXTENDS Integers, Sequences, FiniteSetsExt, Functions

CONSTANTS
  FANOUT,
  MaxKeys,    \* bound on the number of keys loaded
  NewVals,    \* the values that calls write
  MaxWrites,  \* bound on the number of calls
  Absent      \* the key was not loaded

TreeAssumption ==
  /\ FANOUT \in Nat \ {0}
  /\ MaxKeys \in Nat /\ MaxWrites \in Nat
  /\ NewVals \subseteq Nat
  /\ Absent \notin (0 .. MaxKeys) \cup NewVals

VARIABLES
  keys,     \* the sorted keys given to bulk_load; the i-th has value i
  node,     \* every node allocated so far
  level,    \* the level the load is reading
  parents,  \* the level the load is building
  i,        \* the load's loop index
  phase,    \* "leaves", "inner" or "ready"
  root,     \* root_
  writes,   \* how many calls there have been
  call      \* the last call and what it returned

tvars == <<keys, node, level, parents, i, phase, root, writes, call>>

Probes   == 0 .. 2 * MaxKeys + 1
TreeVals == (0 .. MaxKeys) \cup NewVals

Leaf(ks, vs) ==
  [is_leaf |-> TRUE, keys |-> ks, vals |-> vs, children |-> <<>>, next |-> 0]
Inner(ks, cs) ==
  [is_leaf |-> FALSE, keys |-> ks, vals |-> <<>>, children |-> cs, next |-> 0]

first_key[n \in DOMAIN node] ==
  IF node[n].is_leaf THEN node[n].keys[1] ELSE first_key[node[n].children[1]]

(* Mutant: stops one separator late.                                       *)
ChildAfter(nd, k) ==
  1 + Cardinality({j \in DOMAIN nd.keys : \A h \in 1 .. j : k > nd.keys[h]})

(* while (i < n && k >= keys[i]) ++i: the child to descend into.           *)
Child(nd, k) ==
  1 + Cardinality({j \in DOMAIN nd.keys : \A h \in 1 .. j : k >= nd.keys[h]})

(* The leaf that the loop ends in, from the root on.                       *)
Descend(k) ==
  LET from[n \in 0 .. Len(node)] ==
        IF n = 0 THEN 0
        ELSE IF node[n].is_leaf THEN n
        ELSE from[node[n].children[Child(node[n], k)]]
  IN  from[root]

(* The places of a leaf that hold k; the loops stop at the first, and a    *)
(* null leaf has none.                                                     *)
Hits(n, k) ==
  IF n = 0 THEN {} ELSE {j \in DOMAIN node[n].keys : node[n].keys[j] = k}

lookup(k) ==
  LET n == Descend(k)
  IN  IF Hits(n, k) = {} THEN 0 ELSE node[n].vals[Min(Hits(n, k))]

-----------------------------------------------------------------------------
(* The driver loads 1 .. N; the even numbers leave room for absent keys    *)
(* between loaded ones.  The adapter sorts before it loads.                *)
TInit ==
  /\ \E n \in 0 .. MaxKeys : keys = [j \in 1 .. n |-> 2 * j]
  /\ node = <<>>
  /\ level = <<>>
  /\ parents = <<>>
  /\ i = 1
  /\ phase = "leaves"
  /\ root = 0
  /\ writes = 0
  /\ call = <<>>

(* One leaf of up to FANOUT keys, linked from the leaf prev before it.     *)
AddLeaf(prev) ==
  LET cnt == Min({FANOUT, Len(keys) - i + 1})
      ks  == SubSeq(keys, i, i + cnt - 1)
      new == Len(node) + 1
  IN  /\ phase = "leaves"
      /\ i <= Len(keys)
      /\ node' = Append([j \in DOMAIN node |->
                           IF j = prev THEN [node[j] EXCEPT !.next = new]
                           ELSE node[j]],
                        Leaf(ks, [j \in 1 .. cnt |-> i + j - 1]))
      /\ level' = Append(level, new)
      /\ i' = i + FANOUT
      /\ UNCHANGED <<keys, parents, phase, root, writes, call>>

(* Mutant: a leaf is not linked to the one before it.                      *)
BuildLeafUnlinked == AddLeaf(0)

BuildLeaf == AddLeaf(Len(node))

LeavesDone ==
  /\ phase = "leaves"
  /\ i > Len(keys)
  /\ phase' = "inner"
  /\ i' = 1
  /\ UNCHANGED <<keys, node, level, parents, root, writes, call>>

(* One inner node over up to width nodes of the level below; the last may *)
(* get a single child and no key.                                          *)
AddInner(width) ==
  LET cnt == Min({width, Len(level) - i + 1})
      cs  == SubSeq(level, i, i + cnt - 1)
  IN  /\ phase = "inner"
      /\ Len(level) > 1 /\ i <= Len(level)
      /\ node' = Append(node,
                        Inner([j \in 1 .. cnt - 1 |-> first_key[cs[j + 1]]], cs))
      /\ parents' = Append(parents, Len(node) + 1)
      /\ i' = i + width
      /\ UNCHANGED <<keys, level, phase, root, writes, call>>

(* Mutant: a node takes one child more than it has room for.               *)
BuildInnerWide == AddInner(FANOUT + 2)

BuildInner == AddInner(FANOUT + 1)

(* level.swap(parents)                                                     *)
NextLevel ==
  /\ phase = "inner"
  /\ Len(level) > 1 /\ i > Len(level)
  /\ level' = parents
  /\ parents' = <<>>
  /\ i' = 1
  /\ UNCHANGED <<keys, node, phase, root, writes, call>>

SetRoot ==
  /\ phase = "inner"
  /\ Len(level) <= 1
  /\ root' = IF level = <<>> THEN 0 ELSE level[1]
  /\ phase' = "ready"
  /\ UNCHANGED <<keys, node, level, parents, i, writes, call>>

Returns(name, k, v, b) ==
  /\ phase = "ready"
  /\ writes < MaxWrites
  /\ writes' = writes + 1
  /\ call' = [op |-> name, key |-> k, val |-> v, ok |-> b]
  /\ UNCHANGED <<keys, level, parents, i, phase, root>>

(* The leaf n keeps its values or, at the places that match, takes v.      *)
Replace(k, v, n, matches) ==
  \/ /\ matches = {}
     /\ Returns("update", k, v, FALSE)
     /\ UNCHANGED node
  \/ /\ matches # {}
     /\ Returns("update", k, v, TRUE)
     /\ node' = [node EXCEPT ![n].vals[Min(matches)] = v]

(* Mutant: the leaf the descent ends in is taken to hold the key.          *)
updateUnmatched(k, v) ==
  LET n == Descend(k)
  IN  Replace(k, v, n, IF n = 0 THEN {} ELSE DOMAIN node[n].keys)

(* The key is sought as in lookup.                                         *)
update(k, v) ==
  LET n == Descend(k) IN Replace(k, v, n, Hits(n, k))

remove(k) == update(k, 0)

(* The adapter refuses to insert.                                          *)
insert(k, v) == Returns("insert", k, v, FALSE) /\ UNCHANGED node

TNext ==
  \/ BuildLeaf \/ LeavesDone \/ BuildInner \/ NextLevel \/ SetRoot
  \/ \E k \in Probes, v \in NewVals : update(k, v) \/ insert(k, v)
  \/ \E k \in Probes : remove(k)

TSpec == TInit /\ [][TNext]_tvars

(* The values of a leaf and of those after it, along next_leaf.            *)
Along[n \in 0 .. Len(node)] ==
  IF n = 0 THEN <<>> ELSE node[n].vals \o Along[node[n].next]

(* The values a scan visits: from the first key of the leaf not below lo,  *)
(* along next_leaf, until n are taken.                                     *)
scan(lo, n) ==
  LET nd  == Descend(lo)
      idx == 1 + Cardinality({j \in DOMAIN node[nd].keys :
                                \A h \in 1 .. j : node[nd].keys[h] < lo})
      all == Along[nd]
  IN  IF nd = 0 THEN <<>> ELSE SubSeq(all, idx, Min({idx + n - 1, Len(all)}))

-----------------------------------------------------------------------------
(* Properties                                                              *)

(* Every variable has its type.                                            *)
TTypeOK ==
  /\ \A n \in DOMAIN node :
       /\ Len(node[n].keys) <= FANOUT
       /\ Len(node[n].children) <= FANOUT + 1
       /\ node[n].next \in 0 .. Len(node)
  /\ Range(level) \cup Range(parents) \cup {root} \subseteq 0 .. Len(node)
  /\ phase \in {"leaves", "inner", "ready"}
  /\ call = <<>> \/ call.ok \in BOOLEAN

(* What the leaves hold, found without the inner nodes and the links.      *)
Stored(k) ==
  LET at == {n \in DOMAIN node : node[n].is_leaf /\ Hits(n, k) # {}}
  IN  IF at = {} THEN Absent
      ELSE LET n == Min(at) IN node[n].vals[Min(Hits(n, k))]

(* A point lookup finds every key of the leaves and nothing else           *)
(* (index.hpp:93-105), through any number of inner levels, also where the  *)
(* load left an inner node with one child and no key.                      *)
LookupFinds ==
  phase = "ready" =>
    \A k \in Probes :
      lookup(k) = IF Stored(k) = Absent THEN 0 ELSE Stored(k)

(* A scan visits the loaded keys from lo on in ascending order, across     *)
(* leaves, and stops after n or at the end (index.hpp:124-147).            *)
ScanInOrder ==
  phase = "ready" =>
    \A lo \in Probes, n \in {0, 1, FANOUT, MaxKeys} :
      LET below == Cardinality({j \in DOMAIN keys : keys[j] < lo})
          taken == Min({n, Len(keys) - below})
      IN  scan(lo, n) = [j \in 1 .. taken |-> Stored(keys[below + j])]

(* The tree implements the index map: the load gives it its keys, an       *)
(* update changes one of them or nothing and says which (index.hpp:107).   *)
Map ==
  INSTANCE KVIndex WITH
    Keys  <- Probes,
    Vals  <- TreeVals,
    Grows <- FALSE,
    map   <- [k \in Probes |-> IF phase = "ready" THEN Stored(k) ELSE Absent]

TreeImplementsMap == Map!Spec

=============================================================================
