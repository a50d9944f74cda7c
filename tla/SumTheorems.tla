---------------------------- MODULE SumTheorems -----------------------------
(***************************************************************************)
(* Sums over finite sets, as SumFunctionOnSet computes them: one element   *)
(* after the other in an order of CHOOSE's.  The sum of naturals is the    *)
(* number of points below the graph of the function, and everything else   *)
(* follows from counting.  The recursion is unrolled with a smallest       *)
(* counterexample, for which WFMin asks no operator.  Powers of two, a     *)
(* recursive function, are treated in the same way.                        *)
(***************************************************************************)
EXTENDS Integers, FiniteSetsExt, FiniteSetTheorems, Powers, TLAPS

(* The points below the graph of g over S.                                 *)
Area(g, S) == {p \in S \X Nat : 1 <= p[2] /\ p[2] <= g[p[1]]}

(* A column of the graph has as many points as it is high.                 *)
LEMMA Column ==
  ASSUME NEW g, NEW x, g[x] \in Nat
  PROVE  IsFiniteSet(Area(g, {x})) /\ Cardinality(Area(g, {x})) = g[x]
<1>1. Area(g, {x}) = {x} \X (1 .. g[x])
  BY DEF Area
<1>2. IsFiniteSet(1 .. g[x]) /\ Cardinality(1 .. g[x]) = g[x]
  BY SMTT(60), FS_Interval
<1>3. IsFiniteSet({x}) /\ Cardinality({x}) = 1
  BY Zenon, FS_Singleton
<1>4. /\ IsFiniteSet({x} \X (1 .. g[x]))
      /\ Cardinality({x} \X (1 .. g[x])) = 1 * g[x]
  BY SMTT(30), <1>2, <1>3, FS_Product
<1>5. 1 * g[x] = g[x]
  OBVIOUS
<1> QED
  BY <1>1, <1>4, <1>5, Zenon

(* Induction over the subsets of a finite set: a set of subsets that has   *)
(* every subset whose proper subsets it has, has them all.                 *)
LEMMA SubsetInduction ==
  ASSUME NEW S, IsFiniteSet(S), NEW Good,
         \A s \in SUBSET S :
           (\A r \in SUBSET s : r # s => r \in Good) => s \in Good
  PROVE  SUBSET S \subseteq Good
<1> DEFINE Bad == {s \in SUBSET S : s \notin Good}
<1>1. IsWellFoundedOn(StrictSubsetOrdering(S), SUBSET S)
  BY Zenon, FS_StrictSubsetOrderingWellFounded, FS_FiniteSubsetsOfFinite
<1> SUFFICES ASSUME Bad # {} PROVE FALSE
  OBVIOUS
<1>2. PICK s \in Bad : \A r \in Bad : ~ (<<r, s>> \in StrictSubsetOrdering(S))
  <2>1. Bad \subseteq SUBSET S
    OBVIOUS
  <2> HIDE DEF Bad
  <2> QED
    BY <1>1, <2>1, WFMin
<1>3. \A r \in SUBSET s : r # s => r \in Good
  BY Zenon, <1>2 DEF StrictSubsetOrdering
<1> QED
  BY <1>2, <1>3

(* One more column.                                                        *)
LEMMA AreaSplits ==
  ASSUME NEW g, NEW S, NEW x \in S, g[x] \in Nat,
         IsFiniteSet(Area(g, S \ {x}))
  PROVE  /\ IsFiniteSet(Area(g, S))
         /\ Cardinality(Area(g, S)) = g[x] + Cardinality(Area(g, S \ {x}))
<1>1. Area(g, S) = Area(g, S \ {x}) \cup Area(g, {x})
  BY DEF Area
<1>2. Area(g, S \ {x}) \cap Area(g, {x}) = {}
  BY DEF Area
<1> HIDE DEF Area
<1>3. Cardinality(Area(g, S \ {x})) \in Nat
  BY FS_CardinalityType
<1>4. IsFiniteSet(Area(g, {x})) /\ Cardinality(Area(g, {x})) = g[x]
  BY Column
<1> DEFINE A == Area(g, S \ {x})
           B == Area(g, {x})
<1>5. /\ IsFiniteSet(A \cup B)
      /\ Cardinality(A \cup B)
           = Cardinality(A) + Cardinality(B) - Cardinality(A \cap B)
  <2>1. IsFiniteSet(A) /\ IsFiniteSet(B)
    BY <1>4
  <2> HIDE DEF A, B
  <2> QED
    BY <2>1, FS_Union
<1>6. A \cup B = Area(g, S) /\ A \cap B = {}
  BY Zenon, <1>1, <1>2
<1>7. Cardinality(Area(g, S)) = Cardinality(A) + Cardinality(B) - 0
  BY <1>5, <1>6, FS_EmptySet, Zenon
<1>8. IsFiniteSet(Area(g, S))
  BY <1>5, <1>6, Zenon
<1> QED
  BY <1>3, <1>4, <1>7, <1>8

(* The region below a function on a finite set is finite.                  *)
LEMMA AreaFinite ==
  ASSUME NEW S, IsFiniteSet(S), NEW g, \A x \in S : g[x] \in Nat
  PROVE  IsFiniteSet(Area(g, S))
<1> DEFINE Good == {s \in SUBSET S : IsFiniteSet(Area(g, s))}
<1>1. ASSUME NEW s \in SUBSET S, \A r \in SUBSET s : r # s => r \in Good
      PROVE  s \in Good
  <2>1. CASE s = {}
    <3>1. Area(g, s) = {}
      BY <2>1 DEF Area
    <3> QED
      BY <3>1, FS_EmptySet
  <2>2. CASE s # {}
    <3>1. PICK x : x \in s
      BY <2>2
    <3>2. s \ {x} \in Good
      BY <1>1, <3>1
    <3> QED
      BY <3>1, <3>2, AreaSplits
  <2> QED
    BY <2>1, <2>2
<1> HIDE DEF Good
<1>2. SUBSET S \subseteq Good
  BY <1>1, SubsetInduction
<1> QED
  BY <1>2 DEF Good

(* What the recursion of SumFunctionOnSet asks of its partial sums.        *)
Unrolls(iter, g, S) ==
  iter = [s \in SUBSET S |->
            IF s = {} THEN 0
            ELSE g[CHOOSE x \in s : TRUE]
                   + iter[s \ {CHOOSE x \in s : TRUE}]]

(* There are such partial sums, the points counted.                        *)
LEMMA PartialSums ==
  ASSUME NEW S, IsFiniteSet(S), NEW g, \A x \in S : g[x] \in Nat
  PROVE  Unrolls([s \in SUBSET S |-> Cardinality(Area(g, s))], g, S)
<1> DEFINE it == [s \in SUBSET S |-> Cardinality(Area(g, s))]
<1>1. ASSUME NEW s \in SUBSET S
      PROVE  it[s] = IF s = {} THEN 0
                     ELSE g[CHOOSE x \in s : TRUE]
                            + it[s \ {CHOOSE x \in s : TRUE}]
  <2>1. CASE s = {}
    <3>1. Area(g, s) = {}
      BY <2>1 DEF Area
    <3> QED
      BY <3>1, <2>1, FS_EmptySet
  <2>2. CASE s # {}
    <3> DEFINE y == CHOOSE x \in s : TRUE
    <3>1. y \in s
      BY <2>2
    <3> HIDE DEF y
    <3>2. IsFiniteSet(s \ {y}) /\ s \ {y} \in SUBSET S
      BY FS_Subset
    <3>3. IsFiniteSet(Area(g, s \ {y}))
      BY <3>2, AreaFinite
    <3>4. Cardinality(Area(g, s)) = g[y] + Cardinality(Area(g, s \ {y}))
      BY <3>1, <3>3, AreaSplits
    <3> QED
      BY <2>2, <3>2, <3>4 DEF y
  <2> QED
    BY <2>1, <2>2
<1> QED
  BY Zenon, <1>1 DEF Unrolls

(* And no others.                                                          *)
LEMMA OnlyPartialSums ==
  ASSUME NEW S, IsFiniteSet(S), NEW g, \A x \in S : g[x] \in Nat,
         NEW iter, Unrolls(iter, g, S)
  PROVE  iter[S] = Cardinality(Area(g, S))
<1> DEFINE it   == [s \in SUBSET S |-> Cardinality(Area(g, s))]
           Good == {s \in SUBSET S : iter[s] = it[s]}
<1>1. Unrolls(it, g, S)
  BY PartialSums
<1>2. ASSUME NEW s \in SUBSET S, \A r \in SUBSET s : r # s => r \in Good
      PROVE  s \in Good
  <2> DEFINE y == CHOOSE x \in s : TRUE
  <2>1. iter[s] = IF s = {} THEN 0 ELSE g[y] + iter[s \ {y}]
    BY Zenon DEF Unrolls
  <2>2. it[s] = IF s = {} THEN 0 ELSE g[y] + it[s \ {y}]
    BY Zenon, <1>1 DEF Unrolls
  <2>3. s # {} => y \in s
    OBVIOUS
  <2> HIDE DEF y, it
  <2>4. s # {} => iter[s \ {y}] = it[s \ {y}]
    BY <1>2, <2>3
  <2> QED
    BY <2>1, <2>2, <2>4
<1> HIDE DEF Good
<1>3. SUBSET S \subseteq Good
  BY <1>2, SubsetInduction
<1>4. S \in Good
  BY <1>3
<1> QED
  BY <1>4 DEF Good

(* A sum of naturals counts the points below the graph.                    *)
THEOREM SumIsArea ==
  ASSUME NEW S, IsFiniteSet(S), NEW g, \A x \in S : g[x] \in Nat
  PROVE  SumFunctionOnSet(g, S) = Cardinality(Area(g, S))
<1> DEFINE iter == CHOOSE it : Unrolls(it, g, S)
<1>1. Unrolls(iter, g, S)
  BY Zenon, PartialSums
<1>2. SumFunctionOnSet(g, S) = iter[S]
  BY DEF SumFunctionOnSet, FoldFunctionOnSet, MapThenFoldSet, Unrolls
<1> HIDE DEF iter
<1> QED
  BY <1>1, <1>2, OnlyPartialSums

(* A sum of naturals is one; only the values on the set matter.            *)
LEMMA SumNat ==
  ASSUME NEW S, IsFiniteSet(S), NEW g, \A x \in S : g[x] \in Nat
  PROVE  SumFunctionOnSet(g, S) \in Nat
  BY SumIsArea, AreaFinite, FS_CardinalityType

(* Only the values over the set count.                                     *)
LEMMA SumSame ==
  ASSUME NEW S, IsFiniteSet(S), NEW g, NEW h,
         \A x \in S : g[x] \in Nat /\ h[x] = g[x]
  PROVE  SumFunctionOnSet(h, S) = SumFunctionOnSet(g, S)
<1>1. Area(h, S) = Area(g, S)
  BY DEF Area
<1> QED
  BY Zenon, <1>1, SumIsArea

(* Any one of the summands may be taken out first.                         *)
LEMMA SumRemove ==
  ASSUME NEW S, IsFiniteSet(S), NEW g, \A x \in S : g[x] \in Nat,
         NEW y \in S
  PROVE  SumFunctionOnSet(g, S) = g[y] + SumFunctionOnSet(g, S \ {y})
<1>1. IsFiniteSet(S \ {y})
  BY Zenon, FS_Subset
<1>2. IsFiniteSet(Area(g, S \ {y}))
  BY <1>1, AreaFinite
<1>3. Cardinality(Area(g, S)) = g[y] + Cardinality(Area(g, S \ {y}))
  <2>1. \A x \in S :
          g[x] \in Nat /\ IsFiniteSet(Area(g, S \ {x})) =>
            Cardinality(Area(g, S)) = g[x] + Cardinality(Area(g, S \ {x}))
    BY AreaSplits
  <2> QED
    BY Zenon, <1>2, <2>1
<1>4. SumFunctionOnSet(g, S \ {y}) = Cardinality(Area(g, S \ {y}))
  BY <1>1, SumIsArea
<1> QED
  BY <1>3, <1>4, SumIsArea

(* Zeros add up to zero.                                                   *)
LEMMA SumZero ==
  ASSUME NEW S, IsFiniteSet(S), NEW g, \A x \in S : g[x] = 0
  PROVE  SumFunctionOnSet(g, S) = 0
<1>1. Area(g, S) = {}
  BY DEF Area
<1> QED
  BY <1>1, SumIsArea, FS_EmptySet

(* A single one among zeros adds up to one.                                *)
LEMMA SumOne ==
  ASSUME NEW S, IsFiniteSet(S), NEW g, NEW y \in S, g[y] = 1,
         \A x \in S : x # y => g[x] = 0
  PROVE  SumFunctionOnSet(g, S) = 1
<1>1. IsFiniteSet(S \ {y})
  BY Zenon, FS_Subset
<1>2. SumFunctionOnSet(g, S \ {y}) = 0
  BY <1>1, SumZero
<1> QED
  BY <1>2, SumRemove

(* What one summand grows or shrinks by, the sum does.                     *)
LEMMA SumChange ==
  ASSUME NEW S, IsFiniteSet(S), NEW g, NEW h, NEW y \in S,
         \A x \in S : g[x] \in Nat /\ h[x] \in Nat,
         \A x \in S : x # y => h[x] = g[x]
  PROVE  SumFunctionOnSet(h, S) = SumFunctionOnSet(g, S) + h[y] - g[y]
<1>1. IsFiniteSet(S \ {y})
  BY Zenon, FS_Subset
<1>2. SumFunctionOnSet(h, S \ {y}) = SumFunctionOnSet(g, S \ {y})
  BY Zenon, <1>1, SumSame
<1>3. SumFunctionOnSet(g, S \ {y}) \in Nat
  BY Zenon, <1>1, SumNat
<1>4. SumFunctionOnSet(g, S) = g[y] + SumFunctionOnSet(g, S \ {y})
  BY Zenon, SumRemove
<1>5. SumFunctionOnSet(h, S) = h[y] + SumFunctionOnSet(h, S \ {y})
  BY Zenon, SumRemove
<1> QED
  BY <1>2, <1>3, <1>4, <1>5

(* A sum is at most the number of its nonzero summands times a bound on    *)
(* them.                                                                   *)
LEMMA SumBound ==
  ASSUME NEW S, IsFiniteSet(S), NEW g, NEW m \in Nat,
         NEW T \in SUBSET S,
         \A x \in S : g[x] \in Nat /\ g[x] <= m,
         \A x \in S \ T : g[x] = 0
  PROVE  SumFunctionOnSet(g, S) <= Cardinality(T) * m
<1>1. Area(g, S) \subseteq T \X (1 .. m)
  <2> SUFFICES ASSUME NEW p \in S \X Nat, 1 <= p[2], p[2] <= g[p[1]]
               PROVE  p \in T \X (1 .. m)
    BY Zenon DEF Area
  <2>1. PICK x \in S, k \in Nat : p = <<x, k>>
    OBVIOUS
  <2>2. x \in T /\ k <= m /\ 1 <= k
    BY <2>1
  <2> QED
    BY <2>1, <2>2
<1>2. IsFiniteSet(T)
  BY FS_Subset
<1>3. IsFiniteSet(1 .. m) /\ Cardinality(1 .. m) = m
  BY FS_Interval
<1>4. /\ IsFiniteSet(T \X (1 .. m))
      /\ Cardinality(T \X (1 .. m)) = Cardinality(T) * m
  BY Zenon, <1>2, <1>3, FS_Product
<1>5. Cardinality(Area(g, S)) <= Cardinality(T \X (1 .. m))
  BY <1>1, <1>4, FS_Subset
<1> QED
  BY <1>4, <1>5, SumIsArea

(* Induction over the naturals, again as a statement about a set.          *)
LEMMA NatSetInduction ==
  ASSUME NEW Good, 0 \in Good, \A n \in Nat : n \in Good => n + 1 \in Good
  PROVE  Nat \subseteq Good
<1> DEFINE Bad == {n \in Nat : n \notin Good}
<1> SUFFICES ASSUME Bad # {} PROVE FALSE
  OBVIOUS
<1>1. Bad \subseteq Nat
  OBVIOUS
<1>2. PICK n \in Bad : \A k \in Bad : ~ (<<k, n>> \in OpToRel(<, Nat))
  <2> HIDE DEF Bad
  <2> QED
    BY Zenon, <1>1, NatLessThanWellFounded, WFMin
<1>3. \A k \in Bad : ~ (k < n)
  BY Zenon, <1>2 DEF OpToRel
<1>4. n # 0 /\ n - 1 \in Nat
  OBVIOUS
<1>5. n - 1 \in Good
  BY <1>3, <1>4
<1> QED
  BY <1>4, <1>5

(* A finite set of naturals that is not empty has a largest element, which *)
(* is its Max.                                                             *)
LEMMA MaxOfFinite ==
  ASSUME NEW S, IsFiniteSet(S), S \subseteq Nat, S # {}
  PROVE  Max(S) \in S /\ \A x \in S : x <= Max(S)
<1> DEFINE Good == {s \in SUBSET S : s # {} => \E y \in s : \A x \in s : x <= y}
<1>1. ASSUME NEW s \in SUBSET S, \A r \in SUBSET s : r # s => r \in Good
      PROVE  s \in Good
  <2> SUFFICES ASSUME s # {} PROVE \E y \in s : \A x \in s : x <= y
    OBVIOUS
  <2>1. PICK z : z \in s
    OBVIOUS
  <2>2. CASE s \ {z} = {}
    BY <2>1, <2>2
  <2>3. CASE s \ {z} # {}
    <3>1. s \ {z} \in Good
      BY Zenon, <1>1, <2>1
    <3>2. PICK y \in s \ {z} : \A x \in s \ {z} : x <= y
      BY Zenon, <2>3, <3>1
    <3>3. y \in Nat /\ z \in Nat
      BY Zenon, <2>1
    <3>4. CASE y <= z
      BY <2>1, <3>2, <3>3, <3>4
    <3>5. CASE z <= y
      BY Zenon, <3>2, <3>3, <3>5
    <3> QED
      BY <3>3, <3>4, <3>5
  <2> QED
    BY <2>2, <2>3
<1> HIDE DEF Good
<1>2. SUBSET S \subseteq Good
  BY Zenon, <1>1, SubsetInduction
<1>3. S \in Good
  BY <1>2
<1>4. \E y \in S : \A x \in S : x <= y
  BY <1>3 DEF Good
<1>5. \E y \in S : \A x \in S : y >= x
  BY <1>4
<1> QED
  BY Zenon, <1>5 DEF Max

(* The smaller of two naturals.                                            *)
LEMMA MinOfTwo ==
  ASSUME NEW x \in Nat, NEW y \in Nat
  PROVE  Min({x, y}) \in {x, y} /\ Min({x, y}) <= x /\ Min({x, y}) <= y
<1>1. \E z \in {x, y} : \A w \in {x, y} : z <= w
  <2>1. CASE x <= y
    BY <2>1
  <2>2. CASE y <= x
    BY <2>2
  <2> QED
    BY <2>1, <2>2
<1>2. Min({x, y}) \in {x, y} /\ \A w \in {x, y} : Min({x, y}) <= w
  BY Zenon, <1>1 DEF Min
<1> QED
  BY Zenon, <1>2

-----------------------------------------------------------------------------
(* What the definition of Pow2 asks of it.                                 *)
Doubles(f) == f = [n \in Nat |-> IF n = 0 THEN 1 ELSE 2 * f[n - 1]]

(* The same on the numbers up to k.                                        *)
DoublesTo(f, k) ==
  /\ f \in [0 .. k -> Nat]
  /\ f[0] = 1
  /\ \A n \in 1 .. k : f[n] = 2 * f[n - 1]

(* As far as one likes there is such a function.                           *)
LEMMA DoublesSoFar == \A k \in Nat : \E f : DoublesTo(f, k)
<1> DEFINE Good == {k \in Nat : \E f : DoublesTo(f, k)}
<1>1. 0 \in Good
  <2>1. DoublesTo([n \in 0 .. 0 |-> 1], 0)
    BY DEF DoublesTo
  <2> QED
    BY <2>1
<1>2. ASSUME NEW k \in Nat, k \in Good PROVE k + 1 \in Good
  <2>1. PICK f : DoublesTo(f, k)
    BY <1>2
  <2> DEFINE g == [n \in 0 .. k + 1 |-> IF n = k + 1 THEN 2 * f[k] ELSE f[n]]
  <2>2. DoublesTo(g, k + 1)
    BY <2>1 DEF DoublesTo
  <2> QED
    BY <2>2
<1> HIDE DEF Good
<1>3. Nat \subseteq Good
  BY <1>1, <1>2, NatSetInduction
<1> QED
  BY <1>3 DEF Good

(* Two of them agree where both are defined.                               *)
LEMMA DoublesAgree ==
  ASSUME NEW f, NEW g, NEW j \in Nat, NEW k \in Nat, DoublesTo(f, j), DoublesTo(g, k)
  PROVE  \A n \in Nat : n <= j /\ n <= k => f[n] = g[n]
<1> DEFINE Good == {n \in Nat : n <= j /\ n <= k => f[n] = g[n]}
<1>1. 0 \in Good
  BY DEF DoublesTo
<1>2. ASSUME NEW n \in Nat, n \in Good PROVE n + 1 \in Good
  <2> SUFFICES ASSUME n + 1 <= j, n + 1 <= k PROVE f[n + 1] = g[n + 1]
    OBVIOUS
  <2>1. f[n] = g[n] /\ (n + 1) - 1 = n /\ n + 1 \in 1 .. j /\ n + 1 \in 1 .. k
    BY <1>2
  <2>2. f[n + 1] = 2 * f[(n + 1) - 1] /\ g[n + 1] = 2 * g[(n + 1) - 1]
    BY Zenon, <2>1 DEF DoublesTo
  <2> QED
    BY Zenon, <2>1, <2>2
<1> HIDE DEF Good
<1>3. Nat \subseteq Good
  BY <1>1, <1>2, NatSetInduction
<1> QED
  BY <1>3 DEF Good

(* Pow2 doubles with every shift.                                          *)
LEMMA Pow2Doubles ==
  /\ Pow2 \in [Nat -> Nat]
  /\ Pow2[0] = 1
  /\ \A n \in Nat : Pow2[n + 1] = 2 * Pow2[n]
<1> DEFINE F(k) == CHOOSE f : DoublesTo(f, k)
           g == [n \in Nat |-> F(n)[n]]
<1>1. \A k \in Nat : DoublesTo(F(k), k)
  BY Zenon, DoublesSoFar
<1> HIDE DEF F
<1>2. g \in [Nat -> Nat] /\ g[0] = 1
  BY <1>1 DEF DoublesTo
<1>3. ASSUME NEW n \in Nat, n # 0 PROVE g[n] = 2 * g[n - 1]
  <2>1. n - 1 \in Nat /\ n \in 1 .. n /\ n - 1 <= n - 1 /\ n - 1 <= n
    BY <1>3
  <2>2. F(n)[n] = 2 * F(n)[n - 1]
    BY Zenon, <1>1, <2>1 DEF DoublesTo
  <2>3. F(n)[n - 1] = F(n - 1)[n - 1]
    BY ZenonT(60), <1>1, <2>1, DoublesAgree
  <2> QED
    BY Zenon, <2>1, <2>2, <2>3
<1>4. Doubles(g)
  <2>1. \A n \in Nat : g[n] = IF n = 0 THEN 1 ELSE 2 * g[n - 1]
    BY <1>2, <1>3
  <2>2. g = [n \in Nat |-> g[n]]
    OBVIOUS
  <2> QED
    BY Zenon, <2>1, <2>2 DEF Doubles
<1>5. Doubles(Pow2)
  BY Zenon, <1>4 DEF Doubles, Pow2
<1> HIDE DEF g
<1>6. Pow2 = [n \in Nat |-> IF n = 0 THEN 1 ELSE 2 * Pow2[n - 1]]
  BY Zenon, <1>5 DEF Doubles
<1>7. Pow2[0] = 1 /\ \A n \in Nat : Pow2[n + 1] = 2 * Pow2[n]
  <2>1. \A n \in Nat : Pow2[n] = IF n = 0 THEN 1 ELSE 2 * Pow2[n - 1]
    BY Zenon, <1>6
  <2>2. \A n \in Nat : n + 1 \in Nat /\ n + 1 # 0 /\ (n + 1) - 1 = n
    OBVIOUS
  <2> QED
    BY Zenon, <2>1, <2>2
<1>8. \A n \in Nat : Pow2[n] \in Nat
  <2> DEFINE Good == {n \in Nat : Pow2[n] \in Nat}
  <2>1. 0 \in Good /\ \A n \in Nat : n \in Good => n + 1 \in Good
    BY <1>7
  <2> HIDE DEF Good
  <2>2. Nat \subseteq Good
    BY Zenon, <2>1, NatSetInduction
  <2> QED
    BY Zenon, <2>2 DEF Good
<1>9. Pow2 \in [Nat -> Nat]
  BY Zenon, <1>6, <1>8
<1> QED
  BY Zenon, <1>7, <1>9

(* It grows, and faster than its argument.                                 *)
LEMMA Pow2Grows ==
  /\ \A n \in Nat : Pow2[n] > n /\ Pow2[n] >= 1
  /\ \A m, n \in Nat : m <= n => Pow2[m] <= Pow2[n]
<1>1. \A n \in Nat : Pow2[n] \in Nat /\ Pow2[n + 1] = 2 * Pow2[n]
  BY Zenon, Pow2Doubles
<1>2. \A n \in Nat : Pow2[n] > n
  <2> DEFINE Good == {n \in Nat : Pow2[n] > n}
  <2>1. 0 \in Good /\ \A n \in Nat : n \in Good => n + 1 \in Good
    BY <1>1, Pow2Doubles
  <2> HIDE DEF Good
  <2>2. Nat \subseteq Good
    BY Zenon, <2>1, NatSetInduction
  <2> QED
    BY Zenon, <2>2 DEF Good
<1>3. ASSUME NEW m \in Nat PROVE \A n \in Nat : m <= n => Pow2[m] <= Pow2[n]
  <2> DEFINE Good == {n \in Nat : m <= n => Pow2[m] <= Pow2[n]}
  <2>1. 0 \in Good
    BY <1>1
  <2>2. ASSUME NEW n \in Nat, n \in Good PROVE n + 1 \in Good
    <3>1. CASE m = n + 1
      BY <1>1, <3>1
    <3>2. CASE m # n + 1
      BY <1>1, <2>2, <3>2
    <3> QED
      BY Zenon, <3>1, <3>2
  <2> HIDE DEF Good
  <2>3. Nat \subseteq Good
    BY Zenon, <2>1, <2>2, NatSetInduction
  <2> QED
    BY Zenon, <2>3 DEF Good
<1> QED
  BY <1>1, <1>2, <1>3

(* Rounding up ends at the smallest power that is large enough.            *)
LEMMA Pow2Ceil ==
  ASSUME NEW x \in Nat
  PROVE  /\ \E e \in 0 .. x : pow2_ceil(x) = Pow2[e]
         /\ pow2_ceil(x) >= x
         /\ \A e \in 0 .. x : Pow2[e] >= x => pow2_ceil(x) <= Pow2[e]
<1> DEFINE S == {v \in {Pow2[e] : e \in 0 .. x} : v >= x}
<1>1. S \subseteq Nat
  BY Pow2Doubles
<1>2. Pow2[x] \in S
  <2>1. Pow2[x] \in Nat /\ Pow2[x] > x
    BY Zenon, Pow2Doubles, Pow2Grows
  <2>2. Pow2[x] >= x /\ x \in 0 .. x
    BY <2>1
  <2> QED
    BY Zenon, <2>2
<1>3. \E y \in S : \A z \in S : y <= z
  <2>1. PICK y \in S : \A z \in S : ~ (<<z, y>> \in OpToRel(<, Nat))
    <3> HIDE DEF S
    <3> QED
      BY Zenon, <1>1, <1>2, NatLessThanWellFounded, WFMin
  <2>2. \A z \in S : ~ (z < y)
    BY Zenon, <1>1, <2>1 DEF OpToRel
  <2> QED
    BY <1>1, <2>2
<1>4. pow2_ceil(x) \in S /\ \A z \in S : pow2_ceil(x) <= z
  BY Zenon, <1>3 DEF pow2_ceil, Min
<1> QED
  BY Zenon, <1>4

=============================================================================
