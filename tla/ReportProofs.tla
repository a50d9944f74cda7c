---------------------------- MODULE ReportProofs ----------------------------
(***************************************************************************)
(* The numbers that main reports, for any command line and any samples:    *)
(* the queue it sets up, the repeat it reports, and the histogram of the   *)
(* latencies.                                                              *)
(***************************************************************************)
EXTENDS Driver, Histogram, SumTheorems

(* Driver: the fastest repeat, and the capacity of the queue.              *)

Runs == [wall : Walls, late : Latenesses]

(* best is infinite before the first run and the fastest run so far after  *)
(* it; the histograms hold the samples of every run.                       *)
ReportInv ==
  /\ results \in Seq(Runs) /\ args.queries \in Nat
  /\ samples = Len(results) * args.queries
  /\ Len(results) = 0 => best.wall = Infinite
  /\ Len(results) > 0 =>
       /\ \E j \in 1 .. Len(results) : best = results[j]
       /\ \A j \in 1 .. Len(results) : best.wall <= results[j].wall
  /\ warned => at = "done" /\ best.late > 2

(* A run that is faster than the best so far replaces it.                  *)
LEMMA RepeatKeepsBest ==
  ASSUME ReportInv, Repeat
  PROVE  ReportInv'
<1>0. PICK wall \in Walls, late \in Latenesses :
      /\ results' = Append(results, [wall |-> wall, late |-> late])
      /\ best' = Better([wall |-> wall, late |-> late])
  BY DEF Repeat
<1> DEFINE cur == [wall |-> wall, late |-> late]
<1>1. cur \in Runs /\ cur.wall = wall /\ wall \in Nat
  BY DriverAssumption DEF Runs
<1> HIDE DEF cur
<1> DEFINE k == Len(results)
<1>2. /\ results' \in Seq(Runs) /\ Len(results') = k + 1 /\ results'[k + 1] = cur
      /\ \A j \in 1 .. k : results'[j] = results[j]
  <2>1. results \in Seq(Runs) /\ results' = Append(results, cur)
    BY <1>0 DEF ReportInv, cur
  <2> QED
    BY <1>1, <2>1
<1>3. best' = IF wall < best.wall THEN cur ELSE best
  BY <1>0, <1>1 DEF Better, cur
<1>4. k \in Nat /\ args.queries \in Nat /\ args' = args
  <2>1. results \in Seq(Runs) /\ args.queries \in Nat
    BY DEF ReportInv
  <2>2. args' = args
    BY DEF Repeat
  <2> QED
    BY <2>1, <2>2
<1>5. samples' = Len(results') * args'.queries
  <2>1. samples' = k * args.queries + args.queries
    BY DEF ReportInv, Repeat
  <2>2. k * args.queries + args.queries = (k + 1) * args.queries
    <3>1. \A x, y \in Nat : x * y + y = (x + 1) * y
      OBVIOUS
    <3> HIDE DEF k
    <3> QED
      BY Zenon, <1>4, <3>1
  <2> QED
    BY <1>2, <1>4, <2>1, <2>2
<1>6. ~warned'
  BY DEF ReportInv, Repeat
<1>7. CASE k = 0
  <2>1. wall < best.wall
    BY <1>7, DriverAssumption DEF ReportInv
  <2>2. best' = cur
    BY <1>3, <2>1
  <2>3. k + 1 \in 1 .. Len(results') /\ Len(results') > 0 /\ best' = results'[k + 1]
    BY <1>2, <1>4, <2>2
  <2>4. \A j \in 1 .. Len(results') : j = k + 1
    BY <1>2, <1>4, <1>7
  <2>5. best'.wall <= results'[k + 1].wall
    BY <1>1, <2>2, <2>3
  <2> QED
    BY <1>2, <1>4, <1>5, <1>6, <2>3, <2>4, <2>5 DEF ReportInv
<1>8. CASE k # 0
  <2>1. PICK m \in 1 .. k : best = results[m]
    BY <1>4, <1>8 DEF ReportInv
  <2>2. results[m] \in Runs
    BY <2>1 DEF ReportInv
  <2>3. best.wall \in Nat
    BY <2>1, <2>2, DriverAssumption DEF Runs
  <2>4. \A j \in 1 .. k : results[j].wall \in Nat /\ best.wall <= results[j].wall
    <3>1. \A j \in 1 .. k : results[j] \in Runs
      BY DEF ReportInv
    <3>2. \A j \in 1 .. k : best.wall <= results[j].wall
      BY <1>4, <1>8 DEF ReportInv
    <3>3. \A r \in Runs : r.wall \in Nat
      BY DriverAssumption DEF Runs
    <3> QED
      BY <3>1, <3>2, <3>3
  <2>5. \A j \in 1 .. Len(results') : j = k + 1 \/ j \in 1 .. k
    BY <1>2, <1>4
  <2>6. best'.wall <= best.wall /\ best'.wall <= wall /\ best'.wall \in Nat
    BY <1>1, <1>3, <2>3
  <2>7. \A j \in 1 .. Len(results') : best'.wall <= results'[j].wall
    <3>1. best'.wall <= results'[k + 1].wall
      BY <1>1, <1>2, <2>6
    <3>2. \A j \in 1 .. k : best'.wall <= results'[j].wall
      BY <1>2, <2>3, <2>4, <2>6
    <3> QED
      BY <2>5, <3>1, <3>2
  <2>8. \E j \in 1 .. Len(results') : best' = results'[j]
    <3>1. m \in 1 .. Len(results') /\ results'[m] = best
      BY <1>2, <1>4, <2>1
    <3>2. k + 1 \in 1 .. Len(results') /\ results'[k + 1] = cur
      BY <1>2, <1>4
    <3> QED
      BY <1>3, <3>1, <3>2
  <2>9. Len(results') # 0
    BY <1>2, <1>4
  <2> QED
    BY Zenon, <1>2, <1>4, <1>5, <1>6, <2>7, <2>8, <2>9 DEF ReportInv
<1> QED
  BY <1>7, <1>8

(* main reports one of its runs, the fastest, with the samples of all of   *)
(* them and a warning about that run only, for any command line, any       *)
(* number of repeats and any times.                                        *)
THEOREM MainReportsFastest == MainSpec => []ReportsFastest
<1>1. ASSUME MainInit PROVE ReportInv
  <2>1. results = <<>> /\ samples = 0 /\ best.wall = Infinite /\ ~warned
    BY <1>1 DEF MainInit, MainStart
  <2>2. args.queries \in Nat
    BY <1>1, DriverAssumption DEF MainInit, MainStart
  <2> QED
    BY <2>1, <2>2 DEF ReportInv
<1>2. ASSUME ReportInv, [MainNext]_mainvars PROVE ReportInv'
  <2>1. CASE Refuse \/ SetUp
    BY <1>2, <2>1 DEF ReportInv, Refuse, SetUp
  <2>2. CASE Repeat
    BY <1>2, <2>2, RepeatKeepsBest
  <2>3. CASE Report
    BY Zenon, <1>2, <2>3 DEF ReportInv, Report
  <2>4. CASE UNCHANGED mainvars
    BY Zenon, <1>2, <2>4 DEF ReportInv, mainvars
  <2> QED
    BY <1>2, <2>1, <2>2, <2>3, <2>4 DEF MainNext
<1>3. ASSUME ReportInv PROVE ReportsFastest
  <2> SUFFICES ASSUME at = "done", results # <<>>
               PROVE  /\ best \in Range(results)
                      /\ \A r \in Range(results) : best.wall <= r.wall
                      /\ samples = Len(results) * args.queries
                      /\ warned => \E r \in Range(results) : r.wall = best.wall /\ r.late > 2
    BY DEF ReportsFastest
  <2>1. results \in Seq(Runs) /\ Len(results) > 0
    BY <1>3 DEF ReportInv
  <2>2. Range(results) = {results[j] : j \in 1 .. Len(results)}
    BY <2>1 DEF Range
  <2>3. best \in Range(results) /\ \A r \in Range(results) : best.wall <= r.wall
    BY <1>3, <2>1, <2>2 DEF ReportInv
  <2>4. samples = Len(results) * args.queries /\ (warned => best.late > 2)
    BY <1>3 DEF ReportInv
  <2> QED
    BY <2>3, <2>4
<1> QED
  BY <1>1, <1>2, <1>3, PTL DEF MainSpec

(* What main resolves the capacity to in Poisson mode.                     *)
LEMMA ResolvedFits ==
  ASSUME args \in ArgSets, args.arrival = "poisson"
  PROVE  /\ \E e \in 0 .. Resolved : Resolved = Pow2[e]
         /\ args.capacity = 0 => Resolved >= Min({args.queries, CAP})
         /\ Resolved = 1 => args.queries <= 1 \/ args.capacity = 1 \/ CAP = 1
<1>1. args.capacity \in Nat /\ args.queries \in Nat
  BY DriverAssumption
<1>2. PICK c \in 0 .. CAP : CAP = Pow2[c]
  BY Zenon, DriverAssumption
<1>3. CAP \in Nat
  <2>1. c \in Nat
    OBVIOUS
  <2> QED
    BY Zenon, <1>2, <2>1, Pow2Doubles
<1>4. ASSUME NEW x, \E e \in Nat : x = Pow2[e]
      PROVE  x \in Nat /\ \E e \in 0 .. x : x = Pow2[e]
  <2>1. PICK e \in Nat : x = Pow2[e]
    BY Zenon, <1>4
  <2>2. x \in Nat /\ x > e
    BY Zenon, <2>1, Pow2Doubles, Pow2Grows
  <2>3. e \in 0 .. x
    BY <2>2
  <2> QED
    BY Zenon, <2>1, <2>2, <2>3
<1>5. ASSUME NEW x \in Nat
      PROVE  pow2_ceil(x) >= x /\ \E e \in Nat : pow2_ceil(x) = Pow2[e]
  <2>1. pow2_ceil(x) >= x /\ \E e \in 0 .. x : pow2_ceil(x) = Pow2[e]
    BY Zenon, Pow2Ceil
  <2>2. \A e \in 0 .. x : e \in Nat
    OBVIOUS
  <2> QED
    BY Zenon, <2>1, <2>2
<1>6. CASE args.capacity # 0
  <2>1. Resolved = pow2_ceil(args.capacity)
    BY Zenon, <1>6 DEF Resolved
  <2>2. Resolved >= args.capacity /\ \E e \in Nat : Resolved = Pow2[e]
    BY Zenon, <1>1, <1>5, <2>1
  <2>3. Resolved \in Nat /\ \E e \in 0 .. Resolved : Resolved = Pow2[e]
    BY Zenon, <1>4, <2>2
  <2>4. Resolved = 1 => args.capacity = 1
    BY <1>1, <1>6, <2>2
  <2> QED
    BY Zenon, <1>6, <2>3, <2>4
<1>7. CASE args.capacity = 0
  <2> DEFINE q == pow2_ceil(args.queries)
  <2>1. Resolved = Min({q, CAP})
    BY Zenon, <1>7 DEF Resolved
  <2>2. q >= args.queries /\ \E e \in Nat : q = Pow2[e]
    BY Zenon, <1>1, <1>5
  <2>3. q \in Nat
    BY Zenon, <1>4, <2>2
  <2> HIDE DEF q
  <2>4. Resolved \in {q, CAP}
    BY Zenon, <1>3, <2>1, <2>3, MinOfTwo
  <2>5. Min({args.queries, CAP}) \in Nat /\ Min({args.queries, CAP}) <= args.queries
        /\ Min({args.queries, CAP}) <= CAP
    BY Zenon, <1>1, <1>3, MinOfTwo
  <2>6. \E e \in Nat : Resolved = Pow2[e]
    <3>1. c \in Nat
      OBVIOUS
    <3> QED
      BY Zenon, <1>2, <2>2, <2>4, <3>1
  <2>7. Resolved \in Nat /\ \E e \in 0 .. Resolved : Resolved = Pow2[e]
    BY Zenon, <1>4, <2>6
  <2>8. Resolved >= Min({args.queries, CAP})
    <3> HIDE DEF q
    <3> QED
      BY <1>1, <1>3, <2>2, <2>3, <2>4, <2>5
  <2>9. Resolved = 1 => args.queries <= 1 \/ CAP = 1
    BY <1>1, <2>2, <2>3, <2>4
  <2> QED
    BY Zenon, <2>7, <2>8, <2>9
<1> QED
  BY Zenon, <1>6, <1>7

(* main gives a Poisson run a queue of a power of two cells, an automatic  *)
(* one with room for all queries up to the cap, for any command line.      *)
THEOREM MainQueueFits == MainSpec => []QueueFits
<1> DEFINE Inv == args \in ArgSets /\ QueueFits
<1>1. ASSUME MainInit PROVE Inv
  BY <1>1 DEF MainInit, MainStart, QueueFits
<1>2. ASSUME Inv, [MainNext]_mainvars PROVE Inv'
  <2>1. CASE Refuse \/ Report
    BY <1>2, <2>1 DEF Refuse, Report, QueueFits
  <2>2. CASE SetUp
    <3>1. args' = args /\ capacity' = Resolved
      BY Zenon, <2>2 DEF SetUp
    <3>2. args.arrival = "poisson" =>
            /\ \E e \in 0 .. capacity' : capacity' = Pow2[e]
            /\ args.capacity = 0 => capacity' >= Min({args.queries, CAP})
            /\ capacity' = 1 => args.queries <= 1 \/ args.capacity = 1 \/ CAP = 1
      BY Zenon, <1>2, <3>1, ResolvedFits
    <3> QED
      BY Zenon, <1>2, <3>1, <3>2 DEF QueueFits
  <2>3. CASE Repeat
    BY Zenon, <1>2, <2>3 DEF Repeat, QueueFits
  <2>4. CASE UNCHANGED mainvars
    BY Zenon, <1>2, <2>4 DEF mainvars, QueueFits
  <2> QED
    BY <1>2, <2>1, <2>2, <2>3, <2>4 DEF MainNext
<1> QED
  BY <1>1, <1>2, PTL DEF MainSpec

-----------------------------------------------------------------------------
(* Histogram: where a latency is filed, what adding and merging do to the  *)
(* histogram of some latencies, and where percentile stops.                *)

(* Division with remainder.                                                *)
LEMMA Quotient ==
  ASSUME NEW x \in Nat, NEW d \in Nat \ {0}
  PROVE  /\ x \div d \in Nat /\ x % d \in Nat
         /\ x = d * (x \div d) + (x % d) /\ x % d < d
  OBVIOUS

(* The quotient is the number of whole divisors.                           *)
LEMMA QuotientIs ==
  ASSUME NEW x \in Nat, NEW d \in Nat \ {0}, NEW q \in Nat, NEW m \in Nat,
         x = d * q + m, m < d
  PROVE  x \div d = q /\ x % d = m
  OBVIOUS

(* A larger number has no smaller quotient.                                *)
LEMMA QuotientGrows ==
  ASSUME NEW x \in Nat, NEW y \in Nat, x <= y, NEW d \in Nat \ {0}
  PROVE  x \div d <= y \div d
  OBVIOUS

(* The larger of two powers is a multiple of the smaller.                  *)
LEMMA Pow2Divides ==
  ASSUME NEW s \in Nat
  PROVE  \A o \in Nat : o >= s => \E q \in Nat \ {0} : Pow2[o] = Pow2[s] * q
<1> DEFINE Good == {o \in Nat : o >= s => \E q \in Nat \ {0} : Pow2[o] = Pow2[s] * q}
<1>0. \A j \in Nat : Pow2[j] \in Nat /\ Pow2[j + 1] = 2 * Pow2[j]
  BY Zenon, Pow2Doubles
<1>1. 0 \in Good
  <2> SUFFICES ASSUME s = 0 PROVE Pow2[0] = Pow2[s] * 1
    OBVIOUS
  <2> QED
    BY <1>0
<1>2. ASSUME NEW o \in Nat, o \in Good PROVE o + 1 \in Good
  <2>1. CASE o + 1 < s
    BY <2>1
  <2>2. CASE o + 1 = s
    <3>1. Pow2[o + 1] = Pow2[s] * 1
      BY <1>0, <2>2
    <3> QED
      BY <3>1
  <2>3. CASE o + 1 > s
    <3>1. PICK q \in Nat \ {0} : Pow2[o] = Pow2[s] * q
      BY <1>2, <2>3
    <3>2. Pow2[o + 1] = Pow2[s] * (2 * q) /\ 2 * q \in Nat \ {0}
      BY <1>0, <3>1
    <3> QED
      BY <3>2
  <2> QED
    BY <2>1, <2>2, <2>3
<1> HIDE DEF Good
<1>3. Nat \subseteq Good
  BY Zenon, <1>1, <1>2, NatSetInduction
<1> QED
  BY Zenon, <1>3 DEF Good

(* Every positive number lies in one octave.                               *)
LEMMA OctaveOf ==
  ASSUME NEW x \in Nat \ {0}
  PROVE  Octave(x) \in Nat /\ Pow2[Octave(x)] <= x /\ x < Pow2[Octave(x) + 1]
<1>0. \A j \in Nat : Pow2[j] \in Nat /\ Pow2[j + 1] = 2 * Pow2[j] /\ Pow2[j] > j
  BY Zenon, Pow2Doubles, Pow2Grows
<1> DEFINE S == {e \in Nat : x < Pow2[e]}
<1>1. PICK e \in S : \A z \in S : e <= z
  <2>1. S \subseteq Nat /\ x \in S
    BY <1>0
  <2>2. PICK y \in S : \A z \in S : ~ (<<z, y>> \in OpToRel(<, Nat))
    <3> HIDE DEF S
    <3> QED
      BY Zenon, <2>1, NatLessThanWellFounded, WFMin
  <2>3. \A z \in S : ~ (z < y)
    BY Zenon, <2>1, <2>2 DEF OpToRel
  <2> QED
    BY <2>1, <2>3
<1>2. e # 0
  BY <1>1, Pow2Doubles
<1>3. e - 1 \in Nat /\ ~ (x < Pow2[e - 1]) /\ x < Pow2[e] /\ (e - 1) + 1 = e
  BY <1>1, <1>2
<1>4. Pow2[e - 1] <= x /\ e - 1 < x
  BY <1>0, <1>3
<1>5. e - 1 \in 0 .. x /\ Pow2[e - 1] <= x /\ x < Pow2[(e - 1) + 1]
  BY <1>3, <1>4
<1>6. Octave(x) \in 0 .. x /\ Pow2[Octave(x)] <= x /\ x < Pow2[Octave(x) + 1]
  BY Zenon, <1>5 DEF Octave
<1> QED
  BY <1>6

(* Larger numbers lie in the same or in later octaves.                     *)
LEMMA OctavesGrow ==
  ASSUME NEW x \in Nat \ {0}, NEW y \in Nat, x <= y
  PROVE  Octave(x) <= Octave(y)
<1>1. /\ Octave(x) \in Nat /\ Pow2[Octave(x)] <= x /\ x < Pow2[Octave(x) + 1]
      /\ Octave(y) \in Nat /\ Pow2[Octave(y)] <= y /\ y < Pow2[Octave(y) + 1]
  BY OctaveOf
<1> SUFFICES ASSUME Octave(y) + 1 <= Octave(x) PROVE FALSE
  BY <1>1
<1>2. Pow2[Octave(y) + 1] <= Pow2[Octave(x)]
  BY <1>1, Pow2Grows
<1>3. Pow2[Octave(y) + 1] \in Nat /\ Pow2[Octave(x)] \in Nat
  BY SMTT(30), <1>1, Pow2Doubles
<1> QED
  BY <1>1, <1>2, <1>3

-----------------------------------------------------------------------------
(* The octave and sub-bucket of a number, after clamping.                  *)
Oct(x) == ClampedOctave(x)
Step(x) == Pow2[Oct(x)] \div SUBBUCKETS
Sub(x) == Min({SubOf(x, Oct(x)), SUBBUCKETS - 1})

(* There are at least two sub-buckets, and more octaves than they span.    *)
LEMMA SubbucketsPower ==
  /\ NUM_OCTAVES \in Nat /\ SUBBUCKETS \in Nat /\ SUBBUCKETS >= 2
  /\ \E s \in Nat : 1 <= s /\ s <= NUM_OCTAVES - 1 /\ SUBBUCKETS = Pow2[s]
<1>1. NUM_OCTAVES \in Nat
  BY Zenon, HistAssumption
<1>2. PICK s \in 1 .. NUM_OCTAVES - 1 : SUBBUCKETS = Pow2[s]
  BY Zenon, HistAssumption
<1>3. s \in Nat /\ 1 <= s /\ s <= NUM_OCTAVES - 1
  BY <1>1
<1>4. Pow2[s] \in Nat /\ Pow2[s] > s
  BY Zenon, <1>3, Pow2Doubles, Pow2Grows
<1>5. SUBBUCKETS \in Nat /\ SUBBUCKETS >= 2
  BY <1>2, <1>3, <1>4
<1> QED
  BY Zenon, <1>1, <1>2, <1>3, <1>5

(* How a number beyond the exact ones is filed.                            *)
LEMMA BucketShape ==
  ASSUME NEW x \in Nat, x >= SUBBUCKETS
  PROVE  /\ Oct(x) \in Nat /\ 1 <= Oct(x) /\ Oct(x) <= NUM_OCTAVES - 1
         /\ Step(x) \in Nat \ {0} /\ Pow2[Oct(x)] = SUBBUCKETS * Step(x)
         /\ Pow2[Oct(x)] <= x /\ Pow2[Oct(x)] \in Nat
         /\ SubOf(x, Oct(x)) = (x - Pow2[Oct(x)]) \div Step(x)
         /\ SubOf(x, Oct(x)) \in Nat
         /\ Sub(x) \in Nat /\ Sub(x) <= SUBBUCKETS - 1 /\ Sub(x) <= SubOf(x, Oct(x))
         /\ bucket(x) = Oct(x) * SUBBUCKETS + Sub(x)
         /\ x < Pow2[NUM_OCTAVES] => Pow2[Oct(x) + 1] > x
<1>1. PICK s \in Nat : 1 <= s /\ s <= NUM_OCTAVES - 1 /\ SUBBUCKETS = Pow2[s]
  BY Zenon, SubbucketsPower
<1>2. NUM_OCTAVES \in Nat /\ SUBBUCKETS \in Nat /\ SUBBUCKETS >= 2
  BY Zenon, SubbucketsPower
<1>3. x \in Nat \ {0}
  BY <1>2
<1> DEFINE e == Octave(x)
           o == Oct(x)
           q == Step(x)
<1>4. e \in Nat /\ Pow2[e] <= x /\ x < Pow2[e + 1]
  BY Zenon, <1>3, OctaveOf
<1>5. \A j \in Nat : Pow2[j] \in Nat /\ Pow2[j + 1] = 2 * Pow2[j]
  BY Zenon, Pow2Doubles
<1> HIDE DEF e
<1>6. s <= e
  <2> SUFFICES ASSUME e + 1 <= s PROVE FALSE
    BY <1>4
  <2>1. Pow2[e + 1] <= Pow2[s] /\ Pow2[e + 1] \in Nat /\ Pow2[s] \in Nat
    BY <1>4, <1>5, Pow2Grows
  <2> QED
    BY <1>1, <1>2, <1>4, <2>1
<1>7. o \in {e, NUM_OCTAVES - 1} /\ o <= e /\ o <= NUM_OCTAVES - 1 /\ o \in Nat /\ s <= o
  <2>1. NUM_OCTAVES - 1 \in Nat
    BY <1>1, <1>2
  <2>2. o = Min({e, NUM_OCTAVES - 1})
    BY Zenon DEF e, Oct, ClampedOctave
  <2>3. o \in {e, NUM_OCTAVES - 1} /\ o <= e /\ o <= NUM_OCTAVES - 1
    BY Zenon, <1>4, <2>1, <2>2, MinOfTwo
  <2> QED
    BY <1>1, <1>4, <1>6, <2>1, <2>3
<1> HIDE DEF o
<1>8. Pow2[o] \in Nat /\ Pow2[o] <= x
  <2>1. Pow2[o] <= Pow2[e] /\ Pow2[o] \in Nat /\ Pow2[e] \in Nat
    BY <1>4, <1>5, <1>7, Pow2Grows
  <2> QED
    BY <1>4, <2>1
<1>9. q \in Nat \ {0} /\ Pow2[o] = SUBBUCKETS * q
  <2>1. PICK p \in Nat \ {0} : Pow2[o] = SUBBUCKETS * p
    BY Zenon, <1>1, <1>7, Pow2Divides
  <2>2. Pow2[o] \div SUBBUCKETS = p
    BY <1>2, <1>8, <2>1, QuotientIs
  <2> QED
    BY Zenon, <2>1, <2>2 DEF Step, o
<1>10. SubOf(x, o) = (x - Pow2[o]) \div q
  <2>1. Pow2[o] \div SUBBUCKETS = q /\ Larger(q, 1) = q
    <3>1. Pow2[o] \div SUBBUCKETS = q
      BY Zenon DEF Step, o
    <3> HIDE DEF q
    <3> QED
      BY <1>9, <3>1 DEF Larger
  <2> QED
    BY Zenon, <2>1 DEF SubOf
<1> HIDE DEF q
<1>11. SubOf(x, o) \in Nat
  BY <1>8, <1>9, <1>10, Quotient
<1>12. Sub(x) \in Nat /\ Sub(x) <= SUBBUCKETS - 1 /\ Sub(x) <= SubOf(x, o)
  <2>1. SUBBUCKETS - 1 \in Nat
    BY <1>2
  <2>2. Sub(x) = Min({SubOf(x, o), SUBBUCKETS - 1})
    BY Zenon DEF Sub, o
  <2> QED
    BY Zenon, <1>11, <2>1, <2>2, MinOfTwo
<1>13. bucket(x) = o * SUBBUCKETS + Sub(x)
  <2>1. ~ (x < SUBBUCKETS)
    BY <1>2
  <2> QED
    BY Zenon, <2>1 DEF bucket, Oct, Sub, o
<1>14. x < Pow2[NUM_OCTAVES] => Pow2[o + 1] > x
  <2> SUFFICES ASSUME x < Pow2[NUM_OCTAVES] PROVE Pow2[o + 1] > x
    OBVIOUS
  <2>1. CASE o = e
    <3>1. Pow2[e + 1] \in Nat
      BY <1>4, <1>5
    <3> QED
      BY <1>4, <2>1, <3>1
  <2>2. CASE o = NUM_OCTAVES - 1
    <3>1. o + 1 = NUM_OCTAVES /\ Pow2[NUM_OCTAVES] \in Nat
      BY <1>2, <1>5, <2>2
    <3> QED
      BY <3>1
  <2> QED
    BY <1>7, <2>1, <2>2
<1>15. 1 <= o
  BY <1>1, <1>7
<1> QED
  BY Zenon, <1>7, <1>8, <1>9, <1>10, <1>11, <1>12, <1>13, <1>14, <1>15 DEF o, q

(* A bucket of the array.                                                  *)
LEMMA BucketInRange ==
  ASSUME NEW x \in Nat
  PROVE  bucket(x) \in Nat /\ bucket(x) \in Buckets
<1>1. NUM_OCTAVES \in Nat /\ SUBBUCKETS \in Nat /\ SUBBUCKETS >= 2 /\ NUM_OCTAVES >= 2
  <2>1. PICK s \in Nat : 1 <= s /\ s <= NUM_OCTAVES - 1
    BY Zenon, SubbucketsPower
  <2> QED
    BY <2>1, SubbucketsPower
<1>2. ASSUME NEW o \in Nat, NEW u \in Nat, o <= NUM_OCTAVES - 1, u <= SUBBUCKETS - 1
      PROVE  o * SUBBUCKETS + u \in Nat /\ o * SUBBUCKETS + u <= NUM_OCTAVES * SUBBUCKETS - 1
  <2>1. \A a, b, d \in Nat : a <= b - 1 => a * d <= b * d - d /\ a * d \in Nat
    OBVIOUS
  <2>2. o * SUBBUCKETS <= NUM_OCTAVES * SUBBUCKETS - SUBBUCKETS /\ o * SUBBUCKETS \in Nat
        /\ NUM_OCTAVES * SUBBUCKETS \in Nat
    BY <1>1, <1>2, <2>1
  <2> QED
    BY <1>1, <1>2, <2>2
<1>3. CASE x < SUBBUCKETS
  <2>1. bucket(x) = x
    BY Zenon, <1>3 DEF bucket
  <2>2. \A b, d \in Nat : b >= 1 => d <= b * d /\ b * d \in Nat
    OBVIOUS
  <2>3. SUBBUCKETS <= NUM_OCTAVES * SUBBUCKETS /\ NUM_OCTAVES * SUBBUCKETS \in Nat
    BY <1>1, <2>2
  <2> QED
    BY <1>1, <1>3, <2>1, <2>3 DEF Buckets
<1>4. CASE ~ (x < SUBBUCKETS)
  <2>1. x >= SUBBUCKETS
    BY <1>1, <1>4
  <2>2. /\ Oct(x) \in Nat /\ Oct(x) <= NUM_OCTAVES - 1
        /\ Sub(x) \in Nat /\ Sub(x) <= SUBBUCKETS - 1
        /\ bucket(x) = Oct(x) * SUBBUCKETS + Sub(x)
    BY Zenon, <2>1, BucketShape
  <2>3. bucket(x) \in Nat /\ bucket(x) <= NUM_OCTAVES * SUBBUCKETS - 1
    BY <1>2, <2>2
  <2> QED
    BY <1>1, <2>3 DEF Buckets
<1> QED
  BY <1>3, <1>4

(* A larger number is never filed in an earlier bucket.                    *)
LEMMA BucketsGrow ==
  ASSUME NEW x \in Nat, NEW y \in Nat, x <= y
  PROVE  bucket(x) <= bucket(y)
<1>1. NUM_OCTAVES \in Nat /\ SUBBUCKETS \in Nat /\ SUBBUCKETS >= 2
  BY Zenon, SubbucketsPower
<1>2. CASE y < SUBBUCKETS
  BY <1>1, <1>2 DEF bucket
<1>3. CASE x < SUBBUCKETS /\ ~ (y < SUBBUCKETS)
  <2>1. y >= SUBBUCKETS
    BY <1>1, <1>3
  <2>2. /\ Oct(y) \in Nat /\ 1 <= Oct(y) /\ Sub(y) \in Nat
        /\ bucket(y) = Oct(y) * SUBBUCKETS + Sub(y)
    BY Zenon, <2>1, BucketShape
  <2>3. \A o, d \in Nat : 1 <= o => d <= o * d /\ o * d \in Nat
    OBVIOUS
  <2>4. SUBBUCKETS <= Oct(y) * SUBBUCKETS /\ Oct(y) * SUBBUCKETS \in Nat
    BY Zenon, <1>1, <2>2, <2>3
  <2>5. bucket(x) = x
    BY Zenon, <1>3 DEF bucket
  <2> QED
    BY <1>1, <1>3, <2>2, <2>4, <2>5
<1>4. CASE ~ (x < SUBBUCKETS) /\ ~ (y < SUBBUCKETS)
  <2>1. x >= SUBBUCKETS /\ y >= SUBBUCKETS /\ x \in Nat \ {0}
    BY <1>1, <1>4
  <2>2. /\ Oct(x) \in Nat /\ Sub(x) \in Nat /\ Sub(x) <= SUBBUCKETS - 1
        /\ bucket(x) = Oct(x) * SUBBUCKETS + Sub(x)
    BY Zenon, <2>1, BucketShape
  <2>3. /\ Oct(y) \in Nat /\ Sub(y) \in Nat /\ Sub(y) <= SUBBUCKETS - 1
        /\ bucket(y) = Oct(y) * SUBBUCKETS + Sub(y)
    BY Zenon, <2>1, BucketShape
  <2>4. Oct(x) <= Oct(y)
    <3>1. Octave(x) \in Nat /\ Octave(y) \in Nat /\ Octave(x) <= Octave(y)
      <4>1. y \in Nat \ {0}
        BY <1>1, <2>1
      <4> QED
        BY Zenon, <2>1, <4>1, OctaveOf, OctavesGrow
    <3>2. NUM_OCTAVES - 1 \in Nat
      BY <1>1, SubbucketsPower
    <3>3. Oct(x) <= Octave(x) /\ Oct(x) <= NUM_OCTAVES - 1
      BY Zenon, <3>1, <3>2, MinOfTwo DEF Oct, ClampedOctave
    <3>4. Oct(y) \in {Octave(y), NUM_OCTAVES - 1}
      BY Zenon, <3>1, <3>2, MinOfTwo DEF Oct, ClampedOctave
    <3> QED
      BY <2>2, <2>3, <3>1, <3>2, <3>3, <3>4
  <2>5. CASE Oct(x) = Oct(y)
    <3>1. Sub(x) <= Sub(y)
      <4>1. /\ Step(x) \in Nat \ {0} /\ Pow2[Oct(x)] \in Nat /\ Pow2[Oct(x)] <= x
            /\ SubOf(x, Oct(x)) = (x - Pow2[Oct(x)]) \div Step(x)
            /\ SubOf(x, Oct(x)) \in Nat
        BY Zenon, <2>1, BucketShape
      <4>2. /\ Pow2[Oct(y)] <= y
            /\ SubOf(y, Oct(y)) = (y - Pow2[Oct(y)]) \div Step(y)
            /\ SubOf(y, Oct(y)) \in Nat
        BY Zenon, <2>1, BucketShape
      <4>3. Step(y) = Step(x)
        BY Zenon, <2>5 DEF Step
      <4>4. SubOf(x, Oct(x)) <= SubOf(y, Oct(y))
        <5>1. x - Pow2[Oct(x)] \in Nat /\ y - Pow2[Oct(x)] \in Nat
              /\ x - Pow2[Oct(x)] <= y - Pow2[Oct(x)]
          BY <4>1
        <5> QED
          BY Zenon, <2>5, <4>1, <4>2, <4>3, <5>1, QuotientGrows
      <4>5. SUBBUCKETS - 1 \in Nat
        BY <1>1
      <4>6. Sub(x) <= SubOf(x, Oct(x)) /\ Sub(x) <= SUBBUCKETS - 1
        BY Zenon, <4>1, <4>5, MinOfTwo DEF Sub
      <4>7. Sub(y) \in {SubOf(y, Oct(y)), SUBBUCKETS - 1}
        BY Zenon, <4>2, <4>5, MinOfTwo DEF Sub
      <4> QED
        BY <2>2, <2>3, <4>1, <4>2, <4>4, <4>5, <4>6, <4>7
    <3>2. Oct(x) * SUBBUCKETS \in Nat
      BY <1>1, <2>2
    <3> QED
      BY <2>2, <2>3, <2>5, <3>1, <3>2
  <2>6. CASE Oct(x) + 1 <= Oct(y)
    <3>1. \A a, b, d \in Nat : a + 1 <= b => a * d + d <= b * d /\ a * d \in Nat /\ b * d \in Nat
      OBVIOUS
    <3>2. /\ Oct(x) * SUBBUCKETS + SUBBUCKETS <= Oct(y) * SUBBUCKETS
          /\ Oct(x) * SUBBUCKETS \in Nat /\ Oct(y) * SUBBUCKETS \in Nat
      BY Zenon, <1>1, <2>2, <2>3, <2>6, <3>1
    <3> QED
      BY <1>1, <2>2, <2>3, <3>2
  <2> QED
    BY <2>2, <2>3, <2>4, <2>5, <2>6
<1> QED
  BY <1>1, <1>2, <1>3, <1>4

(* The lower edge of its bucket is not above a number, and below it by     *)
(* less than one part in SUBBUCKETS if the octave was not clamped.         *)
LEMMA EdgeIsClose ==
  ASSUME NEW x \in Nat
  PROVE  LET v == bucket_lower_edge(bucket(x))
         IN  /\ v \in Nat /\ v <= x
             /\ x < Pow2[NUM_OCTAVES] => v = x \/ (x - v) * SUBBUCKETS < x
<1> DEFINE v == bucket_lower_edge(bucket(x))
<1>1. SUBBUCKETS \in Nat /\ SUBBUCKETS >= 2
  BY Zenon, SubbucketsPower
<1>2. CASE x < SUBBUCKETS
  <2>1. bucket(x) = x
    BY Zenon, <1>2 DEF bucket
  <2>2. x \div SUBBUCKETS = 0 /\ x % SUBBUCKETS = x
    BY <1>1, <1>2, QuotientIs
  <2>3. v = x
    BY Zenon, <2>1, <2>2 DEF bucket_lower_edge
  <2> QED
    BY <2>3
<1>3. CASE ~ (x < SUBBUCKETS)
  <2>1. x >= SUBBUCKETS
    BY <1>1, <1>3
  <2> DEFINE o == Oct(x)
             q == Step(x)
             u == Sub(x)
             f == SubOf(x, Oct(x))
             B == Pow2[o]
  <2>2. /\ o \in Nat /\ 1 <= o /\ q \in Nat \ {0} /\ B = SUBBUCKETS * q /\ B <= x /\ B \in Nat
        /\ f = (x - B) \div q /\ f \in Nat /\ u \in Nat /\ u <= SUBBUCKETS - 1 /\ u <= f
        /\ bucket(x) = o * SUBBUCKETS + u /\ (x < Pow2[NUM_OCTAVES] => Pow2[o + 1] > x)
    BY Zenon, <2>1, BucketShape
  <2>3. u \in {f, SUBBUCKETS - 1}
    <3>1. SUBBUCKETS - 1 \in Nat
      BY <1>1
    <3> QED
      BY Zenon, <2>2, <3>1, MinOfTwo DEF Sub
  <2>4. Pow2[o] \div SUBBUCKETS = q /\ Pow2[o + 1] = 2 * B
    BY Zenon, <2>2, Pow2Doubles DEF Step
  <2>5. v = B + u * q
    <3> DEFINE b == bucket(x)
    <3>1. b \div SUBBUCKETS = o /\ b % SUBBUCKETS = u
      <4> HIDE DEF o, u, q, f, B
      <4>1. b \in Nat /\ b = SUBBUCKETS * o + u /\ u < SUBBUCKETS
        BY <1>1, <2>2
      <4> QED
        BY <1>1, <2>2, <4>1, QuotientIs
    <3>2. ~ (o = 0)
      <4> HIDE DEF o
      <4> QED
        BY <2>2
    <3> HIDE DEF b
    <3>3. bucket_lower_edge(b) = B + u * (Pow2[o] \div SUBBUCKETS)
      BY Zenon, <3>1, <3>2 DEF bucket_lower_edge
    <3> QED
      BY Zenon, <2>4, <3>3 DEF b
  <2> HIDE DEF v, o, q, u, f, B
  <2>6. x - B \in Nat /\ x - B = q * f + ((x - B) % q) /\ (x - B) % q \in Nat /\ (x - B) % q < q
    <3>1. x - B \in Nat
      BY <2>2
    <3> QED
      BY Zenon, <2>2, <3>1, Quotient
  <2>7. PICK a \in Nat, c \in Nat : a = u * q /\ c = q * f /\ a <= c
    <3>1. \A i, j, d \in Nat : i <= j => i * d <= d * j /\ i * d \in Nat /\ d * j \in Nat
      OBVIOUS
    <3>2. q \in Nat
      BY <2>2
    <3>3. u * q <= q * f /\ u * q \in Nat /\ q * f \in Nat
      BY Zenon, <2>2, <3>1, <3>2
    <3> QED
      BY Zenon, <3>3
  <2> DEFINE rest == (x - B) % q
  <2>8. v = B + a /\ x - B = c + rest /\ rest \in Nat /\ rest < q
    BY Zenon, <2>5, <2>6, <2>7
  <2> HIDE DEF rest
  <2>9. v \in Nat /\ v <= x
    BY <2>2, <2>7, <2>8
  <2>10. ASSUME x < Pow2[NUM_OCTAVES] PROVE (x - v) * SUBBUCKETS < x
    <3>1. x - B < SUBBUCKETS * q
      BY <1>1, <2>2, <2>4, <2>10
    <3>2. f < SUBBUCKETS
      <4> SUFFICES ASSUME SUBBUCKETS <= f PROVE FALSE
        BY <1>1, <2>2
      <4>1. \A i, j, d \in Nat : i <= j => i * d <= d * j
        OBVIOUS
      <4>2. SUBBUCKETS * q <= c
        BY <1>1, <2>2, <2>7, <4>1
      <4> QED
        BY <1>1, <2>2, <2>7, <2>8, <3>1, <4>2
    <3>3. u = f
      BY <1>1, <2>2, <2>3, <3>2
    <3>4. a = c
      <4>1. \A i, j \in Nat : i * j = j * i
        OBVIOUS
      <4> QED
        BY Zenon, <2>2, <2>7, <3>3, <4>1
    <3>5. x - v = rest
      <4>1. B \in Nat
        BY <2>2
      <4> QED
        BY <2>8, <3>4, <4>1
    <3>6. \A i, j, d \in Nat : i < j /\ d >= 1 => i * d < d * j
      OBVIOUS
    <3>7. rest * SUBBUCKETS < SUBBUCKETS * q
      <4>1. q \in Nat /\ SUBBUCKETS >= 1
        BY <1>1, <2>2
      <4> QED
        BY Zenon, <1>1, <2>8, <3>6, <4>1
    <3>8. rest * SUBBUCKETS < B /\ rest * SUBBUCKETS \in Nat
      BY <1>1, <2>2, <2>8, <3>7
    <3> HIDE DEF B
    <3>9. rest * SUBBUCKETS < x
      BY <2>2, <3>8
    <3> QED
      BY Zenon, <3>5, <3>9
  <2> QED
    BY Zenon, <2>9, <2>10 DEF v
<1> QED
  BY Zenon, <1>2, <1>3

-----------------------------------------------------------------------------
(* The elements of two disjoint finite sets are counted one by one.        *)
LEMMA CountBoth ==
  ASSUME NEW A, NEW B, IsFiniteSet(A), IsFiniteSet(B), A \cap B = {}
  PROVE  /\ IsFiniteSet(A \cup B) /\ Cardinality(A \cup B) = Cardinality(A) + Cardinality(B)
         /\ Cardinality(A) \in Nat /\ Cardinality(B) \in Nat
<1>1. /\ IsFiniteSet(A \cup B)
      /\ Cardinality(A \cup B) = Cardinality(A) + Cardinality(B) - Cardinality(A \cap B)
  BY Zenon, FS_Union
<1>2. Cardinality(A) \in Nat /\ Cardinality(B) \in Nat /\ Cardinality(A \cap B) = 0
  BY Zenon, FS_CardinalityType, FS_EmptySet
<1> QED
  BY <1>1, <1>2

(* x, y and z are latencies, those of z are those of x and of y.           *)
Joins(x, y, z) ==
  /\ x \in [DOMAIN x -> Nat] /\ y \in [DOMAIN y -> Nat] /\ z \in [DOMAIN z -> Nat]
  /\ IsFiniteSet(DOMAIN x) /\ IsFiniteSet(DOMAIN y)
  /\ DOMAIN x \cap DOMAIN y = {} /\ DOMAIN z = DOMAIN x \cup DOMAIN y
  /\ \A s \in DOMAIN x : z[s] = x[s]
  /\ \A s \in DOMAIN y : z[s] = y[s]

(* The sums add up.                                                        *)
LEMMA JoinedSum ==
  ASSUME NEW x, NEW y, NEW z, Joins(x, y, z)
  PROVE  /\ SumFunction(z) = SumFunction(x) + SumFunction(y)
         /\ SumFunction(x) \in Nat /\ SumFunction(y) \in Nat
<1> DEFINE D == DOMAIN x
           E == DOMAIN y
<1>1. IsFiniteSet(D) /\ IsFiniteSet(E) /\ D \cap E = {} /\ DOMAIN z = D \cup E
  BY Zenon DEF Joins
<1>2. /\ \A s \in D : x[s] \in Nat /\ z[s] = x[s]
      /\ \A s \in E : y[s] \in Nat /\ z[s] = y[s]
  BY Zenon DEF Joins
<1>3. IsFiniteSet(D \cup E)
  BY Zenon, <1>1, CountBoth
<1>4. /\ SumFunction(x) = Cardinality(Area(x, D))
      /\ SumFunction(y) = Cardinality(Area(y, E))
      /\ SumFunction(z) = Cardinality(Area(z, D \cup E))
  <2>1. /\ SumFunction(x) = SumFunctionOnSet(x, D)
        /\ SumFunction(y) = SumFunctionOnSet(y, E)
        /\ SumFunction(z) = SumFunctionOnSet(z, D \cup E)
    BY Zenon, <1>1 DEF SumFunction
  <2>2. \A s \in D \cup E : z[s] \in Nat
    BY Zenon, <1>2
  <2> HIDE DEF D, E
  <2> QED
    BY Zenon, <1>1, <1>2, <1>3, <2>1, <2>2, SumIsArea
<1> HIDE DEF D, E
<1>5. Area(z, D \cup E) = Area(x, D) \cup Area(y, E)
  BY <1>2 DEF Area
<1>6. Area(x, D) \cap Area(y, E) = {}
  BY <1>1 DEF Area
<1>7. IsFiniteSet(Area(x, D)) /\ IsFiniteSet(Area(y, E))
  BY Zenon, <1>1, <1>2, AreaFinite
<1> DEFINE P == Area(x, D)
           Q == Area(y, E)
<1>8. /\ Cardinality(P \cup Q) = Cardinality(P) + Cardinality(Q)
      /\ Cardinality(P) \in Nat /\ Cardinality(Q) \in Nat
  <2> HIDE DEF P, Q
  <2>1. IsFiniteSet(P) /\ IsFiniteSet(Q) /\ P \cap Q = {}
    BY Zenon, <1>6, <1>7 DEF P, Q
  <2> QED
    BY Zenon, <2>1, CountBoth
<1> QED
  BY Zenon, <1>4, <1>5, <1>8

(* The maximum of some latencies, 0 if there are none.                     *)
LEMMA MaxLatency ==
  ASSUME NEW x, x \in [DOMAIN x -> Nat], IsFiniteSet(DOMAIN x)
  PROVE  LET m == Max({0} \cup Range(x))
         IN  /\ m \in Nat /\ \A s \in DOMAIN x : x[s] <= m
             /\ m = 0 \/ \E s \in DOMAIN x : x[s] = m
<1> DEFINE S == {0} \cup Range(x)
<1>1. S \subseteq Nat /\ S # {}
  BY DEF Range
<1>2. IsFiniteSet(Range(x))
  <2>1. x \in Surjection(DOMAIN x, Range(x))
    BY Zenon DEF Surjection, Range
  <2> QED
    BY Zenon, <2>1, FS_Surjection
<1>3. IsFiniteSet(S)
  BY Zenon, <1>2, FS_Singleton, FS_Union
<1>4. Max(S) \in S /\ \A v \in S : v <= Max(S)
  <2> HIDE DEF S
  <2> QED
    BY Zenon, <1>1, <1>3, MaxOfFinite
<1>5. Max(S) = 0 \/ \E s \in DOMAIN x : x[s] = Max(S)
  BY Zenon, <1>4 DEF Range
<1>6. \A s \in DOMAIN x : x[s] \in S
  BY Zenon DEF Range
<1> QED
  BY Zenon, <1>1, <1>4, <1>5, <1>6

(* The larger of two maxima is the maximum of all.                         *)
LEMMA JoinedMax ==
  ASSUME NEW x, NEW y, NEW z, Joins(x, y, z)
  PROVE  Max({0} \cup Range(z)) = Larger(Max({0} \cup Range(x)), Max({0} \cup Range(y)))
<1> DEFINE a == Max({0} \cup Range(x))
           b == Max({0} \cup Range(y))
           m == Max({0} \cup Range(z))
<1>1. /\ a \in Nat /\ \A s \in DOMAIN x : x[s] <= a
      /\ a = 0 \/ \E s \in DOMAIN x : x[s] = a
  BY Zenon, MaxLatency DEF Joins
<1>2. /\ b \in Nat /\ \A s \in DOMAIN y : y[s] <= b
      /\ b = 0 \/ \E s \in DOMAIN y : y[s] = b
  BY Zenon, MaxLatency DEF Joins
<1>3. IsFiniteSet(DOMAIN z)
  <2>1. IsFiniteSet(DOMAIN x) /\ IsFiniteSet(DOMAIN y) /\ DOMAIN z = DOMAIN x \cup DOMAIN y
    BY Zenon DEF Joins
  <2> QED
    BY Zenon, <2>1, FS_Union
<1>4. /\ m \in Nat /\ \A s \in DOMAIN z : z[s] <= m
      /\ m = 0 \/ \E s \in DOMAIN z : z[s] = m
  BY Zenon, <1>3, MaxLatency DEF Joins
<1> HIDE DEF a, b, m
<1>5. a <= m /\ b <= m
  BY <1>1, <1>2, <1>4 DEF Joins
<1>6. m <= a \/ m <= b
  BY <1>1, <1>2, <1>4 DEF Joins
<1>7. m = Larger(a, b)
  BY <1>1, <1>2, <1>4, <1>5, <1>6 DEF Larger
<1> QED
  BY Zenon, <1>7 DEF a, b, m

(* Every bucket holds those of x and those of y.                           *)
LEMMA JoinedCounts ==
  ASSUME NEW x, NEW y, NEW z, Joins(x, y, z), NEW b
  PROVE  Cardinality({s \in DOMAIN z : bucket(z[s]) = b})
           = Cardinality({s \in DOMAIN x : bucket(x[s]) = b})
               + Cardinality({s \in DOMAIN y : bucket(y[s]) = b})
<1> DEFINE A == {s \in DOMAIN x : bucket(x[s]) = b}
           B == {s \in DOMAIN y : bucket(y[s]) = b}
           C == {s \in DOMAIN z : bucket(z[s]) = b}
<1>1. C = A \cup B
  BY Zenon DEF Joins
<1>2. A \cap B = {}
  BY Zenon DEF Joins
<1>3. IsFiniteSet(A) /\ IsFiniteSet(B)
  BY Zenon, FS_Subset DEF Joins
<1> HIDE DEF A, B, C
<1>4. Cardinality(C) = Cardinality(A) + Cardinality(B)
  BY Zenon, <1>1, <1>2, <1>3, CountBoth
<1> QED
  BY Zenon, <1>4 DEF A, B, C

-----------------------------------------------------------------------------
(* A histogram of nothing.                                                 *)
LEMMA BlankDescribes ==
  ASSUME NEW x, DOMAIN x = {}
  PROVE  Describes(Blank, x)
<1>1. SumFunction(x) = 0
  BY Zenon, FS_EmptySet, SumZero DEF SumFunction
<1>2. Range(x) = {}
  BY Zenon DEF Range
<1>3. Max({0} \cup Range(x)) = 0
  <2>1. \A v \in {0} : v = 0
    OBVIOUS
  <2>2. {0} \cup Range(x) = {0} /\ {0} \subseteq Nat /\ {0} # {}
    BY <1>2
  <2>3. Max({0}) \in {0}
    BY Zenon, <2>2, MaxOfFinite, FS_Singleton
  <2> QED
    BY Zenon, <2>1, <2>2, <2>3
<1>4. \A b : {s \in DOMAIN x : bucket(x[s]) = b} = {}
  BY Zenon
<1>5. Cardinality({}) = 0
  BY Zenon, FS_EmptySet
<1>6. /\ \A b \in Buckets : Blank.counts[b] = 0
      /\ Blank.total = 0 /\ Blank.sum = 0 /\ Blank.max = 0
  BY DEF Blank
<1> QED
  BY Zenon, <1>1, <1>3, <1>4, <1>5, <1>6 DEF Describes

(* merge describes what both histograms describe.                          *)
LEMMA CombinedDescribes ==
  ASSUME NEW x, NEW y, NEW z, Joins(x, y, z), NEW h, NEW g, Describes(h, x), Describes(g, y)
  PROVE  Describes(Combined(h, g), z)
<1> DEFINE c == Combined(h, g)
<1>1. /\ c.counts = [b \in Buckets |-> h.counts[b] + g.counts[b]]
      /\ c.total = h.total + g.total /\ c.sum = h.sum + g.sum
      /\ c.max = Larger(h.max, g.max)
  BY DEF Combined, Sums
<1> HIDE DEF c
<1>2. \A b \in Buckets : c.counts[b] = Cardinality({s \in DOMAIN z : bucket(z[s]) = b})
  <2> SUFFICES ASSUME NEW b \in Buckets
               PROVE  c.counts[b] = Cardinality({s \in DOMAIN z : bucket(z[s]) = b})
    OBVIOUS
  <2>1. Cardinality({s \in DOMAIN z : bucket(z[s]) = b})
          = Cardinality({s \in DOMAIN x : bucket(x[s]) = b})
              + Cardinality({s \in DOMAIN y : bucket(y[s]) = b})
    BY SMTT(30), JoinedCounts
  <2>2. c.counts[b] = h.counts[b] + g.counts[b]
    BY Zenon, <1>1
  <2> QED
    BY Zenon, <2>1, <2>2 DEF Describes
<1>3. c.total = Cardinality(DOMAIN z)
  <2>1. /\ IsFiniteSet(DOMAIN x) /\ IsFiniteSet(DOMAIN y) /\ DOMAIN z = DOMAIN x \cup DOMAIN y
        /\ DOMAIN x \cap DOMAIN y = {}
    BY Zenon DEF Joins
  <2>2. Cardinality(DOMAIN x \cup DOMAIN y) = Cardinality(DOMAIN x) + Cardinality(DOMAIN y)
    BY Zenon, <2>1, CountBoth
  <2> QED
    BY Zenon, <1>1, <2>1, <2>2 DEF Describes
<1>4. c.sum = SumFunction(z)
  <2>1. SumFunction(z) = SumFunction(x) + SumFunction(y)
    BY Zenon, JoinedSum
  <2> QED
    BY Zenon, <1>1, <2>1 DEF Describes
<1>5. c.max = Max({0} \cup Range(z))
  <2>1. Max({0} \cup Range(z)) = Larger(Max({0} \cup Range(x)), Max({0} \cup Range(y)))
    BY Zenon, JoinedMax
  <2> QED
    BY Zenon, <1>1, <2>1 DEF Describes
<1> QED
  BY Zenon, <1>2, <1>3, <1>4, <1>5 DEF Describes, c

(* What one latency would be recorded as.                                  *)
Single(v) ==
  [counts |-> [b \in Buckets |-> IF b = bucket(v) THEN 1 ELSE 0],
   total |-> 1, sum |-> v, max |-> v]

(* Which is what it is.                                                    *)
LEMMA SingleDescribes ==
  ASSUME NEW s, NEW y, y \in [{s} -> Nat]
  PROVE  Describes(Single(y[s]), y)
<1> DEFINE v == y[s]
<1>1. v \in Nat /\ DOMAIN y = {s} /\ Range(y) = {v}
  BY DEF Range
<1>2. SumFunction(y) = v
  <2>1. SumFunction(y) = SumFunctionOnSet(y, {s})
    BY Zenon, <1>1 DEF SumFunction
  <2>2. SumFunctionOnSet(y, {s}) = y[s] + SumFunctionOnSet(y, {s} \ {s})
    BY Zenon, <1>1, FS_Singleton, SumRemove
  <2>3. SumFunctionOnSet(y, {s} \ {s}) = 0
    <3>1. {s} \ {s} = {}
      OBVIOUS
    <3>2. SumFunctionOnSet(y, {}) = 0
      BY Zenon, FS_EmptySet, SumZero
    <3> QED
      BY Zenon, <3>1, <3>2
  <2> QED
    BY <1>1, <2>1, <2>2, <2>3
<1>3. Max({0} \cup Range(y)) = v
  <2>1. y \in [DOMAIN y -> Nat] /\ IsFiniteSet(DOMAIN y)
    BY Zenon, <1>1, FS_Singleton
  <2> DEFINE m == Max({0} \cup Range(y))
  <2>2. m \in Nat /\ y[s] <= m /\ (m = 0 \/ \E r \in DOMAIN y : y[r] = m)
    BY Zenon, <1>1, <2>1, MaxLatency
  <2> HIDE DEF m
  <2>3. m = v
    BY <1>1, <2>2
  <2> QED
    BY Zenon, <2>3 DEF m
<1>4. Cardinality({s}) = 1 /\ Cardinality({}) = 0
  BY Zenon, FS_Singleton, FS_EmptySet
<1>5. ASSUME NEW b \in Buckets
      PROVE  Cardinality({r \in DOMAIN y : bucket(y[r]) = b}) = IF b = bucket(v) THEN 1 ELSE 0
  <2>1. CASE b = bucket(v)
    <3>1. {r \in DOMAIN y : bucket(y[r]) = b} = {s}
      BY Zenon, <1>1, <2>1
    <3> QED
      BY Zenon, <1>4, <2>1, <3>1
  <2>2. CASE b # bucket(v)
    <3>1. {r \in DOMAIN y : bucket(y[r]) = b} = {}
      BY Zenon, <1>1, <2>2
    <3> QED
      BY Zenon, <1>4, <2>2, <3>1
  <2> QED
    BY Zenon, <2>1, <2>2
<1>6. /\ Single(v).counts = [b \in Buckets |-> IF b = bucket(v) THEN 1 ELSE 0]
      /\ Single(v).total = 1 /\ Single(v).sum = v /\ Single(v).max = v
  BY DEF Single
<1>7. \A b \in Buckets : Single(v).counts[b] = IF b = bucket(v) THEN 1 ELSE 0
  BY Zenon, <1>6
<1> QED
  BY Zenon, <1>1, <1>2, <1>3, <1>4, <1>5, <1>6, <1>7 DEF Describes

(* add records one more.                                                   *)
LEMMA PlusIsCombined ==
  ASSUME NEW h, NEW v \in Nat, h.counts \in [Buckets -> Nat], h.total \in Nat, h.sum \in Nat,
         h.max \in Nat
  PROVE  Plus(h, v) = Combined(h, Single(v)) /\ Plus(h, v).counts \in [Buckets -> Nat]
<1>1. bucket(v) \in Buckets
  BY Zenon, BucketInRange
<1> DEFINE k == bucket(v)
           old == h.counts
           one == [b \in Buckets |-> IF b = k THEN 1 ELSE 0]
           c == [old EXCEPT ![k] = @ + 1]
           d == [b \in Buckets |-> old[b] + one[b]]
<1> HIDE DEF k
<1>2. c = d /\ c \in [Buckets -> Nat]
  <2>1. k \in Buckets /\ old \in [Buckets -> Nat]
    BY Zenon, <1>1 DEF k
  <2> HIDE DEF old
  <2>2. c \in [Buckets -> Nat] /\ d \in [Buckets -> Nat]
    BY <2>1
  <2>3. \A b \in Buckets : c[b] = d[b]
    BY <2>1
  <2> QED
    BY Zenon, <2>2, <2>3
<1>3. /\ Single(v).counts = one /\ Single(v).total = 1 /\ Single(v).sum = v /\ Single(v).max = v
  BY DEF Single, k
<1>4. Plus(h, v) = [counts |-> c, total |-> h.total + 1, sum |-> h.sum + v, max |-> Larger(h.max, v)]
  BY Zenon DEF Plus, k
<1>5. Combined(h, Single(v))
        = [counts |-> d, total |-> h.total + 1, sum |-> h.sum + v, max |-> Larger(h.max, v)]
  BY Zenon, <1>3 DEF Combined, Sums
<1>6. Plus(h, v).counts = c
  BY <1>4
<1>7. Plus(h, v) = Combined(h, Single(v))
  BY Zenon, <1>2, <1>4, <1>5
<1> QED
  BY Zenon, <1>2, <1>6, <1>7

-----------------------------------------------------------------------------
(* How many latencies of x are filed up to bucket b.                       *)
UpTo(x, b) == {s \in DOMAIN x : bucket(x[s]) <= b}

(* The walk of percentile counts them.                                     *)
LEMMA AccumCounts ==
  ASSUME NEW h, NEW x, x \in [DOMAIN x -> Nat], IsFiniteSet(DOMAIN x), Describes(h, x)
  PROVE  \A b \in Nat : b \in Buckets =>
           SumFunctionOnSet(h.counts, 0 .. b) = Cardinality(UpTo(x, b))
<1> DEFINE g == h.counts
           At(b) == {s \in DOMAIN x : bucket(x[s]) = b}
           Good == {b \in Nat : b \in Buckets => SumFunctionOnSet(g, 0 .. b) = Cardinality(UpTo(x, b))}
<1>1. \A b \in Buckets : g[b] = Cardinality(At(b))
  BY Zenon DEF Describes
<1>2. \A b : IsFiniteSet(At(b)) /\ IsFiniteSet(UpTo(x, b))
  BY Zenon, FS_Subset DEF UpTo
<1>3. \A b \in Buckets : g[b] \in Nat
  BY Zenon, <1>1, <1>2, FS_CardinalityType
<1>4. \A s \in DOMAIN x : bucket(x[s]) \in Nat
  BY Zenon, BucketInRange
<1>5. NUM_OCTAVES * SUBBUCKETS \in Nat
  BY SubbucketsPower
<1> HIDE DEF g
<1>6. 0 \in Good
  <2>1. 0 \in Buckets => SumFunctionOnSet(g, {0}) = g[0] + SumFunctionOnSet(g, {0} \ {0})
    BY Zenon, <1>3, SumRemove, FS_Singleton
  <2>2. {0} \ {0} = {} /\ 0 .. 0 = {0}
    OBVIOUS
  <2>3. SumFunctionOnSet(g, {}) = 0
    BY Zenon, FS_EmptySet, SumZero
  <2>4. 0 \in Buckets => SumFunctionOnSet(g, 0 .. 0) = g[0]
    BY <1>3, <2>1, <2>2, <2>3
  <2>5. UpTo(x, 0) = At(0)
    BY <1>4 DEF UpTo
  <2> QED
    BY Zenon, <1>1, <2>4, <2>5
<1>7. ASSUME NEW b \in Nat, b \in Good PROVE b + 1 \in Good
  <2> SUFFICES ASSUME b + 1 \in Buckets
               PROVE  SumFunctionOnSet(g, 0 .. b + 1) = Cardinality(UpTo(x, b + 1))
    OBVIOUS
  <2>1. /\ b \in Buckets /\ b + 1 \in 0 .. b + 1 /\ (0 .. b + 1) \ {b + 1} = 0 .. b
        /\ 0 .. b + 1 \subseteq Buckets
    BY <1>5 DEF Buckets
  <2>2. IsFiniteSet(0 .. b + 1)
    <3>1. 0 \in Int /\ b + 1 \in Int
      OBVIOUS
    <3> QED
      BY Zenon, <3>1, FS_Interval
  <2>3. SumFunctionOnSet(g, 0 .. b + 1) = g[b + 1] + SumFunctionOnSet(g, 0 .. b)
    <3>1. \A c \in 0 .. b + 1 : g[c] \in Nat
      BY Zenon, <1>3, <2>1
    <3>2. SumFunctionOnSet(g, 0 .. b + 1) = g[b + 1] + SumFunctionOnSet(g, (0 .. b + 1) \ {b + 1})
      BY ZenonT(60), <2>1, <2>2, <3>1, SumRemove
    <3> QED
      BY Zenon, <2>1, <3>2
  <2>4. SumFunctionOnSet(g, 0 .. b) = Cardinality(UpTo(x, b))
    BY Zenon, <1>7, <2>1
  <2>5. UpTo(x, b + 1) = At(b + 1) \cup UpTo(x, b) /\ At(b + 1) \cap UpTo(x, b) = {}
    BY <1>4 DEF UpTo
  <2>6. Cardinality(At(b + 1) \cup UpTo(x, b)) = Cardinality(At(b + 1)) + Cardinality(UpTo(x, b))
    BY ZenonT(60), <1>2, <2>5, CountBoth
  <2>7. g[b + 1] = Cardinality(At(b + 1))
    BY Zenon, <1>1
  <2> QED
    BY Zenon, <2>3, <2>4, <2>5, <2>6, <2>7
<1> HIDE DEF Good
<1>8. Nat \subseteq Good
  BY Zenon, <1>6, <1>7, NatSetInduction
<1> QED
  BY Zenon, <1>8 DEF Good, g

(* Among finitely many latencies one has any rank that there is.           *)
LEMMA RankExists ==
  ASSUME NEW x, x \in [DOMAIN x -> Nat], IsFiniteSet(DOMAIN x),
         NEW rank \in Nat, rank < Cardinality(DOMAIN x)
  PROVE  \E s \in DOMAIN x : HasRank(x, s, rank)
<1> DEFINE Le(v) == {r \in DOMAIN x : x[r] <= v}
           S == {v \in Nat : Cardinality(Le(v)) > rank}
<1>1. \A v : IsFiniteSet(Le(v)) /\ Cardinality(Le(v)) \in Nat
  BY Zenon, FS_Subset, FS_CardinalityType
<1>2. S # {}
  <2> DEFINE m == Max({0} \cup Range(x))
  <2>1. m \in Nat /\ \A s \in DOMAIN x : x[s] <= m
    BY Zenon, MaxLatency
  <2> HIDE DEF m
  <2>2. Le(m) = DOMAIN x
    BY Zenon, <2>1
  <2>3. Cardinality(DOMAIN x) > rank
    <3>1. Cardinality(DOMAIN x) \in Nat
      BY Zenon, FS_CardinalityType
    <3> QED
      BY <3>1
  <2>4. m \in S
    BY Zenon, <2>1, <2>2, <2>3
  <2> QED
    BY Zenon, <2>4
<1>3. PICK v \in S : \A w \in S : v <= w
  <2>1. S \subseteq Nat
    OBVIOUS
  <2>2. PICK v \in S : \A w \in S : ~ (<<w, v>> \in OpToRel(<, Nat))
    <3> HIDE DEF S
    <3> QED
      BY Zenon, <1>2, <2>1, NatLessThanWellFounded, WFMin
  <2>3. \A w \in S : ~ (w < v)
    BY Zenon, <2>1, <2>2 DEF OpToRel
  <2> HIDE DEF S
  <2> QED
    BY <2>1, <2>3
<1>4. v \in Nat /\ Cardinality(Le(v)) > rank
  BY Zenon, <1>3
<1> DEFINE Lt == {r \in DOMAIN x : x[r] < v}
<1>5. Cardinality(Lt) \in Nat /\ Cardinality(Lt) <= rank
  <2>1. CASE v = 0
    <3>1. Lt = {}
      BY <2>1
    <3> QED
      BY <3>1, FS_EmptySet
  <2>2. CASE v # 0
    <3>1. v - 1 \in Nat /\ ~ (v - 1 \in S)
      <4> HIDE DEF S
      <4> QED
        BY <1>3, <1>4, <2>2
    <3>2. ~ (Cardinality(Le(v - 1)) > rank)
      BY Zenon, <3>1
    <3>3. Lt = Le(v - 1)
      BY <1>4
    <3>4. Cardinality(Le(v - 1)) \in Nat
      BY Zenon, <1>1
    <3> HIDE DEF Le, Lt
    <3> QED
      BY <3>2, <3>3, <3>4
  <2> QED
    BY Zenon, <2>1, <2>2
<1>6. Le(v) # Lt
  <2> HIDE DEF Le, Lt
  <2> QED
    BY <1>4, <1>5
<1>7. PICK s \in DOMAIN x : x[s] = v
  <2>1. \A r \in DOMAIN x : x[r] \in Nat /\ (x[r] < v => x[r] <= v)
    BY <1>4
  <2>2. PICK s \in Le(v) : s \notin Lt
    BY Zenon, <1>6, <2>1
  <2>3. s \in DOMAIN x /\ x[s] = v
    BY <1>4, <2>2
  <2> QED
    BY Zenon, <2>3
<1>8. HasRank(x, s, rank)
  BY Zenon, <1>4, <1>5, <1>7 DEF HasRank
<1> QED
  BY Zenon, <1>8

(* percentile stops at the bucket of the sample of the rank it looks for.  *)
LEMMA PercentileBucket ==
  ASSUME NEW h, NEW x, x \in [DOMAIN x -> Nat], IsFiniteSet(DOMAIN x), Describes(h, x),
         NEW rank \in Nat, NEW s \in DOMAIN x, HasRank(x, s, rank)
  PROVE  Min({b \in Buckets : SumFunctionOnSet(h.counts, 0 .. b) > rank}) = bucket(x[s])
<1> DEFINE S == {b \in Buckets : SumFunctionOnSet(h.counts, 0 .. b) > rank}
           k == bucket(x[s])
           Lt == {r \in DOMAIN x : x[r] < x[s]}
           Le == {r \in DOMAIN x : x[r] <= x[s]}
<1>1. k \in Nat /\ k \in Buckets /\ x[s] \in Nat
  BY Zenon, BucketInRange
<1>2. Buckets \subseteq Nat
  BY SubbucketsPower DEF Buckets
<1>3. \A b \in Buckets : SumFunctionOnSet(h.counts, 0 .. b) = Cardinality(UpTo(x, b))
  BY Zenon, <1>2, AccumCounts
<1>4. \A b : IsFiniteSet(UpTo(x, b)) /\ Cardinality(UpTo(x, b)) \in Nat
  BY Zenon, FS_Subset, FS_CardinalityType DEF UpTo
<1>5. IsFiniteSet(Lt) /\ IsFiniteSet(Le) /\ Cardinality(Lt) \in Nat /\ Cardinality(Le) \in Nat
  BY Zenon, FS_Subset, FS_CardinalityType
<1>6. Cardinality(Lt) <= rank /\ Cardinality(Le) > rank
  BY Zenon DEF HasRank
<1>7. k \in S
  <2>1. Le \subseteq UpTo(x, k)
    BY Zenon, BucketsGrow DEF UpTo
  <2>2. Cardinality(Le) <= Cardinality(UpTo(x, k))
    BY Zenon, <1>4, <2>1, FS_Subset
  <2>3. Cardinality(UpTo(x, k)) > rank
    <3>1. Cardinality(UpTo(x, k)) \in Nat
      BY Zenon, <1>4
    <3> HIDE DEF k, Le
    <3> QED
      BY <1>5, <1>6, <2>2, <3>1
  <2> QED
    BY Zenon, <1>1, <1>3, <2>3
<1>8. ASSUME NEW b \in S PROVE k <= b
  <2>1. b \in Buckets /\ b \in Nat /\ Cardinality(UpTo(x, b)) > rank /\ Cardinality(UpTo(x, b)) \in Nat
    BY Zenon, <1>2, <1>3, <1>4
  <2> HIDE DEF S
  <2> SUFFICES ASSUME b < k PROVE FALSE
    BY <1>1, <2>1
  <2>2. UpTo(x, b) \subseteq Lt
    <3> SUFFICES ASSUME NEW r \in DOMAIN x, bucket(x[r]) <= b, ~ (x[r] < x[s]) PROVE FALSE
      BY Zenon DEF UpTo
    <3>1. x[r] \in Nat /\ x[s] <= x[r] /\ bucket(x[r]) \in Nat
      <4>1. x[r] \in Nat
        OBVIOUS
      <4>2. bucket(x[r]) \in Nat
        BY Zenon, <4>1, BucketInRange
      <4> QED
        BY <1>1, <4>1, <4>2
    <3>2. k <= bucket(x[r])
      BY Zenon, <1>1, <3>1, BucketsGrow
    <3> HIDE DEF k
    <3> QED
      BY <1>1, <2>1, <3>1, <3>2
  <2>3. Cardinality(UpTo(x, b)) <= Cardinality(Lt)
    BY Zenon, <1>5, <2>2, FS_Subset
  <2> HIDE DEF Lt
  <2> QED
    BY <1>5, <1>6, <2>1, <2>3
<1> HIDE DEF S, k
<1>9. S \subseteq Nat
  BY Zenon, <1>2 DEF S
<1>10. Min(S) \in S /\ \A b \in S : Min(S) <= b
  BY Zenon, <1>7, <1>8 DEF Min
<1>11. Min(S) = k
  <2>1. Min(S) \in Nat /\ Min(S) <= k /\ k <= Min(S)
    BY Zenon, <1>7, <1>8, <1>9, <1>10
  <2> QED
    BY <1>1, <2>1
<1> QED
  BY Zenon, <1>11 DEF S, k

-----------------------------------------------------------------------------
Series == [Threads -> Seq(Nat)]

(* Finitely many samples are taken.                                        *)
LEMMA LatenciesType ==
  ASSUME NEW a \in Series, NEW T \in SUBSET Threads
  PROVE  /\ Latencies(a, T) \in [Taken(a, T) -> Nat] /\ DOMAIN Latencies(a, T) = Taken(a, T)
         /\ IsFiniteSet(Taken(a, T))
<1>1. IsFiniteSet(T) /\ MaxSamples \in Nat
  BY Zenon, HistAssumption, FS_Subset
<1>2. IsFiniteSet(1 .. MaxSamples)
  BY <1>1, FS_Interval
<1>3. IsFiniteSet(T \X (1 .. MaxSamples))
  BY Zenon, <1>1, <1>2, FS_Product
<1>4. IsFiniteSet(Taken(a, T))
  BY Zenon, <1>3, FS_Subset DEF Taken
<1>5. ASSUME NEW s \in Taken(a, T) PROVE a[s[1]][s[2]] \in Nat
  <2>1. s[1] \in Threads /\ s[2] \in 1 .. MaxSamples /\ s[2] <= Len(a[s[1]])
    BY DEF Taken
  <2>2. a[s[1]] \in Seq(Nat)
    BY Zenon, <2>1 DEF Series
  <2> QED
    BY SMTT(30), <1>1, <2>1, <2>2
<1> QED
  BY Zenon, <1>4, <1>5 DEF Latencies

(* The samples of a set of threads and of one more thread.                 *)
LEMMA MergeJoins ==
  ASSUME NEW a \in Series, NEW T \in SUBSET Threads, NEW th \in Threads \ T
  PROVE  Joins(Latencies(a, T), Latencies(a, {th}), Latencies(a, T \cup {th}))
<1> DEFINE U == T \cup {th}
<1>1. {th} \in SUBSET Threads /\ U \in SUBSET Threads
  OBVIOUS
<1>2. /\ Latencies(a, T) \in [Taken(a, T) -> Nat] /\ DOMAIN Latencies(a, T) = Taken(a, T)
      /\ IsFiniteSet(Taken(a, T))
  BY Zenon, LatenciesType
<1>3. /\ Latencies(a, {th}) \in [Taken(a, {th}) -> Nat] /\ DOMAIN Latencies(a, {th}) = Taken(a, {th})
      /\ IsFiniteSet(Taken(a, {th}))
  BY Zenon, <1>1, LatenciesType
<1>4. Latencies(a, U) \in [Taken(a, U) -> Nat] /\ DOMAIN Latencies(a, U) = Taken(a, U)
  BY Zenon, <1>1, LatenciesType
<1>5. Taken(a, U) = Taken(a, T) \cup Taken(a, {th}) /\ Taken(a, T) \cap Taken(a, {th}) = {}
  BY DEF Taken
<1>6. /\ \A s \in Taken(a, T) : Latencies(a, U)[s] = Latencies(a, T)[s]
      /\ \A s \in Taken(a, {th}) : Latencies(a, U)[s] = Latencies(a, {th})[s]
  BY Zenon, <1>5 DEF Latencies
<1> QED
  BY Zenon, <1>2, <1>3, <1>4, <1>5, <1>6 DEF Joins

(* A sample more of a thread.                                              *)
LEMMA AddJoins ==
  ASSUME NEW th \in Threads, NEW a \in Series, NEW b \in Series, Len(a[th]) < MaxSamples,
         NEW y, y \in [{<<th, Len(a[th]) + 1>>} -> Nat],
         b[th] = Append(a[th], y[<<th, Len(a[th]) + 1>>])
  PROVE  Joins(Latencies(a, {th}), y, Latencies(b, {th}))
<1> DEFINE len == Len(a[th])
           s == <<th, len + 1>>
           ns == y[s]
<1>1. a[th] \in Seq(Nat) /\ len \in Nat /\ MaxSamples \in Nat /\ len < MaxSamples
  BY HistAssumption DEF Series
<1>2. b[th] = Append(a[th], ns) /\ ns \in Nat
  OBVIOUS
<1>3. /\ Len(b[th]) = len + 1 /\ b[th][len + 1] = ns
      /\ \A i \in 1 .. len : b[th][i] = a[th][i]
  BY <1>1, <1>2
<1>4. {th} \in SUBSET Threads
  OBVIOUS
<1>5. /\ Latencies(a, {th}) \in [Taken(a, {th}) -> Nat] /\ DOMAIN Latencies(a, {th}) = Taken(a, {th})
      /\ IsFiniteSet(Taken(a, {th}))
  BY Zenon, <1>4, LatenciesType
<1>6. Latencies(b, {th}) \in [Taken(b, {th}) -> Nat] /\ DOMAIN Latencies(b, {th}) = Taken(b, {th})
  BY Zenon, <1>2, <1>4, LatenciesType
<1>7. y \in [{s} -> Nat] /\ DOMAIN y = {s} /\ IsFiniteSet({s}) /\ y[s] = ns
  BY Zenon, FS_Singleton
<1>0. s = <<th, len + 1>>
  OBVIOUS
<1> HIDE DEF len
<1>8. Taken(a, {th}) = {th} \X (1 .. len) /\ Taken(b, {th}) = {th} \X (1 .. len + 1)
  BY SMTT(60), <1>1, <1>3 DEF Taken, len
<1>9. Taken(b, {th}) = Taken(a, {th}) \cup {s} /\ Taken(a, {th}) \cap {s} = {}
  <2>1. 1 .. len + 1 = (1 .. len) \cup {len + 1} /\ len + 1 \notin 1 .. len
    BY <1>1
  <2>2. \A I : {th} \X I = {<<th, i>> : i \in I}
    OBVIOUS
  <2>3. \A i \in 1 .. len : <<th, i>> = <<th, len + 1>> => i = len + 1
    OBVIOUS
  <2>4. Taken(a, {th}) = {<<th, i>> : i \in 1 .. len} /\ Taken(b, {th}) = {<<th, i>> : i \in 1 .. len + 1}
    BY Zenon, <1>8, <2>2
  <2> QED
    BY ZenonT(60), <1>0, <2>1, <2>3, <2>4
<1>10. Latencies(b, {th})[s] = ns
  <2>1. s \in Taken(b, {th})
    BY Zenon, <1>9
  <2>2. s[1] = th /\ s[2] = len + 1
    BY <1>0
  <2> QED
    BY Zenon, <1>3, <2>1, <2>2 DEF Latencies
<1>11. \A r \in Taken(a, {th}) : Latencies(b, {th})[r] = Latencies(a, {th})[r]
  <2> SUFFICES ASSUME NEW r \in Taken(a, {th})
               PROVE  Latencies(b, {th})[r] = Latencies(a, {th})[r]
    BY Zenon
  <2>1. r[1] = th /\ r[2] \in 1 .. len
    <3>1. r \in {th} \X (1 .. len)
      BY Zenon, <1>8
    <3> QED
      BY <3>1
  <2>2. r \in Taken(b, {th})
    BY Zenon, <1>9
  <2>3. b[r[1]][r[2]] = a[r[1]][r[2]]
    BY Zenon, <1>3, <2>1
  <2> QED
    BY Zenon, <2>2, <2>3 DEF Latencies
<1>12. Joins(Latencies(a, {th}), y, Latencies(b, {th}))
  <2>1. \A r \in {s} : Latencies(b, {th})[r] = y[r]
    BY Zenon, <1>7, <1>10
  <2> QED
    BY Zenon, <1>5, <1>6, <1>7, <1>9, <1>11, <2>1 DEF Joins
<1> QED
  BY Zenon, <1>12

(* The samples of the other threads stay the same.                         *)
LEMMA AddKeepsOthers ==
  ASSUME NEW u, NEW a, NEW b, b[u] = a[u]
  PROVE  Latencies(b, {u}) = Latencies(a, {u})
<1>1. Taken(b, {u}) = Taken(a, {u})
  BY DEF Taken
<1>2. \A r \in Taken(a, {u}) : b[r[1]][r[2]] = a[r[1]][r[2]]
  BY DEF Taken
<1> QED
  BY <1>1, <1>2 DEF Latencies

(* Each thread's histogram describes the samples of the thread, and the    *)
(* merged one those of the threads that have been merged.                  *)
HistInv ==
  /\ added \in Series /\ todo \subseteq Threads
  /\ DOMAIN hist = Threads /\ hist = [th \in Threads |-> hist[th]]
  /\ \A th \in Threads : hist[th].counts \in [Buckets -> Nat]
  /\ \A th \in Threads : Describes(hist[th], Latencies(added, {th}))
  /\ Describes(merged, Latencies(added, Threads \ todo))

(* Nothing is taken of no thread.                                          *)
LEMMA LatenciesOfNone ==
  ASSUME NEW a, NEW b
  PROVE  Taken(a, {}) = {} /\ Latencies(a, {}) = Latencies(b, {})
<1>1. Taken(a, {}) = {} /\ Taken(b, {}) = {}
  BY DEF Taken
<1> QED
  BY <1>1 DEF Latencies

(* The histograms start out empty.                                         *)
LEMMA HistStart == HistInit => HistInv
<1> SUFFICES ASSUME HistInit PROVE HistInv
  OBVIOUS
<1>1. added \in Series
  <2>1. <<>> \in Seq(Nat)
    OBVIOUS
  <2> QED
    BY Zenon, <2>1 DEF HistInit, Series
<1>2. ASSUME NEW th \in Threads PROVE DOMAIN Latencies(added, {th}) = {}
  <2>1. Len(<<>>) = 0
    OBVIOUS
  <2>2. \A s \in {th} \X (1 .. MaxSamples) : ~ (s[2] <= Len(added[s[1]]))
    <3> SUFFICES ASSUME NEW s \in {th} \X (1 .. MaxSamples) PROVE ~ (s[2] <= Len(added[s[1]]))
      BY Zenon
    <3>1. s[1] = th /\ s[2] \in 1 .. MaxSamples /\ MaxSamples \in Nat
      BY HistAssumption
    <3>2. added[th] = <<>>
      BY Zenon DEF HistInit
    <3>3. Len(added[s[1]]) = 0
      BY Zenon, <2>1, <3>1, <3>2
    <3> QED
      BY <3>1, <3>3
  <2> QED
    BY Zenon, <2>2 DEF Latencies, Taken
<1>3. \A th \in Threads : hist[th] = Blank
  BY Zenon DEF HistInit
<1>4. Blank.counts \in [Buckets -> Nat]
  BY DEF Blank
<1>5. \A th \in Threads : Describes(hist[th], Latencies(added, {th}))
  BY Zenon, <1>2, <1>3, BlankDescribes
<1>6. Describes(merged, Latencies(added, Threads \ todo))
  <2>1. Threads \ todo = {} /\ merged = Blank
    BY Zenon DEF HistInit
  <2>2. DOMAIN Latencies(added, {}) = {}
    BY Zenon, LatenciesOfNone DEF Latencies
  <2> QED
    BY Zenon, <2>1, <2>2, BlankDescribes
<1> QED
  BY Zenon, <1>1, <1>3, <1>4, <1>5, <1>6 DEF HistInv, HistInit

(* Another latency is recorded.                                            *)
LEMMA HistAdd ==
  ASSUME HistInv, NEW th \in Threads, NEW ns \in Samples, add(th, ns)
  PROVE  HistInv'
<1> DEFINE s == <<th, Len(added[th]) + 1>>
           y == [r \in {s} |-> ns]
<1>1. ns \in Nat
  BY Zenon, HistAssumption
<1>2. /\ added \in Series /\ Len(added[th]) < MaxSamples
      /\ added' = [added EXCEPT ![th] = Append(@, ns)]
  BY Zenon DEF HistInv, add
<1>3. /\ added' \in Series /\ Joins(Latencies(added, {th}), y, Latencies(added', {th}))
      /\ \A u \in Threads \ {th} : Latencies(added', {u}) = Latencies(added, {u})
  <2>1. Append(added[th], ns) \in Seq(Nat)
    BY <1>1, <1>2 DEF Series
  <2>2. /\ added' \in Series /\ added'[th] = Append(added[th], ns)
        /\ \A u \in Threads \ {th} : added'[u] = added[u]
    BY Zenon, <1>2, <2>1 DEF Series
  <2>3. y \in [{s} -> Nat] /\ y[s] = ns /\ s = <<th, Len(added[th]) + 1>>
    BY Zenon, <1>1
  <2> HIDE DEF y, s
  <2>4. PICK b \in Series : b = added'
    BY Zenon, <2>2
  <2>5. /\ y \in [{<<th, Len(added[th]) + 1>>} -> Nat]
        /\ b[th] = Append(added[th], y[<<th, Len(added[th]) + 1>>])
    BY Zenon, <2>2, <2>3, <2>4
  <2>6. Joins(Latencies(added, {th}), y, Latencies(b, {th}))
    BY Zenon, <1>2, <2>5, AddJoins
  <2>7. \A u \in Threads \ {th} : Latencies(b, {u}) = Latencies(added, {u})
    BY Zenon, <2>2, <2>4, AddKeepsOthers
  <2> QED
    BY Zenon, <2>2, <2>4, <2>6, <2>7
<1>4. Describes(Single(ns), y)
  <2>1. y \in [{s} -> Nat] /\ y[s] = ns
    BY Zenon, <1>1
  <2> HIDE DEF y, s
  <2> QED
    BY Zenon, <2>1, SingleDescribes
<1> HIDE DEF y, s
<1> DEFINE x == Latencies(added, {th})
<1>5. x \in [DOMAIN x -> Nat] /\ IsFiniteSet(DOMAIN x)
  BY Zenon, <1>3 DEF Joins
<1>6. /\ hist[th].counts \in [Buckets -> Nat] /\ hist[th].total \in Nat /\ hist[th].sum \in Nat
      /\ hist[th].max \in Nat
  <2>1. /\ hist[th].total = Cardinality(DOMAIN x) /\ hist[th].sum = SumFunction(x)
        /\ hist[th].max = Max({0} \cup Range(x)) /\ hist[th].counts \in [Buckets -> Nat]
    BY Zenon DEF HistInv, Describes
  <2>2. Cardinality(DOMAIN x) \in Nat
    BY Zenon, <1>5, FS_CardinalityType
  <2>3. SumFunction(x) \in Nat
    BY Zenon, <1>3, JoinedSum
  <2>4. Max({0} \cup Range(x)) \in Nat
    BY Zenon, <1>5, MaxLatency
  <2> QED
    BY Zenon, <2>1, <2>2, <2>3, <2>4
<1>7. Plus(hist[th], ns) = Combined(hist[th], Single(ns)) /\ Plus(hist[th], ns).counts \in [Buckets -> Nat]
  BY Zenon, <1>1, <1>6, PlusIsCombined
<1>8. Describes(Plus(hist[th], ns), Latencies(added', {th}))
  <2>1. Describes(hist[th], x)
    BY Zenon DEF HistInv
  <2> QED
    <3>1. Describes(Combined(hist[th], Single(ns)), Latencies(added', {th}))
      BY <1>3, <1>4, <2>1, CombinedDescribes
    <3> QED
      BY Zenon, <1>7, <3>1
<1>9. /\ hist' = [hist EXCEPT ![th] = Plus(@, ns)] /\ DOMAIN hist = Threads
      /\ todo' = todo /\ todo = Threads /\ merged' = merged
  BY Zenon DEF HistInv, add
<1>10. /\ hist'[th] = Plus(hist[th], ns) /\ DOMAIN hist' = Threads
       /\ \A u \in Threads \ {th} : hist'[u] = hist[u]
       /\ hist' = [u \in Threads |-> hist'[u]]
  BY Zenon, <1>9
<1>11. ASSUME NEW u \in Threads
       PROVE  hist'[u].counts \in [Buckets -> Nat] /\ Describes(hist'[u], Latencies(added', {u}))
  <2>1. CASE u = th
    BY Zenon, <1>7, <1>8, <1>10, <2>1
  <2>2. CASE u # th
    <3>1. hist'[u] = hist[u] /\ Latencies(added', {u}) = Latencies(added, {u})
      BY Zenon, <1>3, <1>10, <2>2
    <3> QED
      BY Zenon, <3>1 DEF HistInv
  <2> QED
    BY Zenon, <2>1, <2>2
<1>12. Describes(merged', Latencies(added', Threads \ todo'))
  <2>1. Threads \ todo' = {} /\ Threads \ todo = {}
    BY Zenon, <1>9
  <2>2. Latencies(added', {}) = Latencies(added, {})
    BY Zenon, LatenciesOfNone
  <2>3. Describes(merged, Latencies(added, Threads \ todo))
    BY Zenon DEF HistInv
  <2> QED
    BY Zenon, <1>9, <2>1, <2>2, <2>3
<1> QED
  BY Zenon, <1>3, <1>9, <1>10, <1>11, <1>12 DEF HistInv

(* A thread's histogram is merged.                                         *)
LEMMA HistMerge ==
  ASSUME HistInv, NEW th \in Threads, merge(th)
  PROVE  HistInv'
<1> DEFINE T == Threads \ todo
<1>1. /\ th \in todo /\ todo \subseteq Threads /\ merged' = Combined(merged, hist[th])
      /\ todo' = todo \ {th} /\ hist' = hist /\ added' = added
      /\ added \in Series /\ Describes(merged, Latencies(added, T))
      /\ Describes(hist[th], Latencies(added, {th}))
  BY Zenon DEF HistInv, merge
<1>2. T \in SUBSET Threads /\ th \in Threads \ T /\ Threads \ todo' = T \cup {th}
  BY Zenon, <1>1
<1> HIDE DEF T
<1>3. Joins(Latencies(added, T), Latencies(added, {th}), Latencies(added, T \cup {th}))
  BY Zenon, <1>1, <1>2, MergeJoins
<1>4. Describes(Combined(merged, hist[th]), Latencies(added, T \cup {th}))
  BY Zenon, <1>1, <1>3, CombinedDescribes
<1>5. todo' \subseteq Threads
  BY Zenon, <1>1
<1> QED
  BY Zenon, <1>1, <1>2, <1>4, <1>5 DEF HistInv

(* Every histogram describes the samples it has taken in (histogram.hpp:18 *)
(* add, histogram.hpp:25 merge).                                           *)
THEOREM HistInvariant == HistSpec => []HistInv
<1>1. HistInv /\ [HistNext]_histvars => HistInv'
  <2> SUFFICES ASSUME HistInv, [HistNext]_histvars PROVE HistInv'
    OBVIOUS
  <2>1. CASE UNCHANGED histvars
    <3>1. hist' = hist /\ added' = added /\ todo' = todo /\ merged' = merged
      BY <2>1 DEF histvars
    <3> QED
      BY Zenon, <3>1 DEF HistInv
  <2>2. CASE HistNext
    BY Zenon, <2>2, HistAdd, HistMerge DEF HistNext
  <2> QED
    BY Zenon, <2>1, <2>2
<1> QED
  BY <1>1, HistStart, PTL DEF HistSpec

(* The merged histogram is that of all samples of the merged threads,      *)
(* whatever the order of merging (histogram.hpp:25).                       *)
THEOREM HistLosesNothing == HistSpec => []MergeLosesNothing
<1>1. HistInv => MergeLosesNothing
  BY Zenon DEF HistInv, MergeLosesNothing
<1> QED
  BY <1>1, HistInvariant, PTL

(* A percentile is below the sample of its rank by less than one part in   *)
(* SUBBUCKETS, never above it (histogram.hpp:37 percentile).               *)
THEOREM HistPercentiles == HistSpec => []PercentileAccurate
<1>1. HistInv => PercentileAccurate
  <2> DEFINE x == Latencies(added, Threads \ todo)
             len == merged.total
             top(w) == Min({w, len - 1})
  <2> SUFFICES ASSUME HistInv, NEW w \in 0 .. len, DOMAIN x # {}
               PROVE  \E s \in DOMAIN x :
                        LET v == percentile(merged, w)
                        IN  /\ HasRank(x, s, top(w))
                            /\ v <= x[s] /\ x[s] <= merged.max
                            /\ x[s] < Pow2[NUM_OCTAVES] => v = x[s] \/ (x[s] - v) * SUBBUCKETS < x[s]
    BY Zenon DEF PercentileAccurate
  <2>1. added \in Series /\ Threads \ todo \in SUBSET Threads /\ Describes(merged, x)
    BY Zenon DEF HistInv
  <2>2. x \in [DOMAIN x -> Nat] /\ IsFiniteSet(DOMAIN x)
    BY Zenon, <2>1, LatenciesType
  <2> HIDE DEF x
  <2>3. len = Cardinality(DOMAIN x) /\ merged.max = Max({0} \cup Range(x))
    BY Zenon, <2>1 DEF Describes
  <2>4. len \in Nat /\ len # 0
    BY Zenon, <2>2, <2>3, FS_CardinalityType, FS_EmptySet
  <2> HIDE DEF len
  <2>5. top(w) \in Nat /\ top(w) < len
    <3>1. w \in Nat /\ len - 1 \in Nat
      BY <2>4
    <3> DEFINE m == Min({w, len - 1})
    <3>2. m \in {w, len - 1} /\ m <= len - 1
      BY Zenon, <3>1, MinOfTwo
    <3> HIDE DEF m
    <3>3. m \in Nat /\ m < len
      BY <2>4, <3>1, <3>2
    <3> QED
      BY Zenon, <3>3 DEF m
  <2> DEFINE k == top(w)
  <2>6. PICK s \in DOMAIN x : HasRank(x, s, k)
    <3>1. k \in Nat /\ k < Cardinality(DOMAIN x)
      BY Zenon, <2>3, <2>5
    <3> HIDE DEF k
    <3> QED
      BY Zenon, <2>2, <3>1, RankExists
  <2>7. Min({b \in Buckets : SumFunctionOnSet(merged.counts, 0 .. b) > k}) = bucket(x[s])
    <3>1. k \in Nat
      BY Zenon, <2>5
    <3> HIDE DEF k
    <3> QED
      BY Zenon, <2>1, <2>2, <2>6, <3>1, PercentileBucket
  <2>8. percentile(merged, w) = bucket_lower_edge(bucket(x[s]))
    BY Zenon, <2>4, <2>7 DEF percentile, len
  <2>9. x[s] \in Nat /\ x[s] <= merged.max
    BY Zenon, <2>2, <2>3, MaxLatency
  <2> DEFINE v == bucket_lower_edge(bucket(x[s]))
  <2>10. v <= x[s] /\ (x[s] < Pow2[NUM_OCTAVES] => v = x[s] \/ (x[s] - v) * SUBBUCKETS < x[s])
    BY Zenon, <2>9, EdgeIsClose
  <2> QED
    BY Zenon, <2>6, <2>8, <2>9, <2>10
<1> QED
  BY <1>1, HistInvariant, PTL

=============================================================================
