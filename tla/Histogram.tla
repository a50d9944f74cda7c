------------------------------ MODULE Histogram ------------------------------
(***************************************************************************)
(* histogram.hpp, and how the modes use it: each thread adds its samples   *)
(* to a histogram of its own, and the histograms are merged when the       *)
(* threads have been joined.                                               *)
(***************************************************************************)
EXTENDS Integers, Sequences, FiniteSetsExt, Powers

CONSTANTS
  NUM_OCTAVES, SUBBUCKETS,
  Threads,
  Samples,    \* the latencies that are measured
  MaxSamples  \* bound on the number of samples of a thread

ASSUME HistAssumption ==
  /\ NUM_OCTAVES \in Nat
  /\ \E s \in 1 .. NUM_OCTAVES - 1 : SUBBUCKETS = Pow2[s]
  /\ IsFiniteSet(Threads)
  /\ Samples \subseteq Nat
  /\ MaxSamples \in Nat

VARIABLES
  hist,    \* the histogram of each thread
  added,   \* the samples of each thread, in order
  todo,    \* the threads not merged yet
  merged   \* the histogram that is reported

histvars == <<hist, added, todo, merged>>

Buckets == 0 .. NUM_OCTAVES * SUBBUCKETS - 1

Larger(a, b) == IF a > b THEN a ELSE b

(* 63 - clzll(ns)                                                          *)
Octave(ns) == CHOOSE e \in 0 .. ns : Pow2[e] <= ns /\ ns < Pow2[e + 1]

(* The sub-bucket of ns in an octave, before it is clamped.                *)
SubOf(ns, oct) == (ns - Pow2[oct]) \div Larger(Pow2[oct] \div SUBBUCKETS, 1)

ClampedOctave(ns) == Min({Octave(ns), NUM_OCTAVES - 1})

(* Mutant: the sub-bucket is not clamped with the octave.                  *)
bucketWraps(ns) ==
  IF ns < SUBBUCKETS THEN ns
  ELSE ClampedOctave(ns) * SUBBUCKETS + (SubOf(ns, ClampedOctave(ns)) % SUBBUCKETS)

bucket(ns) ==
  IF ns < SUBBUCKETS THEN ns
  ELSE ClampedOctave(ns) * SUBBUCKETS
         + Min({SubOf(ns, ClampedOctave(ns)), SUBBUCKETS - 1})

bucket_lower_edge(b) ==
  LET oct == b \div SUBBUCKETS
      sub == b % SUBBUCKETS
  IN  IF oct = 0 THEN sub ELSE Pow2[oct] + sub * (Pow2[oct] \div SUBBUCKETS)

Blank == [counts |-> [b \in Buckets |-> 0], total |-> 0, sum |-> 0, max |-> 0]

Plus(h, ns) ==
  [counts |-> [h.counts EXCEPT ![bucket(ns)] = @ + 1],
   total  |-> h.total + 1,
   sum    |-> h.sum + ns,
   max    |-> Larger(h.max, ns)]

(* The sums of two histograms, with the given maximum.                     *)
Sums(h, other, max) ==
  [counts |-> [b \in Buckets |-> h.counts[b] + other.counts[b]],
   total  |-> h.total + other.total,
   sum    |-> h.sum + other.sum,
   max    |-> max]

(* Mutant: the maximum of the other histogram is not taken over.           *)
CombinedKeepsMax(h, other) == Sums(h, other, h.max)

Combined(h, other) == Sums(h, other, Larger(h.max, other.max))

(* percentile(p); wanted is (uint64_t)(total_ * p), from 0 to total_.      *)
percentile(h, wanted) ==
  LET target   == Min({wanted, h.total - 1})
      accum(b) == SumFunctionOnSet(h.counts, 0 .. b)
  IN  IF h.total = 0 THEN 0
      ELSE bucket_lower_edge(Min({b \in Buckets : accum(b) > target}))

-----------------------------------------------------------------------------
HistInit ==
  /\ hist = [t \in Threads |-> Blank]
  /\ added = [t \in Threads |-> <<>>]
  /\ todo = Threads
  /\ merged = Blank

add(t, ns) ==
  /\ todo = Threads
  /\ Len(added[t]) < MaxSamples
  /\ hist' = [hist EXCEPT ![t] = Plus(@, ns)]
  /\ added' = [added EXCEPT ![t] = Append(@, ns)]
  /\ UNCHANGED <<todo, merged>>

merge(t) ==
  /\ t \in todo
  /\ merged' = Combined(merged, hist[t])
  /\ todo' = todo \ {t}
  /\ UNCHANGED <<hist, added>>

HistNext == \E t \in Threads : merge(t) \/ \E ns \in Samples : add(t, ns)

HistSpec == HistInit /\ [][HistNext]_histvars

-----------------------------------------------------------------------------
(* Properties                                                              *)

(* The samples a of some threads: which there are, and their latencies.    *)
Taken(a, T) == {s \in T \X (1 .. MaxSamples) : s[2] <= Len(a[s[1]])}
Latencies(a, T) == [s \in Taken(a, T) |-> a[s[1]][s[2]]]

(* What a histogram of the latencies x has recorded.                       *)
Describes(h, x) ==
  /\ \A b \in Buckets : h.counts[b] = Cardinality({s \in DOMAIN x : bucket(x[s]) = b})
  /\ h.total = Cardinality(DOMAIN x)
  /\ h.sum = SumFunction(x)
  /\ h.max = Max({0} \cup Range(x))

(* Merging the threads' histograms (histogram.hpp:25-30) gives what one    *)
(* histogram would have recorded of all samples, in any order of threads.  *)
MergeLosesNothing == Describes(merged, Latencies(added, Threads \ todo))

(* The sample s has rank t among those in x, counted from 0.               *)
HasRank(x, s, t) ==
  /\ Cardinality({r \in DOMAIN x : x[r] < x[s]}) <= t
  /\ Cardinality({r \in DOMAIN x : x[r] <= x[s]}) > t

(* A percentile (histogram.hpp:37-47) never exceeds the sample of its      *)
(* rank, and is short of it by less than one part in SUBBUCKETS unless the *)
(* sample lies beyond the last octave; p = 1 stands for the largest one.   *)
PercentileAccurate ==
  LET x == Latencies(added, Threads \ todo)
  IN  \A wanted \in 0 .. merged.total :
        DOMAIN x # {} =>
          \E s \in DOMAIN x :
            LET v == percentile(merged, wanted)
            IN  /\ HasRank(x, s, Min({wanted, merged.total - 1}))
                /\ v <= x[s] /\ x[s] <= merged.max
                /\ x[s] < Pow2[NUM_OCTAVES] => v = x[s] \/ (x[s] - v) * SUBBUCKETS < x[s]

=============================================================================
