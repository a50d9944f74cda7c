-------------------------------- MODULE OpMix --------------------------------
(***************************************************************************)
(* op_mix.hpp: the table from which the operation of each query is drawn.  *)
(* A share is a weight over the sum of the weights.  The code adds shares  *)
(* in floating point: a sum that is a whole number of bins may come out    *)
(* just below it, and is then truncated to one bin less.                   *)
(***************************************************************************)
EXTENDS Integers, Sequences, FiniteSetsExt

CONSTANTS
  BINS,
  MaxWeight  \* bound on the weight of an operation

ASSUME MixAssumption == BINS \in Nat \ {0} /\ MaxWeight \in Nat \ {0}

VARIABLES
  weight,  \* the mix, as parse_opmix reads it
  next,    \* i: the operation whose bins are filled next
  target,  \* the last target
  table    \* the bins filled so far

mixvars == <<weight, next, target, table>>

(* In the order of the enumeration.                                        *)
OpOrder == <<"search", "update", "insert", "delete", "scan">>

Upto(n) == SumFunctionOnSet(weight, 1 .. n)
Total   == Upto(5)

(* Mutant: shares are not divided by their sum.                            *)
TruncatedUnnormalised(n) == {Min({(Upto(n) * BINS) \div MaxWeight, BINS})}

(* (int)(cum[n] * BINS), n from 1.  A sum of nothing is exact, and so is   *)
(* the last, which is the constant 1.0; adding 0 changes nothing.          *)
Truncated(n) ==
  LET exact == Upto(n) * BINS
      t     == exact \div Total
  IN  IF n = 5 THEN {BINS}
      ELSE IF weight[n] = 0 THEN {target}
      ELSE IF exact % Total = 0 THEN {t - 1, t} ELSE {t}

(* A mix that sums to 0 is refused.                                        *)
MixInit ==
  /\ weight \in [1 .. 5 -> 0 .. MaxWeight]
  /\ Total > 0
  /\ next = 1
  /\ target = 0
  /\ table = <<>>

Bins(n, t) == [b \in 1 .. t - Len(table) |-> OpOrder[n]]

(* One iteration of the outer loop; extra bins beyond its target.          *)
FillTo(extra) ==
  /\ next <= 5
  /\ target' \in Truncated(next)
  /\ table' = table \o Bins(next, target' + extra)
  /\ next' = next + 1
  /\ UNCHANGED weight

(* Mutant: every target fills one bin too many.                            *)
FillBeyond == FillTo(1)

Fill == FillTo(0)

(* The loop after it, which has nothing left to fill.                      *)
FillRest ==
  /\ next = 6
  /\ table' = table \o Bins(1, BINS)
  /\ next' = 7
  /\ UNCHANGED <<weight, target>>

(* sample(rand), once the table is complete.                               *)
sample(rand) == table[1 + (rand % BINS)]

MixNext == Fill \/ FillRest

MixSpec == MixInit /\ [][MixNext]_mixvars

-----------------------------------------------------------------------------
(* Properties                                                              *)

Share(n) == Cardinality({r \in 0 .. BINS - 1 : sample(r) = OpOrder[n]})

(* The constructor never writes past the table and leaves no bin unset,    *)
(* and every operation is drawn with its share of the mix, to within one   *)
(* bin (op_mix.hpp:79-83), however the sums are truncated.                 *)
SharesWithinOneBin ==
  /\ Len(table) <= BINS
  /\ next = 7 =>
       /\ Len(table) = BINS
       /\ \A n \in 1 .. 5 :
            /\ Share(n) * Total <= weight[n] * BINS + Total
            /\ Share(n) * Total >= weight[n] * BINS - Total

(* An operation that the mix leaves out is never drawn, but for a scan:    *)
(* scans get the bin that truncation leaves over.  The lock policy         *)
(* (bench.cpp:866) rests on it: a mix without writes must not write.       *)
OnlyScanUnasked ==
  next = 7 =>
    \A n \in 1 .. 4 : weight[n] = 0 => Share(n) = 0

=============================================================================
