------------------------------- MODULE Powers -------------------------------
(***************************************************************************)
(* Powers of two, which the sources get by shifting 1 to the left.         *)
(***************************************************************************)
EXTENDS Naturals, FiniteSetsExt

(* 1 shifted to the left n times.                                          *)
Pow2[n \in Nat] == IF n = 0 THEN 1 ELSE 2 * Pow2[n - 1]

(* while (v < x) v <<= 1, from 1 on.                                       *)
pow2_ceil(x) == Min({v \in {Pow2[e] : e \in 0 .. x} : v >= x})

=============================================================================
