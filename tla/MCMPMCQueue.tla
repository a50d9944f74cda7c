---------------------------- MODULE MCMPMCQueue ----------------------------
(* Small instances of MPMCQueue for TLC.                                   *)
EXTENDS MPMCQueue, TLC

(* Threads of one role and item values are interchangeable.                *)
Symmetry ==
  Permutations(Producers) \cup Permutations(Consumers) \cup Permutations(Items)

=============================================================================
