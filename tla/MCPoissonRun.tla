---------------------------- MODULE MCPoissonRun ----------------------------
(* Small instances of PoissonRun for TLC.                                  *)
EXTENDS PoissonRun, TLC

MCItems == 1 .. NQueries

(* Clients are interchangeable.                                            *)
ClientSymmetry == Permutations(Clients)

=============================================================================
