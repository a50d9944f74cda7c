------------------------------ MODULE MCDPTree ------------------------------
(* DPTree alone on a small instance.                                       *)
EXTENDS DPTree

=============================================================================
