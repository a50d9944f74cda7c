----------------------------- MODULE MCWorkload -----------------------------
(* Workload alone on a small instance.                                     *)
EXTENDS Workload

=============================================================================
