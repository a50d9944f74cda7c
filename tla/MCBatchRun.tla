----------------------------- MODULE MCBatchRun -----------------------------
(* Small instances of BatchRun for TLC.                                    *)
EXTENDS BatchRun

=============================================================================
