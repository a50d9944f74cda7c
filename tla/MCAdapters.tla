----------------------------- MODULE MCAdapters -----------------------------
(* Adapters with one index on a small instance.                            *)
EXTENDS Adapters

FastFairBatch == {<<"fastfair", "batch", {"search", "update"}>>}
LBTreeBatch   == {<<"lbtree", "batch", {"search", "update"}>>}

=============================================================================
