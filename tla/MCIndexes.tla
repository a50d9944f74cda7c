------------------------------ MODULE MCIndexes ------------------------------
(* The hash table, the B+tree, DPTree and the other adapted indexes on     *)
(* small instances: each behaviour runs one of them and leaves the others  *)
(* where they start.                                                       *)
EXTENDS HashIndex, Adapters, DPTree

CONSTANTS FANOUT, MaxKeys, NewVals, MaxWrites

VARIABLES part, keys, node, level, parents, i, phase, root, writes, tcall

BTree == INSTANCE BPlusTree WITH call <- tcall

ASSUME BTree!TreeAssumption

NoDelete == {"search", "update"}
AllOps   == {"search", "update", "delete"}

(* The runs whose native calls may be taken as atomic.  An FPTree lookup   *)
(* reads the value after it let go of the leaf, so that a delete and an    *)
(* insert may hand it another key's; a uTree remove may meet another one   *)
(* in the list: no run mixes those.                                        *)
AdapterRuns ==
  ({"wbtree", "bztree"} \X {"batch", "poisson"} \X {AllOps})
    \cup ({"fptree"} \X {"batch", "poisson"} \X {NoDelete, AllOps \ {"search"}})
    \cup {<<"utree", "batch", NoDelete>>, <<"utree", "poisson", AllOps>>}

treevars == <<keys, node, level, parents, i, phase, root, writes, tcall>>

ivars == <<part, hvars, avars, treevars, dpvars>>

(* The smallest of the trees and one of the adapters stand by.             *)
IInit ==
  /\ part \in {"hash", "btree", "adapters", "dptree"}
  /\ HInit /\ AInit /\ BTree!TInit /\ DPInit
  /\ part # "adapters" => setup = <<"wbtree", "batch", AllOps>>
  /\ part # "btree" => keys = <<>>

INext ==
  /\ UNCHANGED part
  /\ \/ part = "hash" /\ HNext /\ UNCHANGED <<avars, treevars, dpvars>>
     \/ part = "btree" /\ BTree!TNext /\ UNCHANGED <<hvars, avars, dpvars>>
     \/ part = "adapters" /\ ANext /\ UNCHANGED <<hvars, treevars, dpvars>>
     \/ part = "dptree" /\ DPNext /\ UNCHANGED <<hvars, avars, treevars>>

ISpec == IInit /\ [][INext]_ivars

-----------------------------------------------------------------------------
(* The properties of the parts together, and those of BPlusTree.           *)

(* Every variable of the parts has its type; no node that bulk_load        *)
(* builds is over its fanout (index.hpp:61-90), and an adapter's lookup    *)
(* returns 0 or a value that was written for the key.                      *)
ITypeOK == HTypeOK /\ BTree!TTypeOK /\ ATypeOK

(* A point lookup finds what the leaves hold (index.hpp:93-105).           *)
LookupFinds == BTree!LookupFinds

(* A scan visits the loaded keys in order (index.hpp:124-147).             *)
ScanInOrder == BTree!ScanInOrder

(* The tree implements the index map: update sets the value of a loaded    *)
(* key and of no other ("upsert without split", index.hpp:107).            *)
TreeImplementsMap == BTree!TreeImplementsMap

=============================================================================
