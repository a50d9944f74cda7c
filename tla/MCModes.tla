------------------------------- MODULE MCModes -------------------------------
(* The two arrival modes of main on small instances, with the fairness of  *)
(* their threads: each behaviour runs one and leaves the other at rest.    *)
EXTENDS BatchRun

CONSTANTS Producer, Consumers, NoItem

VARIABLES
  part,
  seq, value, enq_pos, deq_pos, pc, pos, arg, out, ret, sent, rcvd,
  pat, next, op_choice, done, produced, consumed, size_e, phist, presult

(* Two deletes, then a delete or a scan, through a ring of two cells.      *)
Poisson == INSTANCE PoissonRun WITH
  at <- pat, hist <- phist, result <- presult,
  Producers <- {Producer}, NQueries <- 3, Items <- 1 .. 3, Capacity <- 2,
  MaxEnqueues <- 0, RelaxedLoads <- FALSE, Mix <- {"delete"}

batchvars   == <<spawned, at, gate, i, op, hist, result>>
poissonvars == <<seq, value, enq_pos, deq_pos, pc, pos, arg, out, ret, sent, rcvd,
                 pat, next, op_choice, done, produced, consumed, size_e, phist, presult>>
modevars    == <<part, batchvars, poissonvars, lock>>

ModesInit ==
  /\ part \in {"batch", "poisson"}
  /\ BInit
  /\ Poisson!PInit
  /\ op_choice[1] = "delete" /\ op_choice[2] = "delete"
  /\ part = "batch" => op_choice[3] = "delete"

(* A step of one mode, which leaves the other alone.                       *)
InBatch(A)   == part = "batch" /\ A /\ UNCHANGED <<part, poissonvars>>
InPoisson(A) == part = "poisson" /\ A /\ UNCHANGED <<part, batchvars>>

ModesNext == InBatch(BNext) \/ InPoisson(Poisson!PNext)

(* The fairness of BFairSpec and of PFairSpec.                             *)
ModesSpec ==
  /\ ModesInit /\ [][ModesNext]_modevars
  /\ WF_modevars(InBatch(Spawn)) /\ WF_modevars(InBatch(Join))
  /\ \A w \in Workers : WF_modevars(InBatch(WorkerStep(w)))
  /\ WF_modevars(InPoisson(Poisson!ProducerStep))
  /\ \A c \in Consumers : WF_modevars(InPoisson(Poisson!ClientStep(c)))
  /\ SF_modevars(InPoisson(Poisson!ProducerStep /\ Poisson!EnqClaim(Producer)))
  /\ \A c \in Consumers :
       SF_modevars(InPoisson(Poisson!ClientStep(c) /\ Poisson!DeqClaim(c)))

-----------------------------------------------------------------------------
(* The liveness of each mode, in the behaviours that run it.               *)

(* run_batch returns: the barrier opens, the shards are served and every   *)
(* worker is joined (bench.cpp:480-496).                                   *)
BatchRunTerminates == part = "batch" => BatchTerminates

(* run_poisson returns: every query is served, every client sees the       *)
(* shutdown and is joined (bench.cpp:560-574).                             *)
PoissonRunTerminates == part = "poisson" => Poisson!RunTerminates

=============================================================================
