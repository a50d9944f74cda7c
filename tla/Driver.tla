------------------------------- MODULE Driver -------------------------------
(***************************************************************************)
(* main of bench.cpp: from the arguments to the numbers that are reported. *)
(* A call of run_batch or run_poisson is a step that returns its wall      *)
(* time, its lateness and a latency sample for each query; BatchRun,       *)
(* PoissonRun and PoissonClock say what happens inside.                    *)
(***************************************************************************)
EXTENDS IndexAccess, Sequences, FiniteSetsExt, Powers

CONSTANTS
  ArgSets,   \* the command lines
  Built,     \* the indexes of this build; the other adapters are stubs
  CAP,       \* the largest automatic queue capacity
  Walls,     \* wall times of a run
  Infinite,  \* the wall time of no run, above all of them
  Latenesses \* lateness per query, with the mean inter-arrival time as unit

ASSUME DriverAssumption ==
  /\ ArgSets \subseteq
       [arrival : {"batch", "poisson"}, index : STRING, dist : STRING, mix : SUBSET Ops,
        rate : Int, queries : Nat, capacity : Nat, workers : Int, clients : Int,
        repeats : Int]
  /\ \E e \in 0 .. CAP : CAP = Pow2[e]
  /\ Walls \cup Latenesses \cup {Infinite} \subseteq Nat
  /\ \A wall \in Walls : wall < Infinite

VARIABLES
  args,      \* the command line
  at,        \* where main is: "setup", "repeat", "done" or "refused"
  capacity,  \* queue_capacity, resolved
  workers,   \* workers, adjusted
  lockflag,  \* needs_lock of main
  results,   \* the results of the repeats so far
  best,      \* best, without its histograms
  samples,   \* how many latency samples merged holds
  warned     \* whether the lateness warning was printed

mainvars == <<args, at, capacity, workers, lockflag, results, best, samples, warned>>

MainStart(lines) ==
  /\ args \in lines
  /\ at = "setup"
  /\ capacity = 0 /\ workers = 0 /\ lockflag = FALSE
  /\ results = <<>>
  /\ best = [wall |-> Infinite, late |-> 0]
  /\ samples = 0
  /\ warned = FALSE

MainInit == MainStart(ArgSets)

(* make_index, the insert of a stub, parse_opmix, the choice of the        *)
(* distribution and the check of the rate each end the program with 2.     *)
BadArgs ==
  \/ args.index \notin Indexes
  \/ args.index \notin Built
  \/ args.mix = {}
  \/ args.dist \notin {"uniform", "zipf"}
  \/ args.arrival = "poisson" /\ args.rate <= 0

Refuse ==
  /\ at = "setup"
  /\ BadArgs
  /\ at' = "refused"
  /\ UNCHANGED <<args, capacity, workers, lockflag, results, best, samples, warned>>

(* Mutant: an automatic capacity is not rounded up.                        *)
ResolvedUnrounded ==
  IF args.capacity # 0 THEN pow2_ceil(args.capacity)
  ELSE IF args.arrival = "poisson" THEN Min({args.queries, CAP}) ELSE Pow2[16]

(* parse_args rounds a capacity that was asked for; 0 means automatic.     *)
Resolved ==
  IF args.capacity # 0 THEN pow2_ceil(args.capacity)
  ELSE IF args.arrival = "poisson" THEN Min({pow2_ceil(args.queries), CAP}) ELSE Pow2[16]

index_threads(w) == IF args.arrival = "batch" THEN w ELSE args.clients

SetUp ==
  /\ at = "setup"
  /\ ~BadArgs
  /\ workers' = Max({args.workers, 1})
  /\ lockflag' = needs_lock(args.index, args.mix, index_threads(workers'))
  /\ capacity' = Resolved
  /\ at' = "repeat"
  /\ UNCHANGED <<args, results, best, samples, warned>>

(* Mutant: the last run replaces the best one.                             *)
BetterLast(cur) == cur
Better(cur) == IF cur.wall < best.wall THEN cur ELSE best

Repeat ==
  /\ at = "repeat"
  /\ Len(results) < args.repeats
  /\ \E wall \in Walls, late \in Latenesses :
       LET cur == [wall |-> wall, late |-> late]
       IN  results' = Append(results, cur) /\ best' = Better(cur)
  /\ samples' = samples + args.queries
  /\ UNCHANGED <<args, at, capacity, workers, lockflag, warned>>

(* The lateness check, the output and return 0.                            *)
Report ==
  /\ at = "repeat"
  /\ Len(results) >= args.repeats
  /\ warned' = (args.arrival = "poisson" /\ args.queries > 0 /\ best.late > 2)
  /\ at' = "done"
  /\ UNCHANGED <<args, capacity, workers, lockflag, results, best, samples>>

MainNext == Refuse \/ SetUp \/ Repeat \/ Report

MainSpec == MainInit /\ [][MainNext]_mainvars

-----------------------------------------------------------------------------
(* Properties                                                              *)

(* A Poisson run gets a queue that its constructor accepts, of a power of  *)
(* two cells, and an automatic one "sized to hold every query" unless it   *)
(* is capped (bench.cpp:905-913); a single cell, with which the queue does *)
(* not work, only for one query or on request.                             *)
QueueFits ==
  at = "repeat" /\ args.arrival = "poisson" =>
    /\ \E e \in 0 .. capacity : capacity = Pow2[e]
    /\ args.capacity = 0 => capacity >= Min({args.queries, CAP})
    /\ capacity = 1 => args.queries <= 1 \/ args.capacity = 1 \/ CAP = 1

(* The scalars reported are those of one run, the fastest, and the latency *)
(* histograms hold the samples of every run (bench.cpp:931-949); a warning *)
(* is about the run whose scalars are reported.  Another run that was late *)
(* goes unwarned, though its samples are in the histograms.                *)
ReportsFastest ==
  at = "done" /\ results # <<>> =>
    /\ best \in Range(results)
    /\ \A r \in Range(results) : best.wall <= r.wall
    /\ samples = Len(results) * args.queries
    /\ warned => \E r \in Range(results) : r.wall = best.wall /\ r.late > 2

=============================================================================
