--------------------------- MODULE MCMeasurement ---------------------------
(* What surrounds the index: statistics, operation mix, workload, arrival  *)
(* schedule, clock readings and main.  They share no state: each behaviour *)
(* runs one of them on a small instance and leaves the others at rest.     *)
EXTENDS Histogram, OpMix, Workload, ArrivalSchedule, PoissonClock, Driver

VARIABLE part

measured == <<histvars, mixvars, workvars, schedvars, clockvars, mainvars, lock, part>>

MCShapes ==
  {[level |-> 2, tick |-> 3, bursts |-> TRUE],
   [level |-> 3, tick |-> 1, bursts |-> TRUE],
   [level |-> 0, tick |-> 0, bursts |-> FALSE]}

MCArrivals == {<<0, 0, 1>>}

MCArgSets ==
  {[arrival |-> a, index |-> x, dist |-> d, mix |-> m, rate |-> r,
    queries |-> q, capacity |-> cap, workers |-> w, clients |-> c, repeats |-> reps] :
     a \in {"batch", "poisson"}, x \in {"hash", "fptree", "bztree", "other"},
     d \in {"zipf", "other"}, m \in {{}, {"search", "update"}}, r \in {0, 1},
     q \in {0, 1, 3, 9}, cap \in {0, 1, 3}, w \in {0, 2}, c \in {1, 2}, reps \in {0, 3}}

(* Where a machine with several initial states rests.                      *)
MixRests ==
  weight = <<1, 0, 0, 0, 0>> /\ next = 1 /\ target = 0 /\ table = <<>>
WorkRests ==
  work \in Workloads("polluter", 0, 0) /\ touched = [tag \in Tags |-> <<>>]
ScheduleRests ==
  SchedInit /\ p.level = 0 /\ cur_level = Min(Levels)
MainRests ==
  MainStart({[arrival |-> "batch", index |-> "hash", dist |-> "zipf", mix |-> {"search"},
              rate |-> 0, queries |-> 0, capacity |-> 0, workers |-> 1,
              clients |-> 1, repeats |-> 0]})

MInit ==
  /\ part \in {"histogram", "op_mix", "workload", "schedule", "clock", "main"}
  /\ HistInit /\ ClockInit /\ LockInit
  /\ IF part = "op_mix" THEN MixInit ELSE MixRests
  /\ IF part = "workload" THEN WInit ELSE WorkRests
  /\ IF part = "schedule" THEN SchedInit ELSE ScheduleRests
  /\ IF part = "main" THEN MainInit ELSE MainRests

MNext ==
  /\ UNCHANGED <<lock, part>>
  /\ \/ /\ part = "histogram" /\ HistNext
        /\ UNCHANGED <<mixvars, workvars, schedvars, clockvars, mainvars>>
     \/ /\ part = "op_mix" /\ MixNext
        /\ UNCHANGED <<histvars, workvars, schedvars, clockvars, mainvars>>
     \/ /\ part = "workload" /\ WNext
        /\ UNCHANGED <<histvars, mixvars, schedvars, clockvars, mainvars>>
     \/ /\ part = "schedule" /\ SchedNext
        /\ UNCHANGED <<histvars, mixvars, workvars, clockvars, mainvars>>
     \/ /\ part = "clock" /\ ClockNext
        /\ UNCHANGED <<histvars, mixvars, workvars, schedvars, mainvars>>
     \/ /\ part = "main" /\ MainNext
        /\ UNCHANGED <<histvars, mixvars, workvars, schedvars, clockvars>>

MSpec == MInit /\ [][MNext]_measured /\ WF_measured(MNext)

(* ScheduleEnds, of the behaviours that generate a schedule: the loops of  *)
(* lambda_at catch up with every arrival (traffic_model.hpp:91-105).       *)
ScheduleFinished == part = "schedule" => ScheduleEnds

=============================================================================
