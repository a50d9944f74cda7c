--------------------------- MODULE ArrivalSchedule ---------------------------
(***************************************************************************)
(* The arrival schedule that run_poisson generates before its clock        *)
(* starts: for each query the rate of the traffic model at the time of the *)
(* arrival before it, then a gap drawn for that rate.  Time is whole       *)
(* units; a rate is a multiple of the base rate.  A step is an iteration   *)
(* of one of the two loops of lambda_at, or the rest of one query.         *)
(***************************************************************************)
EXTENDS Integers, Sequences, FiniteSetsExt

CONSTANTS
  NArrivals,  \* the number of queries
  Shapes,     \* traffic shapes: level_period_s, burst_tick_s, burst_prob > 0
  Levels,     \* what sample_level may return
  SinMods,    \* the sine factor; 0 where the signal is below one per second
  Mults,      \* burst multipliers
  Durs,       \* burst durations
  Draws,      \* gamma samples, as the gap at rate 1
  MaxGap      \* the cap of next_ns

ASSUME ScheduleAssumption ==
  /\ NArrivals \in Nat /\ MaxGap \in Nat
  /\ Shapes \subseteq [level : Nat, tick : Nat, bursts : BOOLEAN]
  /\ Levels \cup SinMods \cup Mults \cup Durs \cup Draws \subseteq Nat

VARIABLES
  p,              \* the shape of this run
  t,              \* the time of the last arrival
  sched,          \* the arrivals so far
  cur_level,      \* cur_level_
  next_level_at,  \* next_level_at_s_
  burst_until,    \* burst_until_s_
  burst_mult,     \* burst_mult_
  next_burst_at   \* next_burst_at_s_

traffic   == <<cur_level, next_level_at, burst_until, burst_mult, next_burst_at>>
schedvars == <<p, t, sched, traffic>>

(* 1e18 seconds: later than any arrival.                                   *)
Never == NArrivals * MaxGap + 1

SchedInit ==
  /\ p \in Shapes
  /\ t = 0 /\ sched = <<>>
  /\ cur_level \in Levels
  /\ next_level_at = IF p.level > 0 THEN p.level ELSE Never
  /\ burst_until = -1
  /\ burst_mult = 1
  /\ next_burst_at = IF p.bursts THEN p.tick ELSE Never

(* The level is drawn again, as of the time next.                          *)
ShiftLevel(next) ==
  /\ Len(sched) < NArrivals
  /\ t >= next_level_at
  /\ cur_level' \in Levels
  /\ next_level_at' = next
  /\ UNCHANGED <<p, t, sched, burst_until, burst_mult, next_burst_at>>

(* Mutant: the next period is counted from the arrival that noticed.       *)
LevelShiftDrifts == ShiftLevel(t + p.level)

LevelShift == ShiftLevel(next_level_at + p.level)

(* A tick: with a burst, which lasts from now on, or without one; then the *)
(* next tick is at quiet or, after a burst, at hit.                        *)
Tick(hit, quiet) ==
  /\ Len(sched) < NArrivals
  /\ t < next_level_at
  /\ t >= next_burst_at
  /\ \/ /\ \E d \in Durs, m \in Mults : burst_until' = t + d /\ burst_mult' = m
        /\ next_burst_at' = hit
     \/ /\ UNCHANGED <<burst_until, burst_mult>>
        /\ next_burst_at' = quiet
  /\ UNCHANGED <<p, t, sched, cur_level, next_level_at>>

(* Mutant: only a tick without a burst moves on.                           *)
BurstTickStays == Tick(next_burst_at, next_burst_at + p.tick)

BurstTick == Tick(next_burst_at + p.tick, next_burst_at + p.tick)

(* lambda_at, once both loops have caught up.                              *)
lambda_at(sinmod) ==
  Max({1, cur_level * sinmod * (IF t < burst_until THEN burst_mult ELSE 1)})

(* next_ns after set_rate(rate): the sample is scaled to the rate.         *)
next_ns(sample, rate) == Min({sample \div rate, MaxGap})

Arrive ==
  /\ Len(sched) < NArrivals
  /\ t < next_level_at /\ t < next_burst_at
  /\ \E sinmod \in SinMods, s \in Draws :
       t' = t + next_ns(s, lambda_at(sinmod))
  /\ sched' = Append(sched, t')
  /\ UNCHANGED <<p, traffic>>

SchedNext == LevelShift \/ BurstTick \/ Arrive

SchedSpec == SchedInit /\ [][SchedNext]_schedvars /\ WF_schedvars(SchedNext)

-----------------------------------------------------------------------------
(* Properties                                                              *)

(* Both timers of lambda_at stay on the grid of their period whatever the  *)
(* arrival times: after catching up each is due at the first multiple of   *)
(* its period after t (traffic_model.hpp:92-105).                          *)
TimersOnTime ==
  t < next_level_at /\ t < next_burst_at =>
    /\ p.level > 0 => next_level_at = (t \div p.level + 1) * p.level
    /\ p.bursts => next_burst_at = (t \div p.tick + 1) * p.tick

(* lambda_at advances its state up to t and returns, for every arrival, so *)
(* that the schedule is finished (traffic_model.hpp:91-105); mean_burst    *)
(* takes a tick of 0 for no bursts (traffic_model.hpp:167).                *)
ScheduleEnds == <>(Len(sched) = NArrivals)

=============================================================================
