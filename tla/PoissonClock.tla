---------------------------- MODULE PoissonClock ----------------------------
(***************************************************************************)
(* The clock readings of Poisson mode: what run_poisson and client_thread  *)
(* measure.  The queue is the bounded FIFO that MPMCQueue implements, the  *)
(* index call and the workload just take time, and the steady clock may    *)
(* advance between any two steps.  Durations are unsigned: a difference    *)
(* below zero wraps.                                                       *)
(***************************************************************************)
EXTENDS Integers, Sequences

CONSTANTS
  CClients,  \* the client threads
  Arrivals,  \* the arrival schedules to run
  Room,      \* the capacity of the queue
  MaxTime    \* bound on the clock

ASSUME ClockAssumption ==
  /\ Arrivals \subseteq Seq(Nat)
  /\ Room \in Nat \ {0} /\ MaxTime \in Nat \ {0}

VARIABLES
  now,      \* the clock, since t0
  arrival,  \* the schedule of this run
  n,        \* the query that the producer is at
  prod,     \* "spin", "offer" or "full"
  stamp,    \* t_enqueue_ns of each query
  lag,      \* each query's share of lag_total
  blocked,  \* the queries that met a full queue
  fifo,     \* the queue
  client,   \* each client: its query and the times it has read
  rec       \* what was recorded of each query

clockvars == <<now, arrival, n, prod, stamp, lag, blocked, fifo, client, rec>>

WRAP == 4 * MaxTime
Minus(a, b) == (a - b) % WRAP

NoTime  == -1
Idle    == [q |-> 0, start |-> NoTime, lookup |-> NoTime]
NoRecord == <<>>

ClockInit ==
  /\ now = 0
  /\ arrival \in Arrivals
  /\ n = 1 /\ prod = "spin"
  /\ stamp = [q \in DOMAIN arrival |-> NoTime]
  /\ lag = [q \in DOMAIN arrival |-> 0]
  /\ blocked = {}
  /\ fifo = <<>>
  /\ client = [c \in CClients |-> Idle]
  /\ rec = [q \in DOMAIN arrival |-> NoRecord]

Advance ==
  /\ now < MaxTime
  /\ now' = now + 1
  /\ UNCHANGED <<arrival, n, prod, stamp, lag, blocked, fifo, client, rec>>

(* The producer makes the entry of its next query at time at.              *)
MakeEntry(at) ==
  /\ prod = "spin"
  /\ n <= Len(arrival)
  /\ now >= arrival[n]
  /\ stamp' = [stamp EXCEPT ![n] = at]
  /\ lag' = [lag EXCEPT ![n] = Minus(at, arrival[n])]
  /\ prod' = "offer"
  /\ UNCHANGED <<now, arrival, n, blocked, fifo, client, rec>>

(* Mutant: the entry is stamped with the time it was due.                  *)
StampDue == MakeEntry(arrival[n])

(* spin_until returns and the entry gets its time.                         *)
Stamp == MakeEntry(now)

Offer ==
  /\ prod = "offer"
  /\ \/ /\ Len(fifo) < Room
        /\ fifo' = Append(fifo, n)
        /\ n' = n + 1 /\ prod' = "spin"
        /\ UNCHANGED blocked
     \/ /\ Len(fifo) = Room
        /\ blocked' = blocked \cup {n}
        /\ prod' = "full"
        /\ UNCHANGED <<fifo, n>>
  /\ UNCHANGED <<now, arrival, stamp, lag, client, rec>>

(* After a failed attempt: the entry gets a new time.                      *)
Refresh ==
  /\ prod = "full"
  /\ stamp' = [stamp EXCEPT ![n] = now]
  /\ prod' = "offer"
  /\ UNCHANGED <<now, arrival, n, lag, blocked, fifo, client, rec>>

(* The client c changes to new, with the queue and the records as given.   *)
Becomes(c, new) ==
  /\ client' = [client EXCEPT ![c] = new]
  /\ UNCHANGED <<now, arrival, n, prod, stamp, lag, blocked>>

Take(c) ==
  /\ client[c].q = 0
  /\ fifo # <<>>
  /\ fifo' = Tail(fifo)
  /\ Becomes(c, [client[c] EXCEPT !.q = Head(fifo)])
  /\ UNCHANGED rec

(* Mutant: an idle client reads the clock before it has a query.           *)
StartEarly(c) ==
  /\ client[c].start = NoTime
  /\ Becomes(c, [client[c] EXCEPT !.start = now])
  /\ UNCHANGED <<fifo, rec>>

Start(c) ==
  /\ client[c].q # 0
  /\ client[c].start = NoTime
  /\ Becomes(c, [client[c] EXCEPT !.start = now])
  /\ UNCHANGED <<fifo, rec>>

(* The index call has returned.                                            *)
LookedUp(c) ==
  /\ client[c].q # 0
  /\ client[c].start # NoTime /\ client[c].lookup = NoTime
  /\ Becomes(c, [client[c] EXCEPT !.lookup = now])
  /\ UNCHANGED <<fifo, rec>>

(* The workload has returned: t_end is now.  The query has been in the     *)
(* system from the time from.                                              *)
Complete(c, from) ==
  LET me == client[c]
  IN  /\ me.lookup # NoTime
      /\ rec' = [rec EXCEPT ![me.q] =
                   [service |-> Minus(now, me.start),
                    lookup  |-> Minus(me.lookup, me.start),
                    poll    |-> Minus(now, me.lookup),
                    queue   |-> Minus(me.start, stamp[me.q]),
                    e2e     |-> Minus(now, from),
                    end     |-> now]]
      /\ Becomes(c, Idle)
      /\ UNCHANGED fifo

(* Mutant: the time in the system starts with the service.                 *)
FinishFromStart(c) == Complete(c, client[c].start)

Finish(c) == client[c].q # 0 /\ Complete(c, stamp[client[c].q])

ClockNext ==
  \/ Advance \/ Stamp \/ Offer \/ Refresh
  \/ \E c \in CClients : Take(c) \/ Start(c) \/ LookedUp(c) \/ Finish(c)

ClockSpec == ClockInit /\ [][ClockNext]_clockvars

-----------------------------------------------------------------------------
(* Properties                                                              *)

Recorded == {q \in DOMAIN rec : rec[q] # NoRecord}

(* No duration wraps, and the parts add up to the whole: lookup and        *)
(* polluter to service, queue and service to end-to-end (bench.cpp:        *)
(* 246-252, 312-320), whichever threads read the clock.                    *)
DurationsAddUp ==
  /\ \A q \in Recorded :
       LET r == rec[q]
       IN  /\ r.e2e <= MaxTime
           /\ r.e2e = r.queue + r.service
           /\ r.service = r.lookup + r.poll
  /\ \A q \in DOMAIN lag : lag[q] <= MaxTime

(* The time from when a query was due until its end is its lateness plus   *)
(* its end-to-end time, unless it met a full queue: the refreshed time     *)
(* stamp (bench.cpp:569) then hides its wait for room from both.           *)
ResponseAccounted ==
  \A q \in Recorded :
    LET seen == lag[q] + rec[q].e2e
    IN  IF q \in blocked THEN seen <= rec[q].end - arrival[q]
        ELSE seen = rec[q].end - arrival[q]

(* The producer is sequential: a query is not offered before the one that  *)
(* waited for room is in the queue.  So a wait that its own query hides    *)
(* shows in the lateness that main checks (bench.cpp:951-954), but only if *)
(* the next query was due by then; if not, no measurement shows it.        *)
WaitDelaysNext ==
  \A q \in blocked :
    q + 1 < n => arrival[q + 1] + lag[q + 1] >= stamp[q]

=============================================================================
