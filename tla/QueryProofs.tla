---------------------------- MODULE QueryProofs -----------------------------
(***************************************************************************)
(* What a query asks of a thread, for any threads, schedules, keys and     *)
(* sizes: when it is due, the walk of the workload over its buffer, and the *)
(* call of the index through its adapter.  The parts share no state; each  *)
(* section has an inductive invariant of its own.                          *)
(***************************************************************************)
EXTENDS ArrivalSchedule, Workload, Adapters, DPTree, TLAPS

(* ArrivalSchedule: the timers of the modulated rates.                     *)

(* A timer of the given period is due at a multiple of it, the first after *)
(* now or one that is already due.                                         *)
OnGrid(period, due, moment) ==
  \E k \in Nat : due = (k + 1) * period /\ k * period <= moment

(* Both timers stay on the grid of their periods, and the clock only runs  *)
(* forward.                                                                *)
SchedInv ==
  /\ p \in Shapes /\ t \in Nat
  /\ cur_level \in Levels /\ burst_mult \in Mults \cup {1} /\ burst_until \in Int
  /\ p.level > 0 => OnGrid(p.level, next_level_at, t)
  /\ p.bursts => OnGrid(p.tick, next_burst_at, t)

(* A timer that is due moves to the next multiple.                         *)
LEMMA GridMoves ==
  ASSUME NEW period \in Nat, NEW due, NEW moment \in Nat, OnGrid(period, due, moment), moment >= due
  PROVE  OnGrid(period, due + period, moment)
<1>1. PICK k \in Nat : due = (k + 1) * period /\ k * period <= moment
  BY DEF OnGrid
<1>2. k + 1 \in Nat /\ (k + 1 + 1) * period = (k + 1) * period + period
  OBVIOUS
<1>3. (k + 1) * period <= moment
  BY <1>1
<1> QED
  BY <1>1, <1>2, <1>3 DEF OnGrid

(* Time passes under a timer.                                              *)
LEMMA GridWaits ==
  ASSUME NEW period \in Nat, NEW due, NEW moment \in Nat, NEW later \in Nat,
         OnGrid(period, due, moment), moment <= later
  PROVE  OnGrid(period, due, later)
<1>1. PICK k \in Nat : due = (k + 1) * period /\ k * period <= moment
  BY DEF OnGrid
<1>2. k * period \in Nat
  OBVIOUS
<1>3. k * period <= later
  BY <1>1, <1>2
<1> QED
  BY <1>1, <1>3 DEF OnGrid

(* A timer that is not due is at the first multiple after now.             *)
LEMMA GridIsNext ==
  ASSUME NEW period \in Nat \ {0}, NEW due, NEW moment \in Nat,
         OnGrid(period, due, moment), moment < due
  PROVE  due = (moment \div period + 1) * period
<1>1. PICK k \in Nat : due = (k + 1) * period /\ k * period <= moment
  BY DEF OnGrid
<1> DEFINE q == moment \div period
           r == moment % period
<1>2. q \in Nat /\ r \in 0 .. period - 1 /\ moment = q * period + r
  OBVIOUS
<1> HIDE DEF q, r
<1>3. k = q
  <2>1. CASE k < q
    <3>1. (k + 1) * period <= q * period
      BY <1>2, <2>1
    <3> QED
      BY <1>1, <1>2, <3>1
  <2>2. CASE k > q
    <3>1. k * period >= (q + 1) * period
      BY <1>2, <2>2
    <3>2. (q + 1) * period = q * period + period
      BY <1>2
    <3> QED
      BY <1>1, <1>2, <3>1, <3>2
  <2> QED
    BY <1>2, <2>1, <2>2
<1> QED
  BY <1>1, <1>3 DEF q

(* The gap of an arrival is a natural number.                              *)
LEMMA GapNat ==
  ASSUME SchedInv, NEW sinmod \in SinMods, NEW s \in Draws
  PROVE  next_ns(s, lambda_at(sinmod)) \in Nat
<1> DEFINE m == IF t < burst_until THEN burst_mult ELSE 1
           x == cur_level * sinmod * m
           u == 1
           M == {u, x}
<1>1. cur_level \in Nat /\ sinmod \in Nat /\ m \in Nat /\ s \in Nat /\ MaxGap \in Nat
  BY ScheduleAssumption DEF SchedInv
<1> HIDE DEF m
<1>2. x \in Nat
  BY <1>1
<1> HIDE DEF x
<1>3. lambda_at(sinmod) = Max(M)
  BY DEF lambda_at, m, x
<1>4. Max(M) \in M /\ Max(M) >= u
  <2>1. \E y \in M : \A z \in M : y >= z
    <3>1. CASE x >= u
      BY <1>2, <3>1
    <3>2. CASE u >= x
      BY <1>2, <3>2
    <3> QED
      BY <1>2, <3>1, <3>2
  <2> QED
    BY <2>1 DEF Max
<1> DEFINE rate == Max(M)
<1>5. rate \in Nat /\ rate >= 1
  BY <1>2, <1>4
<1> HIDE DEF rate
<1> DEFINE g == s \div rate
           G == {g, MaxGap}
<1>6. g \in Nat
  BY <1>1, <1>5
<1> HIDE DEF g
<1>7. Min(G) \in G
  <2>1. \E y \in G : \A z \in G : y <= z
    <3>1. CASE g >= MaxGap
      BY <1>1, <1>6, <3>1
    <3>2. CASE MaxGap >= g
      BY <1>1, <1>6, <3>2
    <3> QED
      BY <1>1, <1>6, <3>1, <3>2
  <2> QED
    BY <2>1 DEF Min
<1>8. next_ns(s, lambda_at(sinmod)) = Min(G)
  BY <1>3 DEF next_ns, g, rate
<1> QED
  BY <1>1, <1>6, <1>7, <1>8

(* The timers start one period after 0.                                    *)
LEMMA SchedStarts ==
  ASSUME SchedInit
  PROVE  SchedInv
<1>1. p.level \in Nat /\ p.tick \in Nat
  BY ScheduleAssumption DEF SchedInit
<1>2. \A period \in Nat : OnGrid(period, period, 0)
  <2> SUFFICES ASSUME NEW period \in Nat PROVE OnGrid(period, period, 0)
    OBVIOUS
  <2>1. period = (0 + 1) * period /\ 0 * period <= 0
    OBVIOUS
  <2> QED
    BY <2>1 DEF OnGrid
<1> QED
  BY <1>1, <1>2 DEF SchedInit, SchedInv

(* For any shape, levels, gaps and number of queries, both timers of       *)
(* lambda_at are due at the first multiple of their period after the last  *)
(* arrival once they have caught up with it.                               *)
THEOREM TimersKeepTime == SchedSpec => []TimersOnTime
<1>1. SchedInit => SchedInv
  BY SchedStarts
<1>2. ASSUME SchedInv, [SchedNext]_schedvars PROVE SchedInv'
  <2>1. p.level \in Nat /\ p.tick \in Nat
    BY <1>2, ScheduleAssumption DEF SchedInv
  <2>2. CASE LevelShift
    <3>1. p.level > 0 => OnGrid(p.level, next_level_at + p.level, t)
      BY <1>2, <2>1, <2>2, GridMoves DEF SchedInv, LevelShift, ShiftLevel
    <3> QED
      BY <1>2, <2>2, <3>1 DEF SchedInv, LevelShift, ShiftLevel
  <2>3. CASE BurstTick
    <3>1. p.bursts => OnGrid(p.tick, next_burst_at + p.tick, t)
      BY <1>2, <2>1, <2>3, GridMoves DEF SchedInv, BurstTick, Tick
    <3>2. burst_until' \in Int /\ burst_mult' \in Mults \cup {1}
      BY <1>2, <2>3, ScheduleAssumption DEF SchedInv, BurstTick, Tick
    <3>3. next_burst_at' = next_burst_at + p.tick /\ UNCHANGED <<p, t, cur_level, next_level_at>>
      BY <2>3 DEF BurstTick, Tick
    <3> QED
      BY <1>2, <3>1, <3>2, <3>3 DEF SchedInv
  <2>4. CASE Arrive
    <3>1. PICK gap \in Nat : t' = t + gap
      BY <1>2, <2>4, GapNat DEF Arrive
    <3>2. t' \in Nat /\ t <= t' /\ t \in Nat
      BY <1>2, <3>1 DEF SchedInv
    <3>3. UNCHANGED <<p, cur_level, next_level_at, burst_until, burst_mult, next_burst_at>>
      BY <2>4 DEF Arrive, traffic
    <3>4. p.level > 0 => OnGrid(p.level, next_level_at, t')
      BY <1>2, <2>1, <3>2, GridWaits DEF SchedInv
    <3>5. p.bursts => OnGrid(p.tick, next_burst_at, t')
      BY <1>2, <2>1, <3>2, GridWaits DEF SchedInv
    <3> QED
      BY <1>2, <3>2, <3>3, <3>4, <3>5 DEF SchedInv
  <2>5. CASE UNCHANGED schedvars
    BY <1>2, <2>5 DEF SchedInv, schedvars, traffic
  <2> QED
    BY <1>2, <2>2, <2>3, <2>4, <2>5 DEF SchedNext
<1>3. ASSUME SchedInv PROVE TimersOnTime
  <2> SUFFICES ASSUME t < next_level_at, t < next_burst_at
               PROVE  /\ p.level > 0 => next_level_at = (t \div p.level + 1) * p.level
                      /\ p.bursts => next_burst_at = (t \div p.tick + 1) * p.tick
    BY DEF TimersOnTime
  <2>1. p.level \in Nat /\ p.tick \in Nat /\ t \in Nat
    BY <1>3, ScheduleAssumption DEF SchedInv
  <2>2. ASSUME p.level > 0 PROVE next_level_at = (t \div p.level + 1) * p.level
    <3>1. p.level \in Nat \ {0} /\ OnGrid(p.level, next_level_at, t)
      BY <1>3, <2>1, <2>2 DEF SchedInv
    <3> QED
      BY <2>1, <3>1, GridIsNext
  <2>3. ASSUME p.bursts PROVE next_burst_at = (t \div p.tick + 1) * p.tick
    <3>1. OnGrid(p.tick, next_burst_at, t)
      BY <1>3, <2>3 DEF SchedInv
    <3>2. p.tick # 0
      BY <2>1, <3>1 DEF OnGrid
    <3> QED
      BY <2>1, <3>1, <3>2, GridIsNext
  <2> QED
    BY <2>2, <2>3
<1> QED
  BY <1>1, <1>2, <1>3, PTL DEF SchedSpec

-----------------------------------------------------------------------------
(* Workload: the walks over the buffer that the constructor laid out.      *)

(* The larger and the smaller of two naturals.                             *)
LEMMA OfTwo ==
  ASSUME NEW x \in Nat, NEW y \in Nat
  PROVE  /\ Max({x, y}) \in Nat /\ Max({x, y}) >= x /\ Max({x, y}) >= y
         /\ Min({x, y}) \in Nat
<1> DEFINE M == {x, y}
<1>1. \E v \in M : \A z \in M : v >= z
  <2>1. CASE x >= y
    BY <2>1
  <2>2. CASE y >= x
    BY <2>2
  <2> QED
    BY <2>1, <2>2
<1>2. \E v \in M : \A z \in M : v <= z
  <2>1. CASE x >= y
    BY <2>1
  <2>2. CASE y >= x
    BY <2>2
  <2> QED
    BY <2>1, <2>2
<1>3. Max(M) \in M /\ \A z \in M : Max(M) >= z
  BY <1>1 DEF Max
<1>4. Min(M) \in M
  BY <1>2 DEF Min
<1> QED
  BY <1>3, <1>4

(* What the constructor lays out.                                          *)
LaidOut ==
  /\ work.kind \in Kinds
  /\ work.per_call_bytes \in Nat \ {0} /\ work.total_lines \in Nat \ {0}
  /\ work.lines_per_call \in Nat \ {0}
  /\ work.universe_bytes = work.total_lines * LINE
  /\ work.slots = (work.universe_bytes + work.per_call_bytes - 1) \div work.per_call_bytes
  /\ work.line_perm \in Bijection(0 .. work.total_lines - 1, 0 .. work.total_lines - 1)
  /\ work.offsets \in Bijection(0 .. work.slots - 1, 0 .. work.slots - 1)

WorkInv == LaidOut /\ \A tag \in Tags : touched[tag] = <<>> \/ touched[tag] \in Walks(tag)

(* The constructor rounds the sizes up to a line at least.                 *)
LEMMA ConstructorLaysOut ==
  ASSUME NEW kind \in Kinds, NEW per \in Sizes, NEW universe \in Universes,
         work \in Workloads(kind, per, universe)
  PROVE  LaidOut
<1> DEFINE u        == 1
           per_call == IF per = 0 THEN LINE ELSE per
           whole    == universe \div LINE
           lines    == Max({u, whole})
           bytes    == lines * LINE
           slots    == (bytes + per_call - 1) \div per_call
           part     == per_call \div LINE
           lpc      == Max({u, part})
<1>1. /\ per \in Nat /\ universe \in Nat /\ LINE \in Nat \ {0} /\ u \in Nat /\ u >= 1
      /\ per_call \in Nat \ {0} /\ whole \in Nat
  BY WorkloadAssumption
<1>2. part \in Nat
  <2> HIDE DEF per_call
  <2> QED
    BY <1>1
<1> HIDE DEF whole, part, per_call
<1>3. lines \in Nat \ {0} /\ lpc \in Nat \ {0}
  <2>1. lines \in Nat /\ lines >= u /\ lpc \in Nat /\ lpc >= u
    BY <1>1, <1>2, OfTwo
  <2> HIDE DEF lines, lpc
  <2> QED
    BY <2>1
<1> HIDE DEF lpc
<1>4. slots + 0 = slots
  <2> HIDE DEF lines
  <2>1. bytes \in Nat
    BY <1>1, <1>3
  <2> HIDE DEF bytes
  <2>2. slots \in Int
    BY <1>1, <2>1
  <2> HIDE DEF slots
  <2> QED
    BY <2>2
<1>5. /\ work.kind = kind /\ work.per_call_bytes = per_call /\ work.universe_bytes = bytes
      /\ work.total_lines = lines /\ work.lines_per_call = lpc /\ work.slots = slots
      /\ work.line_perm \in Bijection(0 .. lines - 1, 0 .. lines - 1)
      /\ work.offsets \in Bijection(0 .. slots - 1, 0 .. slots - 1)
  <2>1. work \in [kind : {kind}, per_call_bytes : {per_call}, universe_bytes : {bytes},
                  total_lines : {lines}, lines_per_call : {lpc}, slots : {slots + 0},
                  line_perm : Bijection(0 .. lines - 1, 0 .. lines - 1),
                  offsets : Bijection(0 .. (slots + 0) - 1, 0 .. (slots + 0) - 1)]
    BY Zenon DEF Workloads, Layouts, per_call, whole, part, lpc
  <2> HIDE DEF slots, lines, bytes
  <2> QED
    BY <1>4, <2>1
<1> HIDE DEF lines, slots
<1> QED
  BY <1>1, <1>3, <1>5 DEF LaidOut, slots

(* A word of a line of the buffer.                                         *)
LEMMA LineInBuffer ==
  ASSUME NEW lines \in Nat, NEW h \in 0 .. lines - 1
  PROVE  h * LINE >= 0 /\ h * LINE + WORD <= lines * LINE /\ h * LINE \in Nat
<1>1. LINE \in Nat /\ WORD \in Nat /\ WORD <= LINE /\ h \in Nat
  BY WorkloadAssumption
<1>2. (h + 1) * LINE <= lines * LINE
  BY <1>1
<1>3. (h + 1) * LINE = h * LINE + LINE /\ h * LINE \in Nat /\ lines * LINE \in Nat
  BY <1>1
<1> QED
  BY <1>1, <1>2, <1>3

(* Two multiples of the word are a word apart.                             *)
LEMMA WordsApart ==
  ASSUME NEW x \in Nat, NEW y \in Nat, x % WORD = 0, y % WORD = 0, x < y
  PROVE  x + WORD <= y
<1>1. WORD \in Nat \ {0}
  BY WorkloadAssumption
<1> DEFINE k == x \div WORD
           l == y \div WORD
<1>2. k \in Nat /\ l \in Nat /\ x = k * WORD /\ y = l * WORD
  BY <1>1
<1> HIDE DEF k, l
<1>3. k < l
  <2>1. ASSUME k >= l PROVE FALSE
    <3>1. k * WORD >= l * WORD
      BY <1>1, <1>2, <2>1
    <3> QED
      BY <1>2, <3>1
  <2> QED
    BY <1>2, <2>1
<1>4. (k + 1) * WORD <= l * WORD /\ (k + 1) * WORD = k * WORD + WORD
  BY <1>1, <1>2, <1>3
<1> QED
  BY <1>2, <1>4

(* Steps of whole words stay inside an object of whole words.              *)
LEMMA StepInObject ==
  ASSUME NEW per \in Nat \ {0}, per % WORD = 0, NEW step \in {WORD, LINE},
         NEW j \in 1 .. (per + step - 1) \div step
  PROVE  (j - 1) * step \in Nat /\ (j - 1) * step + WORD <= per
<1>1. WORD \in Nat \ {0} /\ LINE \in Nat \ {0} /\ LINE % WORD = 0
  BY WorkloadAssumption
<1>2. step \in Nat \ {0} /\ step % WORD = 0
  BY <1>1
<1> DEFINE h == per + step - 1
           q == h \div step
           r == h % step
<1>3. h \in Nat
  BY <1>2
<1>4. q \in Nat /\ r \in 0 .. step - 1 /\ h = q * step + r
  <2> HIDE DEF h
  <2> QED
    BY <1>2, <1>3
<1>5. j \in Nat /\ j >= 1 /\ j <= q
  BY <1>4
<1> HIDE DEF q, r
<1>6. j * step <= q * step
  BY <1>2, <1>4, <1>5
<1>7. j * step = (j - 1) * step + step /\ (j - 1) * step \in Nat /\ q * step \in Nat
  BY <1>2, <1>4, <1>5
<1>8. (j - 1) * step < per
  BY <1>2, <1>4, <1>6, <1>7
<1>9. ((j - 1) * step) % WORD = 0
  <2> DEFINE k == step \div WORD
             m == j - 1
  <2>1. k \in Nat /\ step = k * WORD /\ m \in Nat
    BY <1>1, <1>2, <1>5
  <2> HIDE DEF k, m
  <2>2. m * step = (m * k) * WORD /\ m * k \in Nat
    BY <1>1, <2>1
  <2>3. \A x \in Nat : (x * WORD) % WORD = 0
    BY <1>1
  <2> QED
    BY <2>2, <2>3 DEF m
<1> QED
  BY <1>7, <1>8, <1>9, WordsApart

(* Quotient and remainder.                                                 *)
LEMMA DivMod ==
  ASSUME NEW x \in Nat, NEW y \in Nat \ {0}
  PROVE  x \div y \in Nat /\ x % y \in 0 .. y - 1 /\ x = (x \div y) * y + (x % y)
OBVIOUS

(* There is a slot at least.                                               *)
LEMMA SomeSlot ==
  ASSUME LaidOut
  PROVE  work.universe_bytes \in Nat \ {0} /\ work.slots \in Nat \ {0}
<1> DEFINE per == work.per_call_bytes
           u   == work.universe_bytes
           h   == u + per - 1
           s   == h \div per
           r   == h % per
<1>1. per \in Nat \ {0} /\ work.slots = s
  BY DEF LaidOut
<1>2. u \in Nat \ {0}
  <2>1. \A x, y \in Nat \ {0} : x * y \in Nat \ {0}
    OBVIOUS
  <2>2. u = work.total_lines * LINE /\ work.total_lines \in Nat \ {0} /\ LINE \in Nat \ {0}
    BY Zenon, WorkloadAssumption DEF LaidOut
  <2> QED
    BY Zenon, <2>1, <2>2
<1> HIDE DEF per, u
<1>3. h \in Nat /\ h >= per
  BY <1>1, <1>2
<1>4. s \in Nat /\ r \in 0 .. per - 1 /\ h = s * per + r
  <2> HIDE DEF h
  <2> QED
    BY Zenon, <1>1, <1>3, DivMod
<1> HIDE DEF h, s, r
<1>5. s # 0
  <2>1. ASSUME s = 0 PROVE FALSE
    <3>1. s * per = 0
      BY <1>1, <2>1
    <3> QED
      BY <1>1, <1>3, <1>4, <3>1
  <2> QED
    BY <2>1
<1> QED
  BY <1>1, <1>2, <1>4, <1>5 DEF u

(* Objects that divide the buffer have slots for exactly the buffer.       *)
LEMMA SlotsFill ==
  ASSUME LaidOut, work.universe_bytes % work.per_call_bytes = 0
  PROVE  work.slots * work.per_call_bytes = work.universe_bytes
<1> DEFINE per == work.per_call_bytes
           u   == work.universe_bytes
           q   == u \div per
           h   == u + per - 1
<1>1. per \in Nat \ {0} /\ u % per = 0 /\ work.slots = h \div per
  BY DEF LaidOut
<1>2. u \in Nat \ {0}
  BY SomeSlot
<1> HIDE DEF per, u
<1>3. q \in Nat /\ u = q * per
  BY <1>1, <1>2
<1> HIDE DEF q
<1> DEFINE s == h \div per
           r == h % per
<1>4. h \in Nat /\ h = q * per + (per - 1)
  BY <1>1, <1>2, <1>3
<1>5. s \in Nat /\ r \in 0 .. per - 1 /\ h = s * per + r
  <2> HIDE DEF h
  <2> QED
    BY Zenon, <1>1, <1>4, DivMod
<1> HIDE DEF h, s, r
<1>6. s = q
  <2>1. ASSUME s > q PROVE FALSE
    <3>1. s * per >= (q + 1) * per /\ (q + 1) * per = q * per + per
      BY <1>1, <1>3, <1>5, <2>1
    <3> QED
      BY <1>1, <1>3, <1>4, <1>5, <3>1
  <2>2. ASSUME s < q PROVE FALSE
    <3>1. (s + 1) * per <= q * per /\ (s + 1) * per = s * per + per
      BY <1>1, <1>3, <1>5, <2>2
    <3> QED
      BY <1>1, <1>3, <1>4, <1>5, <3>1
  <2> QED
    BY <1>3, <1>5, <2>1, <2>2
<1> QED
  BY <1>1, <1>3, <1>6 DEF u, per, s

(* A walk of Polluter that wraps once goes through lines of the buffer,    *)
(* each once if there are so many.                                         *)
LEMMA PolluterWalk ==
  ASSUME LaidOut, work.lines_per_call <= work.total_lines + 1, NEW tag \in Tags,
         NEW P \in polluter(tag)
  PROVE  /\ DOMAIN P = 1 .. work.lines_per_call
         /\ \A j \in 1 .. work.lines_per_call : InBuffer(P[j])
         /\ work.lines_per_call <= work.total_lines =>
              \A j, l \in 1 .. work.lines_per_call : P[j] = P[l] => j = l
<1> DEFINE lines == work.total_lines
           lpc   == work.lines_per_call
           perm  == work.line_perm
           start == hash(tag) % lines
<1>1. /\ lines \in Nat \ {0} /\ lpc \in Nat \ {0} /\ lpc <= lines + 1
      /\ perm \in Bijection(0 .. lines - 1, 0 .. lines - 1)
      /\ work.universe_bytes = lines * LINE
  BY DEF LaidOut
<1>2. start \in 0 .. lines - 1
  <2>1. hash(tag) \in Nat
    BY WorkloadAssumption DEF hash
  <2> HIDE DEF lines
  <2> QED
    BY <1>1, <2>1
<1>3. /\ \A j \in 1 .. lpc : Wrap(start + j - 1) \in 0 .. lines - 1
      /\ lpc <= lines =>
           \A j, l \in 1 .. lpc : Wrap(start + j - 1) = Wrap(start + l - 1) => j = l
  <2> HIDE DEF start
  <2>1. \A x : Wrap(x) = IF x >= lines THEN x - lines ELSE x
    BY DEF Wrap
  <2> HIDE DEF lines, lpc
  <2>2. ASSUME NEW j \in 1 .. lpc PROVE Wrap(start + j - 1) \in 0 .. lines - 1
    BY <1>1, <1>2, <2>1
  <2>3. ASSUME NEW j \in 1 .. lpc, NEW l \in 1 .. lpc,
               lpc <= lines, Wrap(start + j - 1) = Wrap(start + l - 1)
        PROVE  j = l
    BY <1>1, <1>2, <2>1, <2>3
  <2> QED
    BY <2>2, <2>3
<1>4. /\ \A x \in 0 .. lines - 1 : perm[x] \in 0 .. lines - 1
      /\ \A x, y \in 0 .. lines - 1 : perm[x] = perm[y] => x = y
  BY Zenon, <1>1 DEF Bijection, Injection, IsInjective
<1>5. DOMAIN P = 1 .. lpc /\ \A j \in 1 .. lpc : P[j] = perm[Wrap(start + j - 1)] * LINE
  <2>1. PICK f \in [1 .. lpc -> 0 .. lines] :
          /\ \A j \in 1 .. lpc : f[j] \in Line(Wrap(start + j - 1))
          /\ P = [j \in 1 .. lpc |-> f[j] * LINE]
    BY Zenon DEF polluter
  <2>2. \A x \in 0 .. lines - 1 : Line(x) = {perm[x]}
    <3>1. \A x \in 0 .. lines - 1 : x < lines
      <4> HIDE DEF lines
      <4> QED
        BY <1>1
    <3> QED
      BY Zenon, <3>1 DEF Line
  <2>3. \A j \in 1 .. lpc : f[j] = perm[Wrap(start + j - 1)]
    <3> HIDE DEF start, lpc, lines, perm
    <3> QED
      BY <1>3, <2>1, <2>2
  <2> HIDE DEF start, lpc, lines, perm
  <2> QED
    BY <2>1, <2>3
<1> HIDE DEF perm, start, lpc, lines
<1>6. ASSUME NEW j \in 1 .. lpc
      PROVE  InBuffer(P[j])
  <2>1. perm[Wrap(start + j - 1)] \in 0 .. lines - 1
    BY <1>3, <1>4
  <2> QED
    BY <1>1, <1>5, <2>1, LineInBuffer DEF InBuffer
<1>7. ASSUME NEW j \in 1 .. lpc, NEW l \in 1 .. lpc, lpc <= lines, P[j] = P[l]
      PROVE  j = l
  <2> DEFINE v == perm[Wrap(start + j - 1)]
             w == perm[Wrap(start + l - 1)]
  <2>1. v \in 0 .. lines - 1 /\ w \in 0 .. lines - 1
    BY <1>3, <1>4
  <2>2. v * LINE = w * LINE
    BY <1>5, <1>7
  <2>3. v = w
    <3>1. \A x, y \in Nat : \A c \in Nat \ {0} : x * c = y * c => x = y
      OBVIOUS
    <3>2. v \in Nat /\ w \in Nat
      BY <1>1, <2>1
    <3> HIDE DEF v, w
    <3> QED
      BY <2>2, <3>1, <3>2, WorkloadAssumption
  <2> QED
    BY <1>3, <1>4, <1>7, <2>3
<1> QED
  BY <1>5, <1>6, <1>7 DEF lpc, lines

(* An object lies in its slot, between its first byte and its last.        *)
LEMMA PayloadWalk ==
  ASSUME LaidOut, work.per_call_bytes % WORD = 0, NEW tag \in Tags,
         NEW step \in {WORD, LINE},
         NEW j \in 1 .. (work.per_call_bytes + step - 1) \div step
  PROVE  /\ tag % work.slots \in 0 .. work.slots - 1
         /\ Slot(tag) \in Nat
         /\ Payload(tag, step)[j] \in Nat
         /\ Slot(tag) <= Payload(tag, step)[j]
         /\ Payload(tag, step)[j] + WORD <= Slot(tag) + work.per_call_bytes
         /\ Slot(tag) + work.per_call_bytes <= work.slots * work.per_call_bytes
<1> DEFINE per   == work.per_call_bytes
           slots == work.slots
           o     == work.offsets[tag % slots]
           x     == (j - 1) * step
<1>1. /\ per \in Nat \ {0} /\ per % WORD = 0 /\ slots \in Nat \ {0}
      /\ work.offsets \in Bijection(0 .. slots - 1, 0 .. slots - 1)
  BY SomeSlot DEF LaidOut
<1>2. tag % slots \in 0 .. slots - 1
  <2>1. tag \in Nat
    BY WorkloadAssumption
  <2> HIDE DEF slots
  <2> QED
    BY <1>1, <2>1
<1>3. o \in 0 .. slots - 1
  BY <1>1, <1>2 DEF Bijection, Injection
<1>4. Slot(tag) = o * per /\ Payload(tag, step)[j] = Slot(tag) + x
  BY DEF Slot, Payload
<1>5. x \in Nat /\ x + WORD <= per
  BY <1>1, StepInObject
<1> HIDE DEF o, x, per, slots
<1>6. o * per \in Nat /\ o * per + per <= slots * per
  <2>1. o \in Nat /\ o + 1 <= slots
    BY <1>1, <1>3
  <2>2. (o + 1) * per <= slots * per /\ (o + 1) * per = o * per + per
    BY <1>1, <2>1
  <2> QED
    BY <1>1, <2>1, <2>2
<1>7. WORD \in Nat
  BY WorkloadAssumption
<1> DEFINE y == o * per
<1>8. y \in Nat /\ Slot(tag) = y /\ Payload(tag, step)[j] = y + x
  BY <1>4, <1>6
<1> HIDE DEF y
<1>9. y + x \in Nat /\ y <= y + x /\ (y + x) + WORD <= y + per
  BY <1>1, <1>5, <1>7, <1>8
<1> QED
  BY <1>1, <1>2, <1>4, <1>6, <1>8, <1>9 DEF per, slots

(* Every call leaves the walk of its tag.                                  *)
THEOREM WorkInvariant == WSpec => []WorkInv
<1>1. ASSUME WInit PROVE WorkInv
  <2>1. LaidOut
    BY <1>1, ConstructorLaysOut DEF WInit
  <2>2. \A tag \in Tags : touched[tag] = <<>>
    BY <1>1 DEF WInit
  <2> QED
    BY <2>1, <2>2 DEF WorkInv
<1>2. ASSUME WorkInv, NEW tag \in Tags, run(tag) PROVE WorkInv'
  <2>1. work' = work
    BY <1>2 DEF run
  <2>2. LaidOut'
    BY <1>2, <2>1 DEF WorkInv, LaidOut
  <2>3. \A x : Walks(x)' = Walks(x)
    BY <2>1 DEF Walks, polluter, object_access, storage_stack, Payload, Slot, Wrap, Line
  <2>4. PICK walk \in Walks(tag) : touched' = [touched EXCEPT ![tag] = walk]
    BY Zenon, <1>2 DEF run
  <2>5. \A x \in Tags : touched'[x] = touched[x] \/ touched'[x] \in Walks(x)
    BY <2>4
  <2> QED
    BY Zenon, <1>2, <2>2, <2>3, <2>5 DEF WorkInv
<1>3. ASSUME WorkInv, UNCHANGED workvars PROVE WorkInv'
  <2>1. work' = work /\ touched' = touched
    BY <1>3 DEF workvars
  <2>2. \A x : Walks(x)' = Walks(x)
    BY <2>1 DEF Walks, polluter, object_access, storage_stack, Payload, Slot, Wrap, Line
  <2> QED
    BY <1>3, <2>1, <2>2 DEF WorkInv, LaidOut
<1>4. WorkInv /\ [WNext]_workvars => WorkInv'
  BY <1>2, <1>3 DEF WNext
<1> QED
  BY <1>1, <1>4, PTL DEF WSpec

(* Which walk it is.                                                       *)
LEMMA WalkByKind ==
  ASSUME LaidOut
  PROVE  \/ work.kind = "polluter" /\ \A x : Walks(x) = polluter(x)
         \/ /\ work.kind # "polluter"
            /\ \E step \in {WORD, LINE} : \A x : Walks(x) = {Payload(x, step)}
  BY Zenon DEF LaidOut, Kinds, Walks, object_access, storage_stack

(* For all sizes that fit, shuffles and tags, every word that a call       *)
(* touches lies in the buffer.                                             *)
THEOREM TouchesStayInBuffer == WSpec => []TouchesInBuffer
<1>1. ASSUME WorkInv, SizesFit, NEW tag \in Tags, NEW a \in Range(touched[tag])
      PROVE  InBuffer(a)
  <2>1. LaidOut /\ (touched[tag] = <<>> \/ touched[tag] \in Walks(tag))
    BY <1>1 DEF WorkInv
  <2>2. touched[tag] \in Walks(tag)
    BY <1>1, <2>1 DEF Range
  <2>3. CASE work.kind = "polluter"
    <3>1. touched[tag] \in polluter(tag) /\ work.lines_per_call <= work.total_lines + 1
      BY <1>1, <2>1, <2>2, <2>3, WalkByKind DEF SizesFit
    <3>2. PICK j \in DOMAIN touched[tag] : a = touched[tag][j]
      BY Zenon, <1>1 DEF Range
    <3>3. /\ DOMAIN touched[tag] = 1 .. work.lines_per_call
          /\ \A l \in 1 .. work.lines_per_call : InBuffer(touched[tag][l])
      BY Zenon, <2>1, <3>1, PolluterWalk
    <3> QED
      BY Zenon, <3>2, <3>3
  <2>4. CASE work.kind # "polluter"
    <3>1. PICK step \in {WORD, LINE} : touched[tag] = Payload(tag, step)
      BY <2>1, <2>2, <2>4, WalkByKind
    <3>2. PICK j \in 1 .. (work.per_call_bytes + step - 1) \div step :
            a = Payload(tag, step)[j]
      BY <1>1, <3>1 DEF Range, Payload
    <3>3. /\ a \in Nat /\ Slot(tag) \in Nat
          /\ a + WORD <= Slot(tag) + work.per_call_bytes
          /\ Slot(tag) + work.per_call_bytes <= work.universe_bytes
      BY <1>1, <2>1, <2>4, <3>2, PayloadWalk, SlotsFill DEF SizesFit
    <3>4. WORD \in Nat /\ work.per_call_bytes \in Nat /\ work.universe_bytes \in Nat
      <4>1. /\ work.per_call_bytes \in Nat /\ work.total_lines \in Nat
            /\ work.universe_bytes = work.total_lines * LINE
        BY <2>1 DEF LaidOut
      <4>2. WORD \in Nat /\ LINE \in Nat
        BY WorkloadAssumption
      <4>3. \A x, y \in Nat : x * y \in Nat
        OBVIOUS
      <4> QED
        BY Zenon, <4>1, <4>2, <4>3
    <3> QED
      BY <3>3, <3>4 DEF InBuffer
  <2> QED
    BY <2>3, <2>4
<1>2. WorkInv => TouchesInBuffer
  BY <1>1 DEF TouchesInBuffer
<1> QED
  BY <1>2, WorkInvariant, PTL

(* Tags of one slot have one object; those of two slots have objects that  *)
(* do not overlap.                                                         *)
LEMMA PayloadsApart ==
  ASSUME LaidOut, NEW x \in Tags, NEW y \in Tags, NEW step \in {WORD, LINE}
  PROVE  IF x % work.slots = y % work.slots THEN Payload(x, step) = Payload(y, step)
         ELSE work.per_call_bytes % WORD = 0 =>
                \A a \in Range(Payload(x, step)), b \in Range(Payload(y, step)) :
                  a + WORD <= b \/ b + WORD <= a
<1>1. CASE x % work.slots = y % work.slots
  BY <1>1 DEF Payload, Slot
<1>2. CASE x % work.slots # y % work.slots
  <2> SUFFICES ASSUME work.per_call_bytes % WORD = 0,
                      NEW a \in Range(Payload(x, step)), NEW b \in Range(Payload(y, step))
               PROVE  a + WORD <= b \/ b + WORD <= a
    BY <1>2
  <2> DEFINE S == 1 .. (work.per_call_bytes + step - 1) \div step
             per == work.per_call_bytes
             u == work.offsets[x % work.slots]
             v == work.offsets[y % work.slots]
  <2>1. PICK j \in S : a = Payload(x, step)[j]
    BY DEF Range, Payload
  <2>2. PICK l \in S : b = Payload(y, step)[l]
    BY DEF Range, Payload
  <2>3. /\ a \in Nat /\ x % work.slots \in 0 .. work.slots - 1
        /\ Slot(x) <= a /\ a + WORD <= Slot(x) + per
    BY <2>1, PayloadWalk
  <2>4. /\ b \in Nat /\ y % work.slots \in 0 .. work.slots - 1
        /\ Slot(y) <= b /\ b + WORD <= Slot(y) + per
    BY <2>2, PayloadWalk
  <2>5. Slot(x) = u * per /\ Slot(y) = v * per /\ per \in Nat /\ work.slots \in Nat
    BY SomeSlot DEF Slot, LaidOut
  <2>6. u # v /\ u \in 0 .. work.slots - 1 /\ v \in 0 .. work.slots - 1
    BY Zenon, <1>2, <2>3, <2>4 DEF LaidOut, Bijection, Injection, IsInjective
  <2> HIDE DEF u, v, per, S
  <2>7. u \in Nat /\ v \in Nat /\ WORD \in Nat /\ WORD >= 1
    BY <2>5, <2>6, WorkloadAssumption
  <2>8. \A m, h, c \in Nat : m < h => m * c + c <= h * c
    <3> SUFFICES ASSUME NEW m \in Nat, NEW h \in Nat, NEW c \in Nat, m < h
                 PROVE  m * c + c <= h * c
      OBVIOUS
    <3>1. (m + 1) * c <= h * c /\ (m + 1) * c = m * c + c
      OBVIOUS
    <3> QED
      BY <3>1
  <2>9. u * per \in Nat /\ v * per \in Nat
    BY <2>5, <2>7
  <2>10. CASE u < v
    <3>1. u * per + per <= v * per
      BY <2>5, <2>7, <2>8, <2>10
    <3> QED
      BY <2>3, <2>4, <2>5, <2>7, <2>9, <3>1
  <2>11. CASE v < u
    <3>1. v * per + per <= u * per
      BY <2>5, <2>7, <2>8, <2>11
    <3> QED
      BY <2>3, <2>4, <2>5, <2>7, <2>9, <3>1
  <2> QED
    BY <2>6, <2>7, <2>10, <2>11
<1> QED
  BY <1>1, <1>2

(* For all sizes, shuffles and tags, Polluter touches as many lines as its *)
(* calls are long if the buffer has them; the others read the same object  *)
(* for the same slot and, in whole words, objects that share no byte for   *)
(* different slots.                                                        *)
THEOREM WalksKeepApart == WSpec => []WalksSpread
<1>1. ASSUME WorkInv, NEW x \in Tags, NEW y \in Tags,
             touched[x] # <<>>, touched[y] # <<>>
      PROVE  IF work.kind = "polluter"
             THEN work.lines_per_call <= work.total_lines =>
                    DOMAIN touched[x] = 1 .. work.lines_per_call /\ IsInjective(touched[x])
             ELSE IF x % work.slots = y % work.slots THEN touched[x] = touched[y]
             ELSE work.per_call_bytes % WORD = 0 =>
                    \A a \in Range(touched[x]), b \in Range(touched[y]) :
                      a + WORD <= b \/ b + WORD <= a
  <2>1. LaidOut /\ touched[x] \in Walks(x) /\ touched[y] \in Walks(y)
    BY <1>1 DEF WorkInv
  <2>2. CASE work.kind = "polluter"
    <3> SUFFICES ASSUME work.lines_per_call <= work.total_lines
                 PROVE  DOMAIN touched[x] = 1 .. work.lines_per_call /\ IsInjective(touched[x])
      BY <2>2
    <3>1. touched[x] \in polluter(x)
      BY <2>1, <2>2, WalkByKind
    <3>2. work.lines_per_call <= work.total_lines + 1
      <4>1. \A m, h \in Nat : m <= h => m <= h + 1
        OBVIOUS
      <4> QED
        BY Zenon, <2>1, <4>1 DEF LaidOut
    <3>3. /\ DOMAIN touched[x] = 1 .. work.lines_per_call
          /\ \A j, l \in 1 .. work.lines_per_call : touched[x][j] = touched[x][l] => j = l
      BY Zenon, <2>1, <3>1, <3>2, PolluterWalk
    <3> QED
      BY Zenon, <3>3 DEF IsInjective
  <2>3. CASE work.kind # "polluter"
    <3>1. PICK step \in {WORD, LINE} : \A z : Walks(z) = {Payload(z, step)}
      BY <2>1, <2>3, WalkByKind
    <3>2. touched[x] = Payload(x, step) /\ touched[y] = Payload(y, step)
      BY <2>1, <3>1
    <3> QED
      BY Zenon, <2>1, <2>3, <3>2, PayloadsApart
  <2> QED
    BY <2>2, <2>3
<1>2. WorkInv => WalksSpread
  BY <1>1 DEF WalksSpread
<1> QED
  BY <1>2, WorkInvariant, PTL

-----------------------------------------------------------------------------
(* Adapters: a call is atomic under the lock policy of the driver.         *)

(* The setups that the result is about.                                    *)
Overwriting == \A s \in Setups : s[1] \notin {"fastfair", "lbtree"}

Trees == {"wbtree", "fptree", "bztree", "utree"}

(* The native calls that may be left of a call.                            *)
Done     == <<>>
One(w)   == <<w>>
DelAdd   == <<"delete", "add">>
Replace  == <<"replace", "add_new">>
Words    == {"find", "none", "range", "put", "delete", "add", "add_new"}
AllLists == {Done, DelAdd, Replace} \cup {One(w) : w \in Words}

(* The same for a call of the operation o.                                 *)
Updating(r) ==
  CASE r = "wbtree" -> {DelAdd, One("add"), Done}
    [] r = "fptree" -> {Replace, One("add_new"), Done}
    [] OTHER        -> {One("put"), Done}

Left(r, o) ==
  CASE o \in {"update", "insert"} -> Updating(r)
    [] o = "delete" -> {One("delete"), Done}
    [] o = "search" -> {One("find"), Done}
    [] OTHER        -> {One("none"), One("range"), Done}

Fresh(todo) == todo \notin {Done, One("add"), One("add_new")}

(* A thread's call: the idle one has nothing to do, a waiting one all.     *)
CallOK(r, m, c) ==
  /\ c \in [at : {"idle", "lock", "inside"}, op : Ops, key : Nat, todo : AllLists, res : Nat]
  /\ c.at = "idle" => c.todo = Done
  /\ c.at = "lock" => Fresh(c.todo)
  /\ c.at # "idle" => /\ c.op \in Sampled(m) /\ c.key \in Loaded
                      /\ c.todo \in Left(r, c.op)
                      /\ c.op # "search" => c.res = 0

(* A key has at most one entry, one that was loaded or written for it.     *)
EntriesOK(k, es) ==
  es \in {<<>>, <<k>>, <<Value(k)>>}

(* Between its two native calls an update of wB+-Tree has taken the key    *)
(* out; one of FPTree has seen no entry, and since then none but its own   *)
(* value can have been stored.                                             *)
HalfOK(c, es) ==
  c.at = "inside" =>
    /\ c.todo = One("add") => es = <<>>
    /\ c.todo = One("add_new") => es \in {<<>>, <<Value(c.key)>>}

(* Who is inside holds the lock in the mode of its operation.              *)
AdapterLockInv ==
  /\ writer = {} \/ readers = {}
  /\ \A i \in Threads :
       pending[i].at = "inside" =>
         /\ LockOf(pending[i].op) = "unique" => writer = {i}
         /\ LockOf(pending[i].op) = "shared" => i \in readers

AInv ==
  /\ setup \in Trees \X {"batch", "poisson"} \X SUBSET Ops
  /\ tree \in [Loaded -> Seq(Nat)]
  /\ DOMAIN pending = Threads /\ pending = [i \in Threads |-> pending[i]]
  /\ \A i \in Threads : CallOK(name, mix, pending[i])
  /\ \A k \in Loaded : EntriesOK(k, tree[k])
  /\ \A i \in Threads : pending[i].at = "inside" => HalfOK(pending[i], tree[pending[i].key])
  /\ AdapterLockInv

-----------------------------------------------------------------------------
(* The lists of native calls are told apart by their lengths and heads.    *)
LEMMA Lists ==
  /\ \A w : One(w) # Done /\ One(w) # DelAdd /\ One(w) # Replace
  /\ \A w, x : One(w) = One(x) => w = x
  /\ Done # DelAdd /\ Done # Replace /\ DelAdd # Replace
  /\ \A w : Head(One(w)) = w /\ Tail(One(w)) = Done
  /\ Head(DelAdd) = "delete" /\ Tail(DelAdd) = One("add")
  /\ Head(Replace) = "replace" /\ Tail(Replace) = One("add_new")
<1>1. /\ Len(Done) = 0 /\ Len(DelAdd) = 2 /\ Len(Replace) = 2 /\ \A w : Len(One(w)) = 1
      /\ DelAdd[1] = "delete" /\ Replace[1] = "replace" /\ \A w : One(w)[1] = w
  BY DEF Done, DelAdd, Replace, One
<1>2. /\ \A w : Head(One(w)) = w /\ Tail(One(w)) = Done
      /\ Head(DelAdd) = "delete" /\ Tail(DelAdd) = One("add")
      /\ Head(Replace) = "replace" /\ Tail(Replace) = One("add_new")
  BY DEF Done, DelAdd, Replace, One
<1>3. \A w : One(w) # Done /\ One(w) # DelAdd /\ One(w) # Replace
  BY <1>1
<1>4. Done # DelAdd /\ Done # Replace /\ DelAdd # Replace
  BY <1>1
<1>5. \A w, x : One(w) = One(x) => w = x
  BY <1>1
<1> QED
  BY <1>2, <1>3, <1>4, <1>5

(* Only an update of wB+-Tree has an insertion left to do, and only one of *)
(* FPTree one that may find the key.                                       *)
LEMMA WhoIsHalfway ==
  ASSUME NEW r, NEW o \in Ops
  PROVE  /\ One("add") \in Left(r, o) => r = "wbtree" /\ o \in {"update", "insert"}
         /\ One("add_new") \in Left(r, o) => r = "fptree" /\ o \in {"update", "insert"}
<1>1. CASE o \in {"update", "insert"}
  <2>1. Left(r, o) = Updating(r)
    BY <1>1 DEF Left
  <2>2. Updating(r) = IF r = "wbtree" THEN {DelAdd, One("add"), Done}
                      ELSE IF r = "fptree" THEN {Replace, One("add_new"), Done}
                      ELSE {One("put"), Done}
    BY DEF Updating
  <2> QED
    BY <1>1, <2>1, <2>2, Lists
<1>2. CASE o = "delete"
  BY <1>2, Lists DEF Left
<1>3. CASE o = "search"
  BY <1>3, Lists DEF Left
<1>4. CASE o = "scan"
  BY <1>4, Lists DEF Left
<1> QED
  BY <1>1, <1>2, <1>3, <1>4 DEF Ops, Writes

(* While an update of wB+-Tree is between its native calls nobody else is  *)
(* inside.                                                                 *)
LEMMA NobodyElse ==
  ASSUME AInv, NEW i \in Threads, pending[i].at = "inside",
         NEW u \in Threads, pending[u].at = "inside", pending[u].todo = One("add")
  PROVE  i = u
<1>1. CallOK(name, mix, pending[u]) /\ CallOK(name, mix, pending[i])
  BY DEF AInv
<1>2. name = "wbtree" /\ pending[u].op \in {"update", "insert"}
  BY <1>1, WhoIsHalfway DEF CallOK
<1>3. pending[u].op \in mix /\ has_writes(mix)
  BY <1>1, <1>2 DEF CallOK, Sampled, has_writes, Writes
<1>4. pending[i].op \in Writes \cup {"search", "scan"}
  BY <1>1 DEF CallOK, Ops
<1>5. CASE NThreads > 1
  <2>1. needs_lock(name, mix, NThreads)
    BY <1>2, <1>3, <1>5 DEF needs_lock, thread_safe
  <2>2. LockOf(pending[u].op) = "unique" /\ LockOf(pending[i].op) \in {"unique", "shared"}
    BY <1>2, <1>4, <2>1 DEF LockOf, BatchLock, ClientLock, Writes
  <2> QED
    BY ZenonT(60), <2>2 DEF AInv, AdapterLockInv
<1>6. CASE ~(NThreads > 1)
  BY <1>6, AdapterAssumption DEF Threads
<1> QED
  BY <1>5, <1>6

-----------------------------------------------------------------------------
(* What the abstract index sees of the calls and of the tree.              *)
Shown(c) == [at |-> Status(c), op |-> c.op, key |-> c.key, res |-> c.res]

CallsOf == [i \in Threads |-> Shown(pending[i])]

HalfwayCall(c, k) == c.at = "inside" /\ c.key = k /\ c.todo = One("add")

Seen(es) == IF es = <<>> THEN 0 ELSE es[1]

MapOf ==
  [k \in Loaded |->
     IF \E u \in Threads : HalfwayCall(pending[u], k) THEN Value(k)
     ELSE Seen(tree[k])]

(* One thread's call changes and the index and the lock policy do not.     *)
LEMMA PendingChanges ==
  ASSUME AInv, NEW i \in Threads, NEW d, pending' = [pending EXCEPT ![i] = d],
         UNCHANGED setup
  PROVE  /\ name' = name /\ mix' = mix
         /\ \A o : LockOf(o)' = LockOf(o)
         /\ pending' = [u \in Threads |-> pending'[u]]
         /\ DOMAIN pending' = Threads
         /\ pending'[i] = d
         /\ \A u \in Threads : u # i => pending'[u] = pending[u]
         /\ CallsOf' = [CallsOf EXCEPT ![i] = Shown(d)]
<1>1. name' = name /\ mix' = mix /\ \A o : LockOf(o)' = LockOf(o)
  BY DEF name, mode, mix, LockOf
<1>2. /\ pending' = [u \in Threads |-> pending'[u]] /\ DOMAIN pending' = Threads
      /\ pending'[i] = d /\ \A u \in Threads : u # i => pending'[u] = pending[u]
  BY DEF AInv
<1>3. CallsOf' = [u \in Threads |-> Shown(pending'[u])]
  BY DEF CallsOf, Shown, Status
<1>4. \A u \in Threads : Shown(pending'[u]) = IF u = i THEN Shown(d) ELSE Shown(pending[u])
  BY <1>2
<1>5. CallsOf' = [u \in Threads |-> IF u = i THEN Shown(d) ELSE Shown(pending[u])]
  BY <1>3, <1>4
<1>6. CallsOf' = [CallsOf EXCEPT ![i] = Shown(d)]
  BY Zenon, <1>5 DEF CallsOf
<1> QED
  BY <1>1, <1>2, <1>6

(* A step that leaves the tree alone, of a call that is not halfway before *)
(* or after it, does not change the map.                                   *)
LEMMA TreeStays ==
  ASSUME AInv, NEW i \in Threads, NEW d, pending' = [pending EXCEPT ![i] = d],
         UNCHANGED <<setup, tree>>,
         \A k : ~HalfwayCall(pending[i], k) /\ ~HalfwayCall(d, k),
         CallOK(name, mix, d), d.at = "inside" => HalfOK(d, tree[d.key]),
         AdapterLockInv'
  PROVE  AInv' /\ MapOf' = MapOf
<1>1. /\ name' = name /\ mix' = mix
      /\ pending' = [u \in Threads |-> pending'[u]] /\ DOMAIN pending' = Threads
      /\ pending'[i] = d /\ \A u \in Threads : u # i => pending'[u] = pending[u]
  BY Zenon, PendingChanges
<1>2. \A u \in Threads : CallOK(name', mix', pending'[u])
  BY <1>1 DEF AInv
<1>3. \A u \in Threads : pending'[u].at = "inside" =>
                           HalfOK(pending'[u], tree'[pending'[u].key])
  BY <1>1 DEF AInv
<1>4. AInv'
  BY <1>1, <1>2, <1>3 DEF AInv
<1>5. \A k : (\E u \in Threads : HalfwayCall(pending'[u], k)) <=>
             (\E u \in Threads : HalfwayCall(pending[u], k))
  BY <1>1
<1>6. MapOf' = MapOf
  BY <1>1, <1>5 DEF MapOf
<1> QED
  BY <1>4, <1>6

(* The native calls of each adapter, method by method.                     *)
LEMMA Plans ==
  ASSUME NEW r \in Trees
  PROVE  /\ Adapter[r]["search"] = One("find")
         /\ Adapter[r]["update"] = IF r = "wbtree" THEN DelAdd
                                   ELSE IF r = "fptree" THEN Replace ELSE One("put")
         /\ Adapter[r]["remove"] = One("delete")
         /\ Adapter[r]["scan"] \in {One("none"), One("range")}
<1>1. CASE r = "wbtree"
  BY <1>1 DEF Adapter, WBTree, One, DelAdd
<1>2. CASE r = "fptree"
  BY <1>2 DEF Adapter, FPTree, One, Replace
<1>3. CASE r = "bztree"
  BY <1>3 DEF Adapter, BzTree, One
<1>4. CASE r = "utree"
  BY <1>4 DEF Adapter, UTree, One
<1> QED
  BY <1>1, <1>2, <1>3, <1>4 DEF Trees

(* A list of one native call, other than the second of an update.          *)
LEMMA OneFresh ==
  ASSUME NEW w \in Words \ {"add", "add_new"}
  PROVE  One(w) \in AllLists /\ Fresh(One(w))
<1>1. One(w) \in AllLists
  BY DEF AllLists
<1>2. One(w) # Done /\ One(w) # One("add") /\ One(w) # One("add_new")
  BY Lists
<1> QED
  BY <1>1, <1>2 DEF Fresh

(* The plan of an adapter is one that may be left, and not yet begun.      *)
LEMMA PlanOK ==
  ASSUME NEW r \in Trees, NEW o \in Ops
  PROVE  /\ Adapter[r][Method(o)] \in Left(r, o) \cap AllLists
         /\ Fresh(Adapter[r][Method(o)])
<1>1. CASE o \in {"update", "insert"}
  <2>1. Method(o) = "update" /\ Left(r, o) = Updating(r)
    BY <1>1 DEF Method, Left
  <2>2. CASE r = "wbtree"
    BY <2>1, <2>2, Plans, Lists DEF Updating, Fresh, AllLists
  <2>3. CASE r = "fptree"
    BY <2>1, <2>3, Plans, Lists DEF Updating, Fresh, AllLists
  <2>4. CASE r \notin {"wbtree", "fptree"}
    <3>1. Adapter[r][Method(o)] = One("put") /\ Left(r, o) = {One("put"), Done}
      BY <2>1, <2>4, Plans DEF Updating
    <3> QED
      BY <3>1, OneFresh DEF Words
  <2> QED
    BY <2>2, <2>3, <2>4
<1>2. CASE o = "delete"
  <2>1. Adapter[r][Method(o)] = One("delete") /\ Left(r, o) = {One("delete"), Done}
    BY <1>2, Plans DEF Method, Left
  <2> QED
    BY <2>1, OneFresh DEF Words
<1>3. CASE o = "search"
  <2>1. Adapter[r][Method(o)] = One("find") /\ Left(r, o) = {One("find"), Done}
    BY <1>3, Plans DEF Method, Left
  <2> QED
    BY <2>1, OneFresh DEF Words
<1>4. CASE o = "scan"
  <2>1. /\ Adapter[r][Method(o)] \in {One("none"), One("range")}
        /\ Left(r, o) = {One("none"), One("range"), Done}
    BY <1>4, Plans DEF Method, Left
  <2> QED
    BY <2>1, OneFresh DEF Words
<1> QED
  BY <1>1, <1>2, <1>3, <1>4 DEF Ops, Writes

(* A call starts.                                                          *)
LEMMA BeginStep ==
  ASSUME AInv, NEW i \in Threads, Begin(i)
  PROVE  /\ AInv' /\ MapOf' = MapOf
         /\ CallsOf[i].at = "idle"
         /\ \E o \in Ops, k \in Loaded :
              CallsOf' = [CallsOf EXCEPT ![i] =
                            [at |-> "called", op |-> o, key |-> k, res |-> 0]]
<1>1. PICK o \in Sampled(mix), k \in Loaded :
        pending' = [pending EXCEPT ![i] = [at |-> "lock", op |-> o, key |-> k,
                      todo |-> Adapter[name][Method(o)], res |-> 0]]
  BY Zenon DEF Begin
<1> DEFINE d == [at |-> "lock", op |-> o, key |-> k,
                 todo |-> Adapter[name][Method(o)], res |-> 0]
<1>2. o \in Ops /\ name \in Trees /\ k \in Nat
  <2>1. name \in Trees /\ mix \subseteq Ops /\ k \in Nat
    BY DEF AInv, name, mix, Loaded
  <2> QED
    BY Zenon, <2>1 DEF Sampled, Ops
<1>3. d.todo \in Left(name, o) \cap AllLists /\ Fresh(d.todo)
  BY <1>2, PlanOK
<1>4. CallOK(name, mix, d)
  BY <1>2, <1>3 DEF CallOK
<1>5. /\ d.at = "lock" /\ pending[i].at = "idle" /\ pending' = [pending EXCEPT ![i] = d]
      /\ UNCHANGED <<setup, tree, lock>>
  BY Zenon, <1>1 DEF Begin
<1>6. Shown(d) = [at |-> "called", op |-> o, key |-> k, res |-> 0]
  BY <1>3 DEF Shown, Status, Fresh, Done, One
<1>7. CallsOf[i].at = "idle"
  BY <1>5 DEF CallsOf, Shown, Status
<1> HIDE DEF d
<1>8. \A x : ~HalfwayCall(pending[i], x) /\ ~HalfwayCall(d, x)
  BY <1>5 DEF HalfwayCall
<1>9. AdapterLockInv'
  <2>1. /\ \A x : LockOf(x)' = LockOf(x)
        /\ pending'[i] = d /\ \A u \in Threads : u # i => pending'[u] = pending[u]
    BY Zenon, <1>5, PendingChanges
  <2> QED
    BY <1>5, <2>1 DEF AInv, AdapterLockInv, lock
<1>10. AInv' /\ MapOf' = MapOf
  BY Zenon, <1>4, <1>5, <1>8, <1>9, TreeStays
<1>11. CallsOf' = [CallsOf EXCEPT ![i] = Shown(d)]
  BY Zenon, <1>5, PendingChanges
<1> QED
  BY Zenon, <1>2, <1>6, <1>7, <1>10, <1>11

(* The thread takes the lock, which the abstract index does not see.       *)
LEMMA AcquireStep ==
  ASSUME AInv, NEW i \in Threads, Acquire(i)
  PROVE  AInv' /\ MapOf' = MapOf /\ CallsOf' = CallsOf
<1> DEFINE c == pending[i]
           d == [c EXCEPT !.at = "inside"]
<1>1. /\ CallOK(name, mix, c) /\ c.at = "lock" /\ TakeLock(i, LockOf(c.op))
      /\ UNCHANGED <<setup, tree>>
  BY DEF Acquire, AInv
<1>2. pending' = [pending EXCEPT ![i] = d]
  BY DEF Acquire
<1>3. CallOK(name, mix, d) /\ Fresh(d.todo) /\ d.at = "inside" /\ d.op = c.op
  BY <1>1 DEF CallOK
<1>4. Shown(d) = Shown(c)
  BY <1>1 DEF CallOK, Shown, Status, Fresh, Done, One
<1> HIDE DEF d
<1>5. /\ \A x : LockOf(x)' = LockOf(x)
      /\ pending'[i] = d /\ \A u \in Threads : u # i => pending'[u] = pending[u]
      /\ CallsOf' = [CallsOf EXCEPT ![i] = Shown(d)]
  BY Zenon, <1>1, <1>2, PendingChanges
<1>6. AdapterLockInv'
  <2>1. writer' = {} \/ readers' = {}
    BY <1>1 DEF TakeLock, AInv, AdapterLockInv, lock
  <2>2. ASSUME NEW u \in Threads, pending'[u].at = "inside", u # i
        PROVE  /\ LockOf(pending'[u].op) = "unique" => writer' = {u}
               /\ LockOf(pending'[u].op) = "shared" => u \in readers'
    BY ZenonT(60), <1>1, <1>5, <2>2 DEF TakeLock, AInv, AdapterLockInv, lock
  <2>3. /\ LockOf(d.op) = "unique" => writer' = {i}
        /\ LockOf(d.op) = "shared" => i \in readers'
    BY <1>1, <1>3 DEF TakeLock
  <2> QED
    BY <1>5, <2>1, <2>2, <2>3 DEF AdapterLockInv
<1>7. \A x : ~HalfwayCall(c, x) /\ ~HalfwayCall(d, x)
  BY <1>1, <1>3 DEF HalfwayCall, Fresh
<1>8. d.at = "inside" => HalfOK(d, tree[d.key])
  BY <1>3 DEF HalfOK, Fresh
<1>9. AInv' /\ MapOf' = MapOf
  BY Zenon, <1>1, <1>2, <1>3, <1>6, <1>7, <1>8, TreeStays
<1>10. CallsOf' = CallsOf
  BY <1>4, <1>5 DEF CallsOf
<1> QED
  BY <1>9, <1>10

(* The call returns.                                                       *)
LEMMA ReturnStep ==
  ASSUME AInv, NEW i \in Threads, Return(i)
  PROVE  /\ AInv' /\ MapOf' = MapOf
         /\ CallsOf[i].at = "done"
         /\ CallsOf' = [CallsOf EXCEPT ![i].at = "idle"]
<1> DEFINE c == pending[i]
           d == [c EXCEPT !.at = "idle"]
<1>1. /\ CallOK(name, mix, c) /\ c.at = "inside" /\ c.todo = Done /\ DropLock(i)
      /\ UNCHANGED <<setup, tree>>
  BY DEF Return, AInv, Done
<1>2. pending' = [pending EXCEPT ![i] = d]
  BY DEF Return
<1>3. CallOK(name, mix, d) /\ d.at = "idle"
  BY <1>1 DEF CallOK
<1>4. Shown(d) = [Shown(c) EXCEPT !.at = "idle"] /\ Shown(c).at = "done"
  BY <1>1 DEF CallOK, Shown, Status, Done
<1> HIDE DEF d
<1>5. /\ \A x : LockOf(x)' = LockOf(x)
      /\ pending'[i] = d /\ \A u \in Threads : u # i => pending'[u] = pending[u]
      /\ CallsOf' = [CallsOf EXCEPT ![i] = Shown(d)]
  BY Zenon, <1>1, <1>2, PendingChanges
<1>6. AdapterLockInv'
  <2>1. writer' = {} \/ readers' = {}
    BY <1>1 DEF DropLock, AInv, AdapterLockInv
  <2>2. ASSUME NEW u \in Threads, pending'[u].at = "inside"
        PROVE  /\ LockOf(pending'[u].op) = "unique" => writer' = {u}
               /\ LockOf(pending'[u].op) = "shared" => u \in readers'
    BY <1>1, <1>3, <1>5, <2>2 DEF DropLock, AInv, AdapterLockInv
  <2> QED
    BY <1>5, <2>1, <2>2 DEF AdapterLockInv
<1>7. \A x : ~HalfwayCall(c, x) /\ ~HalfwayCall(d, x)
  BY <1>1, <1>3, Lists DEF HalfwayCall
<1>8. AInv' /\ MapOf' = MapOf
  BY Zenon, <1>1, <1>2, <1>3, <1>6, <1>7, TreeStays
<1>9. CallsOf[i] = Shown(c) /\ CallsOf' = [CallsOf EXCEPT ![i].at = "idle"]
  BY <1>4, <1>5 DEF CallsOf
<1> QED
  BY <1>4, <1>8, <1>9

-----------------------------------------------------------------------------
(* A key that has an entry has one, a number.                              *)
LEMMA EntryShape ==
  ASSUME NEW k \in Loaded, NEW es, EntriesOK(k, es)
  PROVE  es = <<>> \/ \E e \in Nat : es = <<e>>
<1>1. k \in Nat /\ Value(k) \in Nat
  BY AdapterAssumption DEF Loaded, Value
<1> QED
  BY <1>1 DEF EntriesOK

(* What find returns is what the key is seen to have.                      *)
LEMMA FoundIsSeen ==
  ASSUME NEW k \in Loaded, NEW es, EntriesOK(k, es), NEW e \in Found(es)
  PROVE  e = Seen(es) /\ e \in Nat
<1>1. CASE es = <<>>
  BY <1>1 DEF Found, Seen
<1>2. CASE \E x \in Nat : es = <<x>>
  <2>1. PICK x \in Nat : es = <<x>>
    BY <1>2
  <2>2. es # <<>> /\ es[1] = x /\ DOMAIN es = {1}
    BY <2>1
  <2>3. e = x
    BY <2>2 DEF Found, Range
  <2> QED
    BY <2>2, <2>3 DEF Seen
<1> QED
  BY <1>1, <1>2, EntryShape

(* Deleting an entry leaves none.                                          *)
LEMMA DeleteEmpties ==
  ASSUME NEW k \in Loaded, NEW es, EntriesOK(k, es)
  PROVE  After("delete", k, es) = <<>>
<1>1. After("delete", k, es) = IF es = <<>> THEN es ELSE Tail(es)
  BY DEF After, Deleted
<1>2. \A x \in Nat : Tail(<<x>>) = <<>>
  OBVIOUS
<1> QED
  BY Zenon, <1>1, <1>2, EntryShape

(* The native calls that store.                                            *)
LEMMA AfterStores ==
  ASSUME NEW k, NEW es
  PROVE  LET new == <<Value(k)>>
         IN  /\ After("put", k, es) = new
             /\ es = <<>> => After("add", k, es) = new
             /\ After("add_new", k, es) = IF es = <<>> THEN new ELSE es
             /\ After("replace", k, es) = IF es = <<>> THEN es ELSE new
             /\ \A o \in {"find", "none", "range"} : After(o, k, es) = es
<1> DEFINE new == <<Value(k)>>
<1>1. Append(<<>>, Value(k)) = new
  OBVIOUS
<1>2. /\ After("put", k, es) = new
      /\ After("add", k, es) = Append(es, Value(k))
      /\ After("add_new", k, es) = IF es = <<>> THEN new ELSE es
      /\ After("replace", k, es) = IF es = <<>> THEN es ELSE new
      /\ \A o \in {"find", "none", "range"} : After(o, k, es) = es
  BY DEF After, Added, AddedNew, Replaced, Upserted
<1> QED
  BY Zenon, <1>1, <1>2

(* What is seen of a stored value is the value.                            *)
LEMMA SeenStored ==
  ASSUME NEW k
  PROVE  Seen(<<k>>) = k /\ Seen(<<>>) = 0
<1>1. <<k>> # <<>> /\ <<k>>[1] = k
  OBVIOUS
<1> QED
  BY <1>1 DEF Seen

(* The entries that FPTree can have for a key after an update missed it.   *)
Rewritten(k) == {<<>>, <<Value(k)>>}

(* A native call of the thread t changes the entries of its key to new and *)
(* its call to d.                                                          *)
NativeStep(i, d, new) ==
  LET c == pending[i]
  IN  /\ c.at = "inside"
      /\ pending' = [pending EXCEPT ![i] = d]
      /\ tree' = [tree EXCEPT ![c.key] = new]
      /\ UNCHANGED <<setup, lock>>
      /\ CallOK(name, mix, d) /\ d.at = "inside" /\ d.key = c.key /\ d.op = c.op
      /\ EntriesOK(c.key, new)
      /\ HalfOK(d, new)
      /\ name = "fptree" /\ tree[c.key] \in Rewritten(c.key) =>
           new \in Rewritten(c.key)

(* Such a step keeps the invariant, and of the map it changes one key.     *)
LEMMA NativeChanges ==
  ASSUME AInv, NEW i \in Threads, NEW d, NEW new, NativeStep(i, d, new)
  PROVE  LET c == pending[i]
         IN  /\ AInv'
             /\ MapOf[c.key] = IF c.todo = One("add") THEN Value(c.key)
                               ELSE Seen(tree[c.key])
             /\ MapOf' = [MapOf EXCEPT ![c.key] =
                            IF d.todo = One("add") THEN Value(c.key)
                            ELSE Seen(new)]
             /\ CallsOf' = [CallsOf EXCEPT ![i] = Shown(d)]
<1> DEFINE c == pending[i]
<1>1. /\ CallOK(name, mix, c) /\ c.at = "inside" /\ c.key \in Loaded
      /\ d.at = "inside" /\ d.key = c.key /\ CallOK(name, mix, d) /\ HalfOK(d, new)
      /\ UNCHANGED <<setup, lock>>
  BY DEF NativeStep, AInv, CallOK
<1>2. /\ name' = name /\ mix' = mix /\ \A o : LockOf(o)' = LockOf(o)
      /\ pending' = [u \in Threads |-> pending'[u]] /\ DOMAIN pending' = Threads
      /\ pending'[i] = d /\ \A u \in Threads : u # i => pending'[u] = pending[u]
      /\ CallsOf' = [CallsOf EXCEPT ![i] = Shown(d)]
  BY Zenon, <1>1, PendingChanges DEF NativeStep
<1>3. new \in Seq(Nat) /\ EntriesOK(c.key, new)
  <2>1. EntriesOK(c.key, new)
    BY DEF NativeStep
  <2>2. new = <<>> \/ \E e \in Nat : new = <<e>>
    BY <1>1, <2>1, EntryShape
  <2>3. <<>> \in Seq(Nat) /\ \A e \in Nat : <<e>> \in Seq(Nat)
    OBVIOUS
  <2> QED
    BY Zenon, <2>1, <2>2, <2>3
<1>4. /\ tree' \in [Loaded -> Seq(Nat)] /\ tree'[c.key] = new
      /\ \A k \in Loaded : k # c.key => tree'[k] = tree[k]
  BY <1>1, <1>3 DEF NativeStep, AInv
<1>5. \A u \in Threads : u # i => \A k : ~HalfwayCall(pending[u], k)
  BY Zenon, <1>1, NobodyElse DEF HalfwayCall
<1>6. ASSUME NEW u \in Threads, pending'[u].at = "inside"
      PROVE  HalfOK(pending'[u], tree'[pending'[u].key])
  <2>1. CASE u = i
    BY <1>1, <1>2, <1>4, <2>1
  <2>2. CASE u # i
    <3>1. /\ pending'[u] = pending[u] /\ pending[u].at = "inside" /\ CallOK(name, mix, pending[u])
          /\ HalfOK(pending[u], tree[pending[u].key])
      BY <1>2, <1>6, <2>2 DEF AInv
    <3>2. pending[u].key \in Loaded /\ pending[u].op \in Ops
          /\ pending[u].todo \in Left(name, pending[u].op)
      BY <3>1 DEF CallOK
    <3>3. CASE pending[u].key # c.key
      BY <1>4, <3>1, <3>2, <3>3
    <3>4. CASE pending[u].key = c.key
      <4>1. pending[u].todo # One("add")
        BY <1>5, <2>2, <3>1 DEF HalfwayCall
      <4>2. pending[u].todo = One("add_new") => name = "fptree"
        BY <3>2, WhoIsHalfway
      <4>3. pending[u].todo = One("add_new") => new \in Rewritten(c.key)
        BY <3>1, <3>4, <4>2 DEF NativeStep, HalfOK, Rewritten
      <4> QED
        BY <1>4, <3>1, <3>4, <4>1, <4>3 DEF HalfOK, Rewritten
    <3> QED
      BY Zenon, <3>3, <3>4
  <2> QED
    BY Zenon, <2>1, <2>2
<1>7. AInv'
  <2>1. \A u \in Threads : CallOK(name, mix, pending'[u])
    BY <1>1, <1>2 DEF AInv
  <2>2. \A k \in Loaded : EntriesOK(k, tree'[k])
    BY Zenon, <1>3, <1>4 DEF AInv
  <2>3. AdapterLockInv'
    <3>1. \A u \in Threads : pending'[u].at = pending[u].at /\ pending'[u].op = pending[u].op
      BY <1>1, <1>2 DEF NativeStep
    <3> QED
      BY <1>1, <1>2, <3>1 DEF AInv, AdapterLockInv, lock
  <2> QED
    BY <1>1, <1>2, <1>4, <1>6, <2>1, <2>2, <2>3 DEF AInv
<1>8. ASSUME NEW k \in Loaded
      PROVE  /\ (\E u \in Threads : HalfwayCall(pending[u], k)) <=> HalfwayCall(c, k)
             /\ (\E u \in Threads : HalfwayCall(pending'[u], k)) <=> HalfwayCall(d, k)
  BY <1>2, <1>5
<1>9. \A k \in Loaded : MapOf[k] = IF HalfwayCall(c, k) THEN Value(k)
                                   ELSE Seen(tree[k])
  BY Zenon, <1>8 DEF MapOf
<1>10. MapOf' = [k \in Loaded |-> IF HalfwayCall(d, k) THEN Value(k)
                                  ELSE Seen(tree'[k])]
  BY <1>2, <1>8 DEF MapOf
<1>11. MapOf[c.key] = IF c.todo = One("add") THEN Value(c.key)
                      ELSE Seen(tree[c.key])
  BY <1>1, <1>9 DEF HalfwayCall
<1>12. \A k \in Loaded : (IF HalfwayCall(d, k) THEN Value(k) ELSE Seen(tree'[k])) =
         IF k = c.key THEN IF d.todo = One("add") THEN Value(k) ELSE Seen(new)
         ELSE MapOf[k]
  BY Zenon, <1>1, <1>4, <1>9 DEF HalfwayCall
<1>13. MapOf' = [MapOf EXCEPT ![c.key] = IF d.todo = One("add") THEN Value(c.key)
                                         ELSE Seen(new)]
  <2>1. MapOf = [k \in Loaded |-> MapOf[k]]
    BY DEF MapOf
  <2> HIDE DEF c
  <2> QED
    BY <1>10, <1>12, <2>1
<1> QED
  BY <1>2, <1>7, <1>11, <1>13

(* What may be left to do, case by case.                                   *)
LEMMA WhatIsLeft ==
  ASSUME NEW r \in Trees, NEW o \in Ops
  PROVE  /\ Done \in Left(r, o)
         /\ \A todo \in Left(r, o) \ {Done} :
              \/ /\ o \in {"update", "insert"} /\ r = "wbtree"
                 /\ todo \in {DelAdd, One("add")} /\ One("add") \in Left(r, o)
              \/ /\ o \in {"update", "insert"} /\ r = "fptree"
                 /\ todo \in {Replace, One("add_new")} /\ One("add_new") \in Left(r, o)
              \/ o \in {"update", "insert"} /\ r \notin {"wbtree", "fptree"} /\ todo = One("put")
              \/ o = "delete" /\ todo = One("delete")
              \/ o = "search" /\ todo = One("find")
              \/ o = "scan" /\ todo \in {One("none"), One("range")}
<1>1. CASE o \in {"update", "insert"}
  <2>1. Left(r, o) = Updating(r)
    BY <1>1 DEF Left
  <2>2. Updating(r) = IF r = "wbtree" THEN {DelAdd, One("add"), Done}
                      ELSE IF r = "fptree" THEN {Replace, One("add_new"), Done}
                      ELSE {One("put"), Done}
    BY DEF Updating
  <2> QED
    BY <1>1, <2>1, <2>2
<1>2. CASE o = "delete"
  BY <1>2 DEF Left
<1>3. CASE o = "search"
  BY <1>3 DEF Left
<1>4. CASE o = "scan"
  BY <1>4 DEF Left
<1> QED
  BY <1>1, <1>2, <1>3, <1>4 DEF Ops, Writes

(* The value that a call of the operation o leaves a key with.             *)
Target(o, k, v) ==
  CASE o \in {"update", "insert"} -> Value(k)
    [] o = "delete"               -> 0
    [] OTHER                      -> v

(* The call takes effect in the abstract index.                            *)
EffectSeen(i) ==
  LET c == CallsOf[i]
  IN  /\ c.at = "called"
      /\ MapOf' = [MapOf EXCEPT ![c.key] = Target(c.op, c.key, MapOf[c.key])]
      /\ CallsOf' = [CallsOf EXCEPT ![i].at = "done",
                                    ![i].res = IF c.op = "search" THEN MapOf[c.key] ELSE 0]

(* A native call by which a call takes effect.                             *)
LEMMA TakesEffect ==
  ASSUME AInv, NEW i \in Threads, NEW d, NEW new, NativeStep(i, d, new),
         pending[i].todo \notin {Done, One("add")}, d.todo \in {Done, One("add")},
         (IF d.todo = One("add") THEN Value(d.key) ELSE Seen(new)) =
           Target(d.op, d.key, Seen(tree[d.key])),
         d.res = IF d.op = "search" THEN Seen(tree[d.key]) ELSE 0
  PROVE  AInv' /\ EffectSeen(i)
<1> DEFINE c == pending[i]
<1>1. c.at = "inside" /\ d.at = "inside" /\ d.key = c.key /\ d.op = c.op
  BY DEF NativeStep
<1>2. /\ AInv'
      /\ MapOf[c.key] = Seen(tree[c.key])
      /\ MapOf' = [MapOf EXCEPT ![c.key] = Target(c.op, c.key, MapOf[c.key])]
      /\ CallsOf' = [CallsOf EXCEPT ![i] = Shown(d)]
  <2>1. /\ AInv'
        /\ MapOf[c.key] = IF c.todo = One("add") THEN Value(c.key)
                          ELSE Seen(tree[c.key])
        /\ MapOf' = [MapOf EXCEPT ![c.key] =
                       IF d.todo = One("add") THEN Value(c.key) ELSE Seen(new)]
        /\ CallsOf' = [CallsOf EXCEPT ![i] = Shown(d)]
    BY Zenon, NativeChanges
  <2>2. MapOf[c.key] = Seen(tree[c.key])
    BY Zenon, <2>1
  <2>3. (IF d.todo = One("add") THEN Value(c.key) ELSE Seen(new))
          = Target(c.op, c.key, MapOf[c.key])
    BY Zenon, <1>1, <2>2
  <2> QED
    BY Zenon, <2>1, <2>2, <2>3
<1>3. CallsOf[i] = Shown(c) /\ CallsOf \in [Threads -> {Shown(pending[u]) : u \in Threads}]
  BY DEF CallsOf
<1>4. Shown(c) = [at |-> "called", op |-> c.op, key |-> c.key, res |-> c.res]
  BY <1>1 DEF Shown, Status, Done, One
<1>5. Shown(d) = [at |-> "done", op |-> c.op, key |-> c.key, res |-> d.res]
  BY <1>1 DEF Shown, Status, Done, One
<1>6. d.res = IF c.op = "search" THEN MapOf[c.key] ELSE 0
  BY Zenon, <1>1, <1>2
<1> HIDE DEF c
<1>7. [Shown(c) EXCEPT !.at = "done", !.res = d.res] = Shown(d)
  <2> DEFINE R == [at : {"called", "done"}, op : {c.op}, key : {c.key}, res : {c.res, d.res}]
             f == Shown(c)
             g == [f EXCEPT !.at = "done", !.res = d.res]
             h == Shown(d)
  <2>1. f \in R
    BY <1>4
  <2>2. f.op = c.op /\ f.key = c.key
    BY <1>4
  <2>3. h \in R
    BY <1>5
  <2>4. h.at = "done" /\ h.op = c.op /\ h.key = c.key /\ h.res = d.res
    BY <1>5
  <2> HIDE DEF f, h
  <2>5. g \in R /\ g.at = h.at /\ g.op = h.op /\ g.key = h.key /\ g.res = h.res
    BY Zenon, <2>1, <2>2, <2>4
  <2> HIDE DEF g
  <2>6. g = h
    BY <2>3, <2>5
  <2> QED
    BY Zenon, <2>6 DEF f, g, h
<1>8. CallsOf' = [CallsOf EXCEPT ![i].at = "done", ![i].res = d.res]
  BY Zenon, <1>2, <1>3, <1>7
<1>9. /\ CallsOf[i].at = "called" /\ CallsOf[i].op = c.op /\ CallsOf[i].key = c.key
  BY <1>3, <1>4
<1> QED
  BY Zenon, <1>2, <1>6, <1>8, <1>9 DEF EffectSeen

(* A native call that the abstract index does not see.                     *)
LEMMA TakesNone ==
  ASSUME AInv, NEW i \in Threads, NEW d, NEW new, NativeStep(i, d, new),
         d.res = pending[i].res,
         \/ pending[i].todo = One("add") /\ d.todo = Done
            /\ Seen(new) = Value(d.key)
         \/ pending[i].todo = Replace /\ d.todo = One("add_new") /\ new = tree[d.key]
  PROVE  AInv' /\ MapOf' = MapOf /\ CallsOf' = CallsOf
<1> DEFINE c == pending[i]
<1>1. c.at = "inside" /\ d.at = "inside" /\ d.key = c.key /\ d.op = c.op
  BY DEF NativeStep
<1>2. /\ AInv'
      /\ MapOf' = [MapOf EXCEPT ![c.key] = MapOf[c.key]]
      /\ CallsOf' = [CallsOf EXCEPT ![i] = Shown(d)]
  BY <1>1, NativeChanges, Lists
<1>3. Status(d) = Status(c)
  BY ZenonT(60), <1>1, Lists DEF Status, Done, One
<1>4. Shown(d) = Shown(c)
  BY Zenon, <1>1, <1>3 DEF Shown
<1>5. CallsOf' = CallsOf
  BY Zenon, <1>2, <1>4 DEF CallsOf
<1>6. MapOf' = MapOf
  BY Zenon, <1>2 DEF MapOf
<1> QED
  BY <1>2, <1>5, <1>6

(* A native call changes the call and the entries of its key, and either   *)
(* the call takes effect or nothing is seen of it.                         *)
LEMMA NativeCallStep ==
  ASSUME AInv, NEW i \in Threads, NativeCall(i)
  PROVE  AInv' /\ (EffectSeen(i) \/ (MapOf' = MapOf /\ CallsOf' = CallsOf))
<1> DEFINE c  == pending[i]
           o  == Head(c.todo)
           es == tree[c.key]
           EV == <<Value(c.key)>>
           new == After(o, c.key, es)
<1>1. PICK e \in Found(es) :
        /\ new = After(o, c.key, es)
        /\ tree' = [tree EXCEPT ![c.key] = new]
        /\ pending' = [pending EXCEPT
             ![i].todo = IF o = "replace" /\ es # <<>> THEN <<>> ELSE Tail(@),
             ![i].res  = IF o = "find" THEN e ELSE @]
  BY Zenon DEF NativeCall
<1> DEFINE d == [c EXCEPT !.todo = IF o = "replace" /\ es # <<>> THEN <<>> ELSE Tail(@),
                          !.res  = IF o = "find" THEN e ELSE @]
<1>2. pending' = [pending EXCEPT ![i] = d]
  BY Zenon, <1>1
<1>3. /\ CallOK(name, mix, c) /\ c.at = "inside" /\ c.todo # Done /\ UNCHANGED <<setup, lock>>
      /\ HalfOK(c, es)
  BY Zenon DEF NativeCall, AInv, Done
<1>4. /\ c.key \in Loaded /\ c.op \in Ops /\ c.todo \in Left(name, c.op) \ {Done}
      /\ c.res \in Nat /\ (c.op # "search" => c.res = 0) /\ name \in Trees
      /\ c.op \in Sampled(mix) /\ c.key \in Nat
  BY <1>3 DEF CallOK, AInv, name
<1>5. EntriesOK(c.key, es)
  BY <1>4 DEF AInv
<1>6. /\ d.at = "inside" /\ d.op = c.op /\ d.key = c.key
      /\ d.todo = IF o = "replace" /\ es # <<>> THEN Done ELSE Tail(c.todo)
      /\ d.res = IF o = "find" THEN e ELSE c.res
  BY <1>3 DEF CallOK, Done
<1>7. ASSUME d.todo \in Left(name, c.op) \cap AllLists, d.res \in Nat,
             c.op # "search" => d.res = 0
      PROVE  CallOK(name, mix, d)
  BY Zenon, <1>3, <1>4, <1>6, <1>7 DEF CallOK
<1>8. Done \in Left(name, c.op) /\ Done \in AllLists
  BY Zenon, <1>4, WhatIsLeft DEF AllLists
<1>9. Seen(EV) = Value(c.key) /\ Seen(<<>>) = 0
  BY Zenon, SeenStored
<1>10. EntriesOK(c.key, EV) /\ EntriesOK(c.key, <<>>)
  BY Zenon DEF EntriesOK
<1> HIDE DEF c, d, es, o, new
<1>11. ASSUME d.todo = Done, o # "find", EntriesOK(c.key, new),
              c.op # "search", new \in Rewritten(c.key) \/ name # "fptree"
       PROVE  NativeStep(i, d, new) /\ d.res = 0
  <2>1. CallOK(name, mix, d) /\ d.res = 0
    BY Zenon, <1>4, <1>6, <1>7, <1>8, <1>11
  <2>2. HalfOK(d, new)
    BY <1>11, Lists DEF HalfOK
  <2> QED
    BY Zenon, <1>1, <1>2, <1>3, <1>6, <1>11, <2>1, <2>2 DEF NativeStep, c, es
<1>12. CASE c.op \in {"update", "insert"} /\ name = "wbtree" /\ c.todo = DelAdd
             /\ One("add") \in Left(name, c.op)
  <2>1. o = "delete" /\ d.todo = One("add") /\ d.res = 0
    BY Zenon, <1>4, <1>6, <1>12, Lists DEF o
  <2>2. new = <<>>
    BY <1>1, <1>4, <1>5, <2>1, DeleteEmpties DEF es
  <2>3. CallOK(name, mix, d)
    BY <1>7, <1>12, <2>1 DEF AllLists, Words
  <2>4. HalfOK(d, new)
    BY <2>1, <2>2, Lists DEF HalfOK
  <2>5. NativeStep(i, d, new)
    BY Zenon, <1>1, <1>2, <1>3, <1>6, <1>10, <1>12, <2>2, <2>3, <2>4 DEF NativeStep, c, es
  <2>6. c.todo \notin {Done, One("add")} /\ Target(d.op, d.key, Seen(es)) = Value(d.key)
    BY <1>6, <1>12, Lists DEF Target
  <2> QED
    BY Zenon, <1>6, <1>12, <2>1, <2>5, <2>6, TakesEffect DEF c, es
<1>13. CASE c.op \in {"update", "insert"} /\ name = "wbtree" /\ c.todo = One("add")
  <2>1. o = "add" /\ d.todo = Done /\ d.res = c.res
    BY <1>6, <1>13, Lists DEF o
  <2>2. new = EV
    <3>1. es = <<>>
      BY Zenon, <1>3, <1>13 DEF HalfOK
    <3>2. es = <<>> => After("add", c.key, es) = EV
      BY Zenon, AfterStores
    <3> QED
      BY <1>1, <2>1, <3>1, <3>2
  <2>3. NativeStep(i, d, new)
    BY <1>10, <1>11, <1>13, <2>1, <2>2
  <2> QED
    BY Zenon, <1>6, <1>9, <1>13, <2>1, <2>2, <2>3, TakesNone DEF c
<1>14. CASE c.op \in {"update", "insert"} /\ name = "fptree" /\ c.todo = Replace /\ es = <<>>
             /\ One("add_new") \in Left(name, c.op)
  <2>1. o = "replace" /\ d.todo = One("add_new") /\ d.res = c.res /\ d.res = 0
    BY Zenon, <1>4, <1>6, <1>14, Lists DEF o
  <2>2. new = <<>>
    BY <1>1, <1>14, <2>1, AfterStores DEF es
  <2>3. CallOK(name, mix, d)
    BY <1>7, <1>14, <2>1 DEF AllLists, Words
  <2>4. HalfOK(d, new)
    BY <2>1, <2>2, Lists DEF HalfOK
  <2>5. NativeStep(i, d, new)
    BY Zenon, <1>1, <1>2, <1>3, <1>6, <1>10, <2>2, <2>3, <2>4 DEF NativeStep, Rewritten, c, es
  <2> QED
    BY Zenon, <1>6, <1>14, <2>1, <2>2, <2>5, TakesNone DEF c, es
<1>15. CASE /\ c.op \in {"update", "insert"}
            /\ \/ name = "fptree" /\ c.todo = Replace /\ es # <<>>
               \/ name = "fptree" /\ c.todo = One("add_new")
               \/ name \notin {"wbtree", "fptree"} /\ c.todo = One("put")
  <2>1. d.todo = Done /\ o # "find" /\ c.todo \notin {Done, One("add")}
    <3>1. CASE c.todo = Replace /\ es # <<>>
      BY <1>6, <3>1, Lists DEF o
    <3>2. CASE c.todo = One("add_new")
      BY <1>6, <3>2, Lists DEF o
    <3>3. CASE c.todo = One("put")
      BY <1>6, <3>3, Lists DEF o
    <3> QED
      BY Zenon, <1>15, <3>1, <3>2, <3>3
  <2>2. new = EV
    <3>1. CASE name = "fptree" /\ c.todo = Replace /\ es # <<>>
      BY <1>1, <3>1, AfterStores, Lists DEF o, es
    <3>2. CASE name = "fptree" /\ c.todo = One("add_new")
      <4>1. es \in {<<>>, EV}
        BY Zenon, <1>3, <3>2 DEF HalfOK, es
      <4>2. After("add_new", c.key, es) = IF es = <<>> THEN EV ELSE es
        BY AfterStores
      <4> QED
        BY ZenonT(60), <1>1, <3>2, <4>1, <4>2, Lists DEF o
    <3>3. CASE name \notin {"wbtree", "fptree"} /\ c.todo = One("put")
      BY <1>1, <3>3, AfterStores, Lists DEF o, es
    <3> QED
      BY <1>15, <3>1, <3>2, <3>3
  <2>3. NativeStep(i, d, new) /\ d.res = 0
    BY Zenon, <1>10, <1>11, <1>15, <2>1, <2>2 DEF Rewritten
  <2>4. Target(d.op, d.key, Seen(es)) = Value(d.key)
    BY <1>6, <1>15 DEF Target
  <2> QED
    BY Zenon, <1>6, <1>9, <1>15, <2>1, <2>2, <2>3, <2>4, TakesEffect, Lists DEF c, es
<1>16. CASE c.op = "delete" /\ c.todo = One("delete")
  <2>1. d.todo = Done /\ o # "find" /\ o = "delete" /\ c.todo \notin {Done, One("add")}
    <3>1. Head(c.todo) = "delete" /\ Tail(c.todo) = Done
      BY Zenon, <1>16, Lists
    <3>2. c.todo # Done /\ c.todo # One("add")
      BY Zenon, <1>16, Lists
    <3> QED
      BY Zenon, <1>6, <3>1, <3>2 DEF o
  <2>2. new = <<>>
    BY <1>1, <1>4, <1>5, <2>1, DeleteEmpties
  <2>3. NativeStep(i, d, new) /\ d.res = 0
    BY Zenon, <1>10, <1>11, <1>16, <2>1, <2>2 DEF Rewritten
  <2>4. Target(d.op, d.key, Seen(es)) = 0
    BY <1>6, <1>16 DEF Target
  <2> QED
    BY Zenon, <1>6, <1>9, <1>16, <2>1, <2>2, <2>3, <2>4, TakesEffect, Lists DEF c, es
<1>17. CASE \/ c.op = "search" /\ c.todo = One("find")
            \/ c.op = "scan" /\ c.todo \in {One("none"), One("range")}
  <2>1. /\ d.todo = Done /\ c.todo \notin {Done, One("add")} /\ o \in {"find", "none", "range"}
        /\ o = "find" <=> c.op = "search"
    <3>1. CASE c.op = "search" /\ c.todo = One("find")
      BY <1>6, <3>1, Lists DEF o
    <3>2. CASE c.op = "scan" /\ c.todo = One("none")
      BY <1>6, <3>2, Lists DEF o
    <3>3. CASE c.op = "scan" /\ c.todo = One("range")
      BY <1>6, <3>3, Lists DEF o
    <3> QED
      BY Zenon, <1>17, <3>1, <3>2, <3>3
  <2>2. new = es
    BY <1>1, <2>1, AfterStores
  <2>3. e = Seen(es) /\ e \in Nat
    BY <1>1, <1>4, <1>5, FoundIsSeen
  <2>4. d.res = (IF d.op = "search" THEN Seen(es) ELSE 0) /\ d.res \in Nat
    BY Zenon, <1>4, <1>6, <2>1, <2>3
  <2>5. CallOK(name, mix, d)
    BY Zenon, <1>6, <1>7, <1>8, <2>1, <2>4
  <2>6. HalfOK(d, new)
    BY Zenon, <2>1, Lists DEF HalfOK
  <2>7. NativeStep(i, d, new)
    BY Zenon, <1>1, <1>2, <1>3, <1>5, <1>6, <2>2, <2>5, <2>6 DEF NativeStep, c, es
  <2>8. Target(d.op, d.key, Seen(es)) = Seen(es)
    BY <1>6, <1>17 DEF Target
  <2> QED
    BY Zenon, <1>6, <2>1, <2>2, <2>4, <2>7, <2>8, TakesEffect, Lists DEF c, es
<1>18. \/ /\ c.op \in {"update", "insert"} /\ name = "wbtree"
          /\ c.todo \in {DelAdd, One("add")} /\ One("add") \in Left(name, c.op)
       \/ /\ c.op \in {"update", "insert"} /\ name = "fptree"
          /\ c.todo \in {Replace, One("add_new")} /\ One("add_new") \in Left(name, c.op)
       \/ c.op \in {"update", "insert"} /\ name \notin {"wbtree", "fptree"} /\ c.todo = One("put")
       \/ c.op = "delete" /\ c.todo = One("delete")
       \/ c.op = "search" /\ c.todo = One("find")
       \/ c.op = "scan" /\ c.todo \in {One("none"), One("range")}
  BY Zenon, <1>4, WhatIsLeft
<1> QED
  BY Zenon, <1>12, <1>13, <1>14, <1>15, <1>16, <1>17, <1>18

-----------------------------------------------------------------------------
(* What a call has for an answer so far, and who can hold the lock.        *)
Answer(c) == c.res \in {0, c.key, Value(c.key)}

Answers ==
  /\ \A i \in Threads : Answer(pending[i])
  /\ writer \subseteq Threads /\ readers \subseteq Threads

(* What is seen of a key is 0 or a value that was stored for it.           *)
LEMMA SeenIsStored ==
  ASSUME NEW k \in Loaded, NEW es, EntriesOK(k, es)
  PROVE  Seen(es) \in {0, k, Value(k)}
  BY Zenon, SeenStored DEF EntriesOK

(* A step of a thread leaves it with such an answer, and the lock with the *)
(* threads.                                                                *)
LEMMA AnswerStep ==
  ASSUME AInv, Answers, NEW i \in Threads,
         Begin(i) \/ Acquire(i) \/ NativeCall(i) \/ Return(i)
  PROVE  Answers'
<1> DEFINE c == pending[i]
<1>1. writer' \subseteq Threads /\ readers' \subseteq Threads
  BY DEF Answers, Begin, Acquire, NativeCall, Return, TakeLock, DropLock, lock
<1>2. CallOK(name, mix, c) /\ Answer(c) /\ UNCHANGED setup
  BY Zenon DEF AInv, Answers, Begin, Acquire, NativeCall, Return
<1>3. \E d : pending' = [pending EXCEPT ![i] = d] /\ Answer(d)
  <2>1. CASE Begin(i)
    <3>1. PICK o \in Sampled(mix), k \in Loaded :
            pending' = [pending EXCEPT ![i] = [at |-> "lock", op |-> o, key |-> k,
                          todo |-> Adapter[name][Method(o)], res |-> 0]]
      BY Zenon, <2>1 DEF Begin
    <3>2. Answer([at |-> "lock", op |-> o, key |-> k,
                  todo |-> Adapter[name][Method(o)], res |-> 0])
      BY DEF Answer
    <3> QED
      BY Zenon, <3>1, <3>2
  <2>2. CASE Acquire(i)
    <3>1. pending' = [pending EXCEPT ![i] = [c EXCEPT !.at = "inside"]]
      BY <2>2 DEF Acquire
    <3>2. Answer([c EXCEPT !.at = "inside"])
      BY <1>2 DEF Answer, CallOK
    <3> QED
      BY Zenon, <3>1, <3>2
  <2>3. CASE Return(i)
    <3>1. pending' = [pending EXCEPT ![i] = [c EXCEPT !.at = "idle"]]
      BY <2>3 DEF Return
    <3>2. Answer([c EXCEPT !.at = "idle"])
      BY <1>2 DEF Answer, CallOK
    <3> QED
      BY Zenon, <3>1, <3>2
  <2>4. CASE NativeCall(i)
    <3> DEFINE o  == Head(c.todo)
               es == tree[c.key]
    <3>1. PICK e \in Found(es) :
            pending' = [pending EXCEPT
              ![i].todo = IF o = "replace" /\ es # <<>> THEN <<>> ELSE Tail(@),
              ![i].res  = IF o = "find" THEN e ELSE @]
      BY Zenon, <2>4 DEF NativeCall
    <3> DEFINE d == [c EXCEPT !.todo = IF o = "replace" /\ es # <<>> THEN <<>> ELSE Tail(@),
                              !.res  = IF o = "find" THEN e ELSE @]
    <3>2. pending' = [pending EXCEPT ![i] = d]
      BY Zenon, <3>1
    <3>3. c.key \in Loaded
      BY Zenon, <1>2, <2>4 DEF NativeCall, CallOK
    <3>4. e \in {0, c.key, Value(c.key)}
      <4>1. EntriesOK(c.key, es)
        BY Zenon, <3>3 DEF AInv
      <4>2. e = Seen(es)
        BY Zenon, <3>3, <4>1, FoundIsSeen
      <4> QED
        BY Zenon, <3>3, <4>1, <4>2, SeenIsStored
    <3>5. d.key = c.key /\ d.res = IF o = "find" THEN e ELSE c.res
      BY <1>2 DEF CallOK
    <3>6. Answer(d)
      BY Zenon, <1>2, <3>4, <3>5 DEF Answer
    <3> QED
      BY Zenon, <3>2, <3>6
  <2> QED
    BY Zenon, <2>1, <2>2, <2>3, <2>4
<1>4. PICK d : pending' = [pending EXCEPT ![i] = d] /\ Answer(d)
  BY Zenon, <1>3
<1>5. \A u \in Threads : Answer(pending'[u])
  BY Zenon, <1>2, <1>4, PendingChanges DEF Answers
<1> QED
  BY Zenon, <1>1, <1>5 DEF Answers, Answer

-----------------------------------------------------------------------------
(* Before the first call every key has the entry that bulk_load stored.    *)
LEMMA AdaptersStart ==
  ASSUME Overwriting, AInit
  PROVE  AInv /\ MapOf = [k \in Loaded |-> k] /\ \A i \in Threads : CallsOf[i].at = "idle"
<1> DEFINE idle == [at |-> "idle", op |-> "search", key |-> 1, todo |-> <<>>, res |-> 0]
<1>1. setup \in Trees \X {"batch", "poisson"} \X SUBSET Ops
  BY AdapterAssumption DEF AInit, Overwriting, Trees
<1>2. pending = [i \in Threads |-> idle]
  BY DEF AInit
<1>3. CallOK(name, mix, idle) /\ idle.at = "idle" /\ Status(idle) = "idle" /\ Shown(idle).at = "idle"
  BY DEF CallOK, Done, AllLists, Ops, Status, Shown
<1>4. tree = [k \in Loaded |-> <<k>>] /\ writer = {} /\ readers = {}
  BY DEF AInit, LockInit
<1> HIDE DEF idle
<1>5. \A k \in Loaded : k \in Nat
  BY AdapterAssumption DEF Loaded
<1>6. tree \in [Loaded -> Seq(Nat)] /\ \A k \in Loaded : EntriesOK(k, tree[k])
  BY <1>4, <1>5 DEF EntriesOK
<1>7. /\ \A i \in Threads : pending[i] = idle
      /\ DOMAIN pending = Threads /\ pending = [i \in Threads |-> pending[i]]
  BY <1>2
<1>8. AInv
  BY <1>1, <1>3, <1>4, <1>6, <1>7 DEF AInv, AdapterLockInv
<1>9. \A k : \A u \in Threads : ~HalfwayCall(pending[u], k)
  BY <1>3, <1>7 DEF HalfwayCall
<1>10. \A k \in Loaded : Seen(tree[k]) = k
  <2>1. \A x : <<x>> # <<>> /\ <<x>>[1] = x
    OBVIOUS
  <2> QED
    BY <1>4, <1>5, <2>1 DEF Seen
<1>11. MapOf = [k \in Loaded |-> k]
  BY <1>9, <1>10 DEF MapOf
<1>12. \A i \in Threads : CallsOf[i].at = "idle"
  BY <1>3, <1>7 DEF CallsOf
<1> QED
  BY <1>8, <1>11, <1>12

(* The entries, the calls and the lock of the adapted indexes stay as AInv *)
(* says, for any threads, keys, mix and number of calls.                   *)
THEOREM AdaptersInvariant ==
  ASSUME Overwriting
  PROVE  ASpec => []AInv
<1>1. AInit => AInv
  BY AdaptersStart
<1>2. AInv /\ [ANext]_avars => AInv'
  <2>1. ASSUME AInv, ANext PROVE AInv'
    BY <2>1, BeginStep, AcquireStep, NativeCallStep, ReturnStep DEF ANext
  <2>2. ASSUME AInv, UNCHANGED avars PROVE AInv'
    BY Zenon, <2>2 DEF AInv, AdapterLockInv, LockOf, name, mode, mix, avars, lock
  <2> QED
    BY <2>1, <2>2
<1> QED
  BY <1>1, <1>2, PTL DEF ASpec

(* What a call of an adapted index other than FAST&FAIR and LB+-Tree       *)
(* answers is 0 or a value that was loaded or written for its key,         *)
(* whatever calls run beside it.                                           *)
THEOREM AdaptersAnswer ==
  ASSUME Overwriting
  PROVE  ASpec => []ATypeOK
<1>1. AInit => Answers
  <2>1. ASSUME AInit, NEW u \in Threads PROVE Answer(pending[u])
    BY <2>1 DEF AInit, Answer
  <2>2. ASSUME AInit PROVE writer \subseteq Threads /\ readers \subseteq Threads
    BY <2>2 DEF AInit, LockInit
  <2> QED
    BY Zenon, <2>1, <2>2 DEF Answers
<1>2. AInv /\ Answers /\ [ANext]_avars => Answers'
  <2>1. ASSUME AInv, Answers, ANext PROVE Answers'
    BY Zenon, <2>1, AnswerStep DEF ANext
  <2>2. ASSUME Answers, UNCHANGED avars PROVE Answers'
    BY Zenon, <2>2 DEF Answers, Answer, avars, lock
  <2> QED
    BY Zenon, <2>1, <2>2
<1>3. AInv /\ Answers => ATypeOK
  <2>1. ASSUME AInv, NEW u \in Threads PROVE pending[u].at \in {"idle", "lock", "inside"}
    BY <2>1 DEF AInv, CallOK
  <2> QED
    BY Zenon, <2>1 DEF AInv, Answers, Answer, ATypeOK
<1> QED
  BY <1>1, <1>2, <1>3, AdaptersInvariant, PTL DEF ASpec

(* Granted that a native call is atomic, under the lock policy of either   *)
(* mode every call of an adapted index other than FAST&FAIR and LB+-Tree   *)
(* takes effect at one moment, for any threads, keys, mix and number of    *)
(* calls.                                                                  *)
THEOREM AdaptersAreAtomic ==
  ASSUME Overwriting
  PROVE  ASpec => AdaptersAtomic
<1> DEFINE m  == [k \in Loaded |->
                    IF Halfway(k) THEN Value(k)
                    ELSE IF tree[k] = <<>> THEN 0 ELSE tree[k][1]]
           cs == [i \in Threads |->
                    [at |-> Status(pending[i]), op |-> pending[i].op,
                     key |-> pending[i].key, res |-> pending[i].res]]
<1>1. m = MapOf /\ cs = CallsOf
  BY Zenon DEF MapOf, CallsOf, Shown, Halfway, HalfwayCall, One, Seen
<1>2. m' = MapOf' /\ cs' = CallsOf'
  BY Zenon DEF MapOf, CallsOf, Shown, Halfway, HalfwayCall, One, Seen
<1>3. AInit => Atomic!Init
  BY <1>1, AdaptersStart DEF Atomic!Init
<1>4. ASSUME AInv, NEW i \in Threads, Begin(i) PROVE Atomic!Next
  <2>1. Atomic!Start(i)
    BY ZenonT(60), <1>1, <1>2, <1>4, BeginStep DEF Atomic!Start
  <2> QED
    BY <2>1 DEF Atomic!Next
<1>5. ASSUME AInv, NEW i \in Threads, Acquire(i) PROVE UNCHANGED Atomic!vars
  BY Zenon, <1>1, <1>2, <1>5, AcquireStep DEF Atomic!vars
<1>6. ASSUME AInv, NEW i \in Threads, NativeCall(i)
      PROVE  Atomic!Next \/ UNCHANGED Atomic!vars
  <2>1. CASE EffectSeen(i)
    <3>1. Atomic!Effect(i)
      BY Zenon, <1>1, <1>2, <2>1 DEF Atomic!Effect, EffectSeen, Target
    <3> QED
      BY <3>1 DEF Atomic!Next
  <2>2. CASE MapOf' = MapOf /\ CallsOf' = CallsOf
    BY Zenon, <1>1, <1>2, <2>2 DEF Atomic!vars
  <2> QED
    BY <1>6, <2>1, <2>2, NativeCallStep
<1>7. ASSUME AInv, NEW i \in Threads, Return(i) PROVE Atomic!Next
  <2>1. Atomic!Return(i)
    BY Zenon, <1>1, <1>2, <1>7, ReturnStep DEF Atomic!Return
  <2> QED
    BY <2>1 DEF Atomic!Next
<1>8. UNCHANGED avars => UNCHANGED Atomic!vars
  BY Zenon DEF avars, Atomic!vars, Halfway, Status
<1>9. AInv /\ [ANext]_avars => [Atomic!Next]_Atomic!vars
  BY <1>4, <1>5, <1>6, <1>7, <1>8 DEF ANext
<1> QED
  BY <1>3, <1>9, AdaptersInvariant, PTL DEF ASpec, AdaptersAtomic, Atomic!Spec

-----------------------------------------------------------------------------
(* DPTree: the buffer and the base tree together are one map.              *)

(* A state of the two trees.                                               *)
TwoTrees(s) ==
  /\ s.dynamic \in [DKeys -> Nat] /\ s.static \in [DKeys -> Nat]
  /\ s = [dynamic |-> s.dynamic, static |-> s.static, capacity |-> s.capacity]

DPInv ==
  /\ TwoTrees(dp)
  /\ loaded \in 0 .. NLoad

(* What the adapter makes of an entry, and what it finds in a state.       *)
Decoded(e) == IF is_delete_op(e) THEN 0 ELSE strip_upsert_value(e)

FoundIn(s, k) == Decoded(IF s.dynamic[k] # NoEntry THEN s.dynamic[k] ELSE s.static[k])

(* An entry decodes to what was written.                                   *)
LEMMA DecodesWritten ==
  ASSUME NEW c, NEW k \in DKeys, c.key = k, c.op \in {"insert", "update", "remove"}
  PROVE  EntryOf(c) \in Nat /\ EntryOf(c) # NoEntry /\ Decoded(EntryOf(c)) = Written(c)
<1>1. k \in Nat /\ k > 0 /\ NLoad \in Nat
  BY DPTreeAssumption DEF DKeys
<1>2. \A v \in Nat : /\ 2 * v \in Nat /\ (2 * v) % 2 # 1 /\ (2 * v) \div 2 = v
                     /\ v > 0 => 2 * v # 0
  OBVIOUS
<1>3. CASE c.op = "remove"
  BY <1>3 DEF EntryOf, Written, Decoded, NoEntry, make_tombstone_value, make_upsert_value, is_delete_op
<1>4. CASE c.op \in {"insert", "update"}
  <2>1. Written(c) \in Nat /\ Written(c) > 0
    BY <1>1, <1>4 DEF Written
  <2>2. EntryOf(c) = 2 * Written(c)
    BY <1>4 DEF EntryOf, make_upsert_value
  <2> QED
    BY <1>2, <2>1, <2>2 DEF Decoded, NoEntry, is_delete_op, strip_upsert_value
<1> QED
  BY <1>3, <1>4

(* A merge changes what is found of no key.                                *)
LEMMA MergeKeepsFound ==
  ASSUME NEW s, TwoTrees(s)
  PROVE  /\ TwoTrees(merge_if_necessary(s))
         /\ \A k \in DKeys : FoundIn(merge_if_necessary(s), k) = FoundIn(s, k)
<1> DEFINE m == merge(s)
<1>1. /\ m.dynamic = EmptyMap /\ m.static = Merged(s.dynamic, s.static)
      /\ m = [dynamic |-> m.dynamic, static |-> m.static, capacity |-> m.capacity]
  BY DEF merge
<1>2. EmptyMap \in [DKeys -> Nat] /\ \A k \in DKeys : EmptyMap[k] = NoEntry
  BY DEF EmptyMap, NoEntry
<1>3. /\ m.static \in [DKeys -> Nat]
      /\ \A k \in DKeys : m.static[k] = IF s.dynamic[k] = NoEntry THEN s.static[k]
                           ELSE IF is_delete_op(s.dynamic[k]) THEN NoEntry ELSE s.dynamic[k]
  BY <1>1 DEF Merged, TwoTrees, NoEntry
<1>4. TwoTrees(m)
  BY <1>1, <1>2, <1>3 DEF TwoTrees
<1>5. Decoded(NoEntry) = 0
  BY DEF Decoded, NoEntry, is_delete_op, strip_upsert_value
<1>6. ASSUME NEW k \in DKeys PROVE FoundIn(m, k) = FoundIn(s, k)
  <2>1. FoundIn(m, k) = Decoded(m.static[k])
    BY <1>1, <1>2 DEF FoundIn
  <2> HIDE DEF m
  <2>2. CASE s.dynamic[k] = NoEntry
    BY Zenon, <1>3, <2>1, <2>2 DEF FoundIn
  <2>3. CASE s.dynamic[k] # NoEntry /\ is_delete_op(s.dynamic[k])
    BY Zenon, <1>3, <1>5, <2>1, <2>3 DEF FoundIn, Decoded
  <2>4. CASE s.dynamic[k] # NoEntry /\ ~is_delete_op(s.dynamic[k])
    BY Zenon, <1>3, <2>1, <2>4 DEF FoundIn
  <2> QED
    BY Zenon, <2>2, <2>3, <2>4
<1>7. merge_if_necessary(s) = s \/ merge_if_necessary(s) = m
  BY Zenon DEF merge_if_necessary
<1> HIDE DEF m
<1> QED
  BY Zenon, <1>4, <1>6, <1>7

(* A call changes what is found of its own key, unless that is buffered.   *)
LEMMA CallChanges ==
  ASSUME DPInv, NEW o \in {"insert", "update", "remove"}, NEW k \in DKeys, Call(o, k)
  PROVE  /\ TwoTrees(dp') /\ dcall'.key = k
         /\ \A x \in DKeys :
              FoundIn(dp', x) = IF x = k /\ dp.dynamic[x] = NoEntry
                                  THEN Written(dcall') ELSE FoundIn(dp, x)
<1> DEFINE c == dcall'
           s == Buffered(dp, k, EntryOf(c))
<1>1. c.op = o /\ c.key = k /\ dp' = merge_if_necessary(s)
  BY DEF Call
<1>2. EntryOf(c) \in Nat /\ EntryOf(c) # NoEntry /\ Decoded(EntryOf(c)) = Written(c)
  BY Zenon, <1>1, DecodesWritten
<1> HIDE DEF c
<1>3. /\ TwoTrees(s)
      /\ \A x \in DKeys : FoundIn(s, x) = IF x = k /\ dp.dynamic[x] = NoEntry
                                            THEN Written(c) ELSE FoundIn(dp, x)
  <2>1. CASE dp.dynamic[k] # NoEntry
    <3>1. s = dp
      BY <2>1 DEF Buffered
    <3> QED
      BY Zenon, <2>1, <3>1 DEF DPInv
  <2>2. CASE dp.dynamic[k] = NoEntry
    <3>1. s = [dp EXCEPT !.dynamic[k] = EntryOf(c)]
      BY <2>2 DEF Buffered
    <3>2. /\ s.dynamic = [dp.dynamic EXCEPT ![k] = EntryOf(c)] /\ s.static = dp.static
          /\ s = [dynamic |-> s.dynamic, static |-> s.static, capacity |-> s.capacity]
      BY <3>1 DEF DPInv, TwoTrees
    <3> HIDE DEF s
    <3>3. /\ s.dynamic \in [DKeys -> Nat] /\ s.dynamic[k] = EntryOf(c)
          /\ \A x \in DKeys : x # k => s.dynamic[x] = dp.dynamic[x]
      BY <1>2, <3>2 DEF DPInv, TwoTrees
    <3>4. TwoTrees(s)
      BY Zenon, <3>2, <3>3 DEF DPInv, TwoTrees
    <3> QED
      BY Zenon, <1>2, <2>2, <3>2, <3>3, <3>4 DEF FoundIn
  <2> QED
    BY Zenon, <2>1, <2>2
<1> HIDE DEF s
<1> QED
  BY Zenon, <1>1, <1>3, MergeKeepsFound DEF c

(* A call of the adapter changes what lookup returns for its own key only, *)
(* to what it wrote, and only if the key is not in the buffer; a merge     *)
(* changes nothing that lookup returns.  For any number of keys and any    *)
(* limits of the buffer.                                                   *)
THEOREM DPTreeIsMap == DPSpec => FirstBufferedStands
<1> DEFINE Step ==
             \A k \in DKeys :
               Lookup(k)' = IF k = dcall'.key /\ dp.dynamic[k] = NoEntry
                              THEN Written(dcall') ELSE Lookup(k)
<1>1. DPInit => DPInv
  BY DPTreeAssumption DEF DPInit, DPInv, TwoTrees, EmptyMap, NoEntry
<1>2. /\ \A k : Lookup(k) = FoundIn(dp, k)
      /\ \A k : Lookup(k)' = FoundIn(dp', k)
  BY Zenon DEF Lookup, FoundIn, Decoded, native_lookup
<1>3. ASSUME DPInv, DPNext PROVE DPInv' /\ Step
  <2>1. PICK o \in {"insert", "update", "remove"}, k \in DKeys :
          Call(o, k) /\ loaded' \in 0 .. NLoad
    <3>1. CASE BulkLoad
      <4>1. Call("insert", loaded + 1) /\ loaded + 1 \in DKeys /\ loaded' \in 0 .. NLoad
        BY <1>3, <3>1, DPTreeAssumption DEF BulkLoad, DPInv, DKeys
      <4> QED
        BY Zenon, <4>1
    <3>2. CASE \E k \in DKeys : Update(k) \/ Remove(k)
      BY Zenon, <1>3, <3>2 DEF Update, Remove, DPInv
    <3> QED
      BY Zenon, <1>3, <3>1, <3>2 DEF DPNext
  <2> QED
    BY Zenon, <1>2, <1>3, <2>1, CallChanges DEF DPInv, TwoTrees
<1>4. ASSUME DPInv, UNCHANGED dpvars PROVE DPInv'
  BY Zenon, <1>4 DEF DPInv, TwoTrees, dpvars
<1>5. DPInv /\ [DPNext]_dpvars => DPInv' /\ [Step]_dpvars
  BY Zenon, <1>3, <1>4
<1> QED
  BY <1>1, <1>5, PTL DEF DPSpec, FirstBufferedStands

=============================================================================
