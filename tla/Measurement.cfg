\* Histogram: five octaves of four sub-buckets; samples that are exact, on both
\* sides of an octave, in the last octave, and beyond it.
\* OpMix: sixteen bins and every mix of weights up to three, whose sums divide
\* the bins evenly or do not.
\* Workload: one to three lines of two words; calls of one to three lines, whole
\* words or not, which divide the buffer or not, and exceed it; every shuffle.
\* ArrivalSchedule: gaps of no, one or several periods of the two timers.
\* PoissonClock: a queue of one, two clients, two arrivals at the same time.
\* Driver: automatic capacities below, at and above the cap.
CONSTANTS
  NUM_OCTAVES = 5
  SUBBUCKETS = 4
  Threads = {t1, t2}
  Samples = {0, 7, 8, 9, 31, 32, 100}
  MaxSamples = 2
  BINS = 16
  MaxWeight = 3
  LINE = 4
  WORD = 2
  Sizes = {0, 6, 7, 12}
  Universes = {3, 9, 14}
  Tags = {0, 3, 4}
  NArrivals = 3
  Shapes <- MCShapes
  Levels = {1, 2}
  SinMods = {0, 2}
  Mults = {3}
  Durs = {1, 4}
  Draws = {0, 5, 20}
  MaxGap = 6
  CClients = {c1, c2}
  Arrivals <- MCArrivals
  Room = 1
  MaxTime = 3
  ArgSets <- MCArgSets
  Built = {"hash", "fptree"}
  CAP = 4
  Walls = {5, 6}
  Infinite = 7
  Latenesses = {1, 3}
SPECIFICATION MSpec
INVARIANTS
  MergeLosesNothing
  PercentileAccurate
  SharesWithinOneBin
  OnlyScanUnasked
  TouchesInBuffer
  WalksSpread
  TimersOnTime
  DurationsAddUp
  ResponseAccounted
  WaitDelaysNext
  QueueFits
  ReportsFastest
PROPERTIES
  ScheduleFinished
CHECK_DEADLOCK FALSE
