CONSTANTS
  NArrivals = 2
  Shapes <- TickZero
  Levels = {1, 2}
  SinMods = {1}
  Mults = {3}
  Durs = {1, 2}
  Draws = {0, 4}
  MaxGap = 6
SPECIFICATION SchedSpec
PROPERTIES
  ScheduleEnds
