\* Overlapping passes that are cut off, schedules that come and go, true clocks,
\* a range read that returns one schedule at a time.
SPECIFICATION FairSpec
CONSTANTS
  Sched = {c1, c2}
  Cron = {"every1", "every2"}
  Period <- Periods
  Replica = {r1, r2}
  DrainLimit = 1
  ReadMayFail = FALSE
  MaxSkew = 0
  ClockMayStepBack = FALSE
  MaxTime = 4
  MaxAborts = 2
INVARIANT LiveScheduleStaysIndexed
PROPERTY DueScheduleFires
\* Every schedule used, every run fired, the clock at its bound.
CHECK_DEADLOCK FALSE
