\* Two replicas in overlapping passes over two schedules, clocks one unit
\* apart, reads that may fail.
SPECIFICATION Spec
CONSTANTS
  Sched = {c1, c2}
  Cron = {"every1", "every2"}
  Period <- Periods
  Replica = {r1, r2}
  DrainLimit = 2
  ReadMayFail = TRUE
  MaxSkew = 1
  ClockMayStepBack = FALSE
  MaxTime = 3
  MaxAborts = 1
SYMMETRY Symmetry
INVARIANT TypeOK
INVARIANT OneJobPerOccurrence
PROPERTY OccurrencesAdvance
PROPERTY DeletedStaysDeleted
\* Every schedule used, every run fired, the clock at its bound.
CHECK_DEADLOCK FALSE
