\* One schedule, one replica, a read that fails once.
SPECIFICATION Spec
CONSTANTS
  Sched = {c1}
  Cron = {"every2"}
  Period <- Periods
  Replica = {r1}
  DrainLimit = 2
  ReadMayFail = TRUE
  MaxSkew = 0
  ClockMayStepBack = FALSE
  MaxTime = 3
  MaxAborts = 0
INVARIANT LiveScheduleStaysIndexed
CHECK_DEADLOCK FALSE
