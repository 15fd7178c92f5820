\* Two jobs in any of two queues, of which any may be broken; batches of one,
\* one pass cut off, and either of the two loops.
SPECIFICATION FairSpec
CONSTANTS
  Job = {j1, j2}
  Queue = {q1, q2}
  MaxRetries = 1
  DrainLimit = 1
  MaxCuts = 1
INVARIANT TypeOK
INVARIANT PassLeavesNothingBehind
PROPERTY DueJobsAreTakenUp
