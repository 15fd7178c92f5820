\* One producer that sends a keyed enqueue up to twice, each of which the Redis
\* client may repeat once; others use its key, and another, on two queues.
SPECIFICATION CallsSpec
CONSTANTS
  p1 = p1
  q1 = q1
  k1 = k1
  Job = {j1, j2}
  Queue = {q1, q2}
  Key = {k1, k2}
  NoKey = NoKey
  NoJob = NoJob
  LeaseTTL = 1
  MaxRetries = 0
  DrainLimit = 2
  MaxClaimBatch = 1
  IdemWindow = 2
  Delay = {1}
  MaxSkew = 0
  MaxTime = 4
  Producer = {p1}
  Wants <- Keyed
  MaxSends = 2
  MaxResends = 1
SYMMETRY Symmetry
INVARIANT CallsOK
INVARIANT OnePlace
INVARIANT KeysDedupedWithinWindow
INVARIANT MarkerNamesOriginal
INVARIANT EnqueueAnswersAgree
CHECK_DEADLOCK FALSE
