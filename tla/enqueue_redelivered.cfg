\* One producer that sends one enqueue without a key; the Redis client repeats
\* the script once because its reply was lost.
SPECIFICATION CallsSpec
CONSTANTS
  p1 = p1
  q1 = q1
  k1 = k1
  Job = {j1, j2}
  Queue = {q1, q2}
  Key = {k1}
  NoKey = NoKey
  NoJob = NoJob
  LeaseTTL = 1
  MaxRetries = 0
  DrainLimit = 2
  MaxClaimBatch = 1
  IdemWindow = 2
  Delay = {1}
  MaxSkew = 0
  MaxTime = 1
  Producer = {p1}
  Wants <- Unkeyed
  MaxSends = 1
  MaxResends = 1
SYMMETRY Symmetry
INVARIANT OnePlace
CHECK_DEADLOCK FALSE
