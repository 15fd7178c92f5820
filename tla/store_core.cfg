\* Three jobs in two queues, batches of two, servers whose clocks differ by one
\* unit, one retry: every script races every other on the same jobs.
SPECIFICATION Spec
CONSTANTS
  Job = {j1, j2, j3}
  Queue = {q1, q2}
  Key = {}
  NoKey = NoKey
  LeaseTTL = 2
  MaxRetries = 1
  DrainLimit = 2
  MaxClaimBatch = 2
  IdemWindow = 2
  Delay <- RetryDelays
  Width = 12
  MaxShift = 3
  Millisecond = 4
  BackoffBase = 1
  MaxBase = 255
  MaxSkew = 1
  MaxTime = 4
SYMMETRY Symmetry
INVARIANT TypeOK
INVARIANT BackoffInBand
INVARIANT HashBehindEveryID
INVARIANT OnePlace
INVARIANT NoJobLost
INVARIANT DeadExactlyWhenExhausted
INVARIANT AttemptsCountEndedLeases
PROPERTY FreshJobsInOrder
PROPERTY ImplementsLifecycle
\* A finite set of jobs in a finite time: every run ends.
CHECK_DEADLOCK FALSE
