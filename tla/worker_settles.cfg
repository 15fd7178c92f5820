\* A Go and a Python worker that stall at will and fight for slots, calls that
\* are lost or executed late, a worker that ends.
SPECIFICATION FairSpec
CONSTANTS
  Job = {j1}
  MaxRetries = 2
  Process = {"w1", "w2"}
  Sdk <- GoAndPython
  Batch = 1
  Slots = 1
  LeaseTTL = 1
  HeartbeatDivisor = 3
  DefaultBeat = 1
  Nobody = Nobody
  Timely = FALSE
  MaxMissed = 1
  MaxStray = 1
  MaxStops = 1
INVARIANT AckedWasHandled
PROPERTY EveryJobSettles
