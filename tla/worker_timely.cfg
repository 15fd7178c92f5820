\* A Go and a Node worker with a slot for every job, heartbeats every third of
\* the lease of which one in a row may fail; workers crash and stop, claims and
\* reports go unanswered.
SPECIFICATION Spec
CONSTANTS
  Job = {j1, j2}
  MaxRetries = 1
  Process = {"w1", "w2"}
  Sdk <- GoAndNode
  Batch = 2
  Slots = 2
  LeaseTTL = 3
  HeartbeatDivisor = 3
  DefaultBeat = 1
  Nobody = Nobody
  Timely = TRUE
  MaxMissed = 1
  MaxStray = 0
  MaxStops = 2
SYMMETRY Symmetry
INVARIANT TypeOK
INVARIANT HeldLeaseStaysAlive
INVARIANT OneHandlerPerJob
