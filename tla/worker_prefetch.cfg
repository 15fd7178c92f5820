\* One prompt Go worker with the SDK's default batch and concurrency.
SPECIFICATION Spec
CONSTANTS
  Job = {j1, j2}
  MaxRetries = 1
  Process = {"w1"}
  Sdk <- AllGo
  Batch = 1
  Slots = 1
  LeaseTTL = 3
  HeartbeatDivisor = 3
  DefaultBeat = 1
  Nobody = Nobody
  Timely = TRUE
  MaxMissed = 0
  MaxStray = 0
  MaxStops = 0
INVARIANT HeldLeaseStaysAlive
