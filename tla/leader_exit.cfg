\* Stopping the leader, with every call answered.
SPECIFICATION Spec
CONSTANTS
  Server = {s1, s2}
  TTL = 3
  MaxStray = 0
  NoOne = NoOne
  Orphan = Orphan
PROPERTY GracefulExitLeavesNoLock
