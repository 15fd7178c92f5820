\* Two replicas, a lock of three ticks; every fault at any time until the
\* system calms.
SPECIFICATION FairSpec
CONSTANTS
  Server = {s1, s2}
  TTL = 3
  MaxStray = 1
  NoOne = NoOne
  Orphan = Orphan
INVARIANT TypeOK
INVARIANT FreshLeaderOwnsLock
PROPERTY LockEndsByOwnerOrExpiry
PROPERTY LeadershipRecovers
PROPERTY StaleLeaderStepsDown
