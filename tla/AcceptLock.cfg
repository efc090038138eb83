SPECIFICATION FairSpec
CONSTANTS
  Workers = {w1, w2}
  NServers = 2
  MaxConnections = 1
  PoolSize = 2
  MaxArrivals = 3
  MaxFaults = 2
  MaxCrashes = 1
INVARIANTS
  LockOwned
  ListenExclusive
  TagsDropped
PROPERTIES
  PendingServed
  ImplementsCycle
CHECK_DEADLOCK FALSE
