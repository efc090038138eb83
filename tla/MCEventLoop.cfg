SPECIFICATION Spec
CONSTANTS
  l1 = l1
  l2 = l2
  fl1 = fl1
  fl2 = fl2
  Slots = {l1, l2, s1, s2}
  NServers = 2
  Servers <- MCServers
  AppOf <- MCAppOf
  ListenFd <- MCListenFd
  Fds = {f1, f2}
  NoFd = NoFd
  NoSlot = NoSlot
  MaxConnections = 2
  CtlFaults = {"add"}
SYMMETRY Symm
INVARIANTS
  NoAssertFails
  PoolPartition
  FdsOwned
  InterestExact
  EventsFresh
  PostedLive
  ListenOnlyLocked
  NoBufferLeak
  IInv
PROPERTIES
  ClosesOwnFd
  ImplementsCycle
