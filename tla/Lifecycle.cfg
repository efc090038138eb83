SPECIFICATION FairSpec
CONSTANTS
  NWorkers = 3
  Servers = {s1, s2}
  EventModules = {epoll}
  NApplications = 2
  Daemon = TRUE
  TimerResolution = 1000
  NCpus = 2
  MaxPss = 1024
  MaxFaults = 2
  MaxKills = 1
INVARIANT RunReady
INVARIANT EntriesDistinct
INVARIANT TornDownOnce
PROPERTY Settles
