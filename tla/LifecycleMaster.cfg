SPECIFICATION Spec
CONSTANTS
  NWorkers = 1
  Servers = {s1, s2}
  EventModules = {epoll}
  NApplications = 2
  Daemon = FALSE
  TimerResolution = 1000
  NCpus = 2
  MaxPss = 1024
  MaxFaults = 0
  MaxKills = 0
INVARIANT MasterOutlives
