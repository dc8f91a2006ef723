SPECIFICATION FairSpec
CONSTANTS
  Jobs = {j1, j2}
  Instances = {i1, i2}
  NoJob = NoJob
  NoInstance = NoInstance
  WarmPoolSize = 1
  OneShot = FALSE
  Faults = {"launch", "dispatch", "poll"}
  MaxFaults = 1
  main = main
  poller = poller
  Threads = {main}
  NoThread = NoThread
  MaxBlocks = 2
  WarmPoolTtl = 1
  CancelFinished = FALSE
  Calls <- OnePoller
PROPERTIES
  EveryJobSettles
  WarmInstanceLeaves
