SPECIFICATION Spec
CONSTANTS
  Jobs = {j1, j2}
  Instances = {i1, i2}
  NoJob = NoJob
  NoInstance = NoInstance
  WarmPoolSize = 1
  OneShot = FALSE
  Faults = {"crash", "wait", "dispatch"}
  MaxFaults = 2
  main = main
  poller = poller
  Threads = {main}
  NoThread = NoThread
  MaxBlocks = 2
  WarmPoolTtl = 1
  CancelFinished = TRUE
  Calls <- OneCallerToShutdown
SYMMETRY Sym
INVARIANTS
  StoreCurrent
PROPERTIES
  RestartKeepsJobs
  ShutdownLeavesNothing
