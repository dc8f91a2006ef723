SPECIFICATION Spec
CONSTANTS
  Jobs = {j1, j2, j3}
  Instances = {i1, i2, i3}
  NoJob = NoJob
  NoInstance = NoInstance
  WarmPoolSize = 1
  OneShot = FALSE
  Faults = {"launch", "dispatch", "poll", "interrupt"}
  MaxFaults = 1
  main = main
  poller = poller
  Threads = {main}
  NoThread = NoThread
  MaxBlocks = 2
  WarmPoolTtl = 1
  CancelFinished = TRUE
  Calls <- OneCaller
SYMMETRY Sym
INVARIANTS
  AtMostOneCommand
  WarmPoolSound
  NoCollateralKill
  CapacityRespected
