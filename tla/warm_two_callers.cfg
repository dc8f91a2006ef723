SPECIFICATION Spec
CONSTANTS
  Jobs = {j1, j2}
  Instances = {i1, i2}
  NoJob = NoJob
  NoInstance = NoInstance
  WarmPoolSize = 1
  OneShot = FALSE
  Faults = {"dispatch"}
  MaxFaults = 1
  main = main
  poller = poller
  Threads = {main, poller}
  NoThread = NoThread
  MaxBlocks = 2
  WarmPoolTtl = 1
  CancelFinished = TRUE
  Calls <- CancelAndPoll
SYMMETRY Sym
INVARIANTS
  LiveInstanceTracked
  CancelTakesEffect
  NoFalseCompletion
PROPERTIES
  NoResurrection
