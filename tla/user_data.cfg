SPECIFICATION Spec
CONSTANTS
  Jobs = {j1, j2}
  Instances = {i1, i2}
  NoJob = NoJob
  NoInstance = NoInstance
  WarmPoolSize = 0
  OneShot = FALSE
  Faults = {"launch", "poll", "terminate", "forget", "interrupt"}
  MaxFaults = 1
  main = main
  poller = poller
  Threads = {main}
  NoThread = NoThread
  MaxBlocks = 1
  WarmPoolTtl = 1
  CancelFinished = FALSE
  Calls <- OneCaller
SYMMETRY Sym
INVARIANTS
  TypeOK
PROPERTIES
  TerminalIsFinal
