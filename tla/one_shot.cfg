SPECIFICATION FairSpec
CONSTANTS
  Jobs = {j1, j2}
  Instances = {i1, i2}
  NoJob = NoJob
  NoInstance = NoInstance
  WarmPoolSize = 0
  OneShot = TRUE
  Faults = {"launch", "dispatch", "poll"}
  MaxFaults = 1
  main = main
  poller = poller
  Threads = {main, poller}
  NoThread = NoThread
  MaxBlocks = 2
  WarmPoolTtl = 1
  CancelFinished = FALSE
  Calls <- SubmitAndPoll
INVARIANTS
  NoCollateralKill
  BooksAgree
PROPERTIES
  FinishedBlocksCollected
