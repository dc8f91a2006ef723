SPECIFICATION FairSpec
CONSTANTS
  Jobs = {j1}
  Instances = {i1, i2, i3}
  NoJob = NoJob
  NoInstance = NoInstance
  NodesPerBlock = 2
  Events = {"crash", "call", "put", "list", "client_call", "slow_submit", "stale_list", "slow_boot", "slow_stop", "reclaim", "forget", "overlap", "idle"}
  MaxEvents = 2
INVARIANTS
  TypeOK
  LaunchedOnce
  NoFalseCompletion
  NoFalseCancellation
  NoOrphan
  CancelStopsWorkers
PROPERTIES
  FinalStays
  EveryJobSettles
CHECK_DEADLOCK FALSE
