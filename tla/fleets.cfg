SPECIFICATION Spec
CONSTANTS
  Jobs = {j1, j2}
  NoJob = NoJob
  Fleets = {f1, f2}
  Nodes = {n1, n2}
  Events <- AllEvents
  MaxEvents = 1
  main = main
  poller = poller
  Threads = {main, poller}
  Calls <- MainAndPoller
INVARIANTS
  FleetRunsItsJob
  FailedSubmitRunsNothing
  NoFalseCompletion
  ReleasedFleetStops
  ShutdownLeavesNothing
PROPERTIES
  InterruptionIsSticky
SYMMETRY Sym
CHECK_DEADLOCK FALSE
