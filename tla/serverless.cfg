SPECIFICATION Spec
CONSTANTS
  Jobs = {j1, j2}
  NoJob = NoJob
  Threads = {"main", "poller"}
  Calls <- MCCalls
  Mixes <- MCMixes
  Events = {"refused", "lost", "capacity", "rollback", "describe", "delete",
            "delete_failed", "reclaim", "forget", "crash"}
  MaxEvents = 1
SYMMETRY Symmetry
INVARIANTS
  NoFalseCompletion
  ReleasedJobStops
  ShutdownLeavesNothing
PROPERTIES
  NoCollateralDelete
CHECK_DEADLOCK FALSE
