SPECIFICATION Spec
CONSTANTS
  Jobs = {j1, j2}
  NoJob = NoJob
  Threads = {"main", "poller"}
  Calls <- MCCalls
  Mixes <- MCMixes
  Events = {}
  MaxEvents = 0
SYMMETRY Symmetry
INVARIANTS
  CompletedJobRan
CHECK_DEADLOCK FALSE
