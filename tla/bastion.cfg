SPECIFICATION FairSpec
CONSTANTS
  Hosts = {1, 2, 3, 4}
  NoHost = NoHost
  NoDocument = NoDocument
  Events = {"refused", "lost", "slow", "delete", "verify", "idle", "crash"}
  MaxEvents = 2
  MaxLeft = 1
INVARIANTS
  OneBastion
  TeardownLeavesNothing
PROPERTIES
  InitializeRecovers
CHECK_DEADLOCK FALSE
