CONSTANTS
  Chain = {c1}
  MaxFrame = 1
  MaxUnreleased = 0
  CreateFails = FALSE
  Mode = {m1}
  NoMode = NoMode
  NoChain = NoChain
  MaxMonitors = 2
  MaxSetCalls = 1
  Faults = {"update", "unassign"}
SPECIFICATION FairSpec
INVARIANT OneMonitor
CHECK_DEADLOCK FALSE
