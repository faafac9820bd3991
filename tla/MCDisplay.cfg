\* One chain, reused; two calls of SetResolution for one of two modes each.
CONSTANTS
  Chain = {c1}
  MaxFrame = 0
  MaxUnreleased = 0
  CreateFails = FALSE
  Mode = {m1, m2}
  NoMode = NoMode
  NoChain = NoChain
  MaxMonitors = 3
  MaxSetCalls = 2
  Faults = {"update", "departure", "d3d", "unassign"}
SPECIFICATION FairSpec
INVARIANTS TypeOK QueuedReplugCanRun NeverTwoMonitors NoMonitorLost ReplugMeansDeparted DeliveredWhenQuiet
PROPERTIES CallbackReturns ModeDelivered
CHECK_DEADLOCK FALSE
