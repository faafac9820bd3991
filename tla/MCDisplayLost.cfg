CONSTANTS
  Chain = {c1}
  MaxFrame = 1
  MaxUnreleased = 0
  CreateFails = FALSE
  Mode = {m1}
  NoMode = NoMode
  NoChain = NoChain
  MaxMonitors = 2
  MaxSetCalls = 1
  Faults = {}
SPECIFICATION FairSpec
PROPERTY LostChainReplugs
CHECK_DEADLOCK FALSE
