\* Two interchangeable chains, one call of SetResolution; every call may
\* fail, and the OS and the caller do as they like.
CONSTANTS
  Chain = {c1, c2}
  MaxFrame = 0
  MaxUnreleased = 0
  CreateFails = FALSE
  Mode = {m1}
  NoMode = NoMode
  NoChain = NoChain
  MaxMonitors = 2
  MaxSetCalls = 1
  Faults = {"adapter", "create", "arrival", "update", "departure", "d3d", "registry",
            "unassign", "early"}
SPECIFICATION Spec
SYMMETRY Symmetry
INVARIANTS WorkerIsHeld NeverTwoMonitors
PROPERTIES KeepsCustody RunsProcessors
CHECK_DEADLOCK FALSE
