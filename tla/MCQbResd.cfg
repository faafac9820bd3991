\* Two events among restarts, truncations, new logs and runs of set-res.
CONSTANTS
  None = None
  Sizes = {2, 3, 4}
  Grid = {1, 5}
  Quiet = 1
  MaxPolls = 2
  MaxRequests = 3
  MaxEvents = 2
  Repeats = FALSE
  SlowHotplug = TRUE
  Fails = TRUE
SPECIFICATION FairSpec
INVARIANTS TypeOK NeverBackwards
PROPERTIES ExactApplied
