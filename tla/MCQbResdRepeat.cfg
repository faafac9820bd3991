CONSTANTS
  None = None
  Sizes = {2, 3, 4}
  Grid = {1, 3, 5}
  Quiet = 1
  MaxPolls = 2
  MaxRequests = 3
  MaxEvents = 0
  Repeats = TRUE
  SlowHotplug = FALSE
  Fails = FALSE
SPECIFICATION FairSpec
PROPERTY ExactApplied
