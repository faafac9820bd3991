\* The surface reference the sample driver says must be released.
CONSTANTS
  Chain = {c1}
  MaxFrame = 2
  MaxUnreleased = 2
  CreateFails = TRUE
SPECIFICATION FairSpec
INVARIANT SurfaceReleased
CHECK_DEADLOCK FALSE
