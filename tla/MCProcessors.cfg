\* One chain, frame numbers that wrap after 2.
CONSTANTS
  Chain = {c1}
  MaxFrame = 2
  MaxUnreleased = 2
  CreateFails = TRUE
SPECIFICATION MCSpec
INVARIANTS TypeOK NoUseAfterFree ChainDeletedOnce SignalNotLost SampleReleasesSurface
PROPERTIES QubesDestructorReturns MSDestructorReturns FrameServed
CHECK_DEADLOCK FALSE
