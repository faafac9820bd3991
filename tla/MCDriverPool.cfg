\* Two nodes in one process, which starts once.
CONSTANTS
  Device = {d1, d2}
  NoDevice = NoDevice
  Last = 1
  MaxStarts = 1
SPECIFICATION Spec
INVARIANT AnsweredByOwn
CHECK_DEADLOCK FALSE
