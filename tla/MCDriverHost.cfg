\* Two nodes in one process; four logs and a start more than fills them.
CONSTANTS
  Device = {d1, d2}
  NoDevice = NoDevice
  Last = 3
  MaxStarts = 5
SPECIFICATION Spec
SYMMETRY Symmetry
INVARIANTS TypeOK InOrder RotationShifts OverwriteMeansStuck NoBadPointer HdrHasItsCallbacks AloneAnsweredByOwn
PROPERTY OldestGoesFirst
CHECK_DEADLOCK FALSE
