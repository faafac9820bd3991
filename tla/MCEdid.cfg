CONSTANTS
  Pool <- MCPool
  MaxModes = 4
SPECIFICATION Spec
INVARIANTS
  TypeOK
  DecodesToMode
  NoGaps
  BestModes
  ChecksumRight
CHECK_DEADLOCK FALSE
