SPECIFICATION FairSpec
CONSTANTS
  Worker = {w1, w2}
  MaxRegions = 2
  Timeouts = {2, 100}
  UsPerSecond = 4
  Uptimes = {0}
  MaxTime = 4
INVARIANTS
  TypeOK
  CancelJustified
  LateItemsBounded
  CancelReported
  HandleFreedUnused
PROPERTIES
  ImplementsContract
  Terminates
