SPECIFICATION Spec
CONSTANTS
  Worker = {w1, w2}
  MaxRegions = 2
  Timeouts = {2, 4, 100}
  UsPerSecond = 4
  Uptimes = {0}
  MaxTime = 6
  Repeat = 3
  Items = 2
SYMMETRY WorkerSymmetry
INVARIANTS
  VerdictKept
  AtMostOneLateRegion
PROPERTY ImplementsContract
