SPECIFICATION FairSpec
CONSTANTS
  Worker = {w1, w2}
  Sections = 2
  Items = 1
  Timeouts = {2}
  Interval = 2
  UsPerMs = 2
  Uptimes = {1}
  IntMax = 1000
  MaxTime = 3
INVARIANTS
  OkMeansComplete
  AtMostOneLateRegion
PROPERTIES
  NoticedWithinInterval
  Terminates
