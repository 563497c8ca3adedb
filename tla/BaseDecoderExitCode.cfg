SPECIFICATION Spec
CONSTANTS
  Worker = {w1, w2}
  Sections = 2
  Items = 1
  Timeouts = {1}
  Interval = 2
  UsPerMs = 2
  Uptimes = {0}
  IntMax = 1000
  MaxTime = 3
INVARIANT ExitCodeDefined
