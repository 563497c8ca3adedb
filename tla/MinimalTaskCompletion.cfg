SPECIFICATION Spec
CONSTANTS
  Worker = {w1}
  MaxRegions = 2
  Timeouts = {3}
  UsPerSecond = 4
  Uptimes = {0}
  MaxTime = 5
INVARIANT CompletionReported
