SPECIFICATION Spec
CONSTANTS
  Worker = {dsp}
  MaxRegions = 2
  Timeouts = {6}
  UsPerSecond = 4
  Uptimes = {5}
  MaxTime = 15
  FreqScale = 2
  CancelLatencyMs = 2
INVARIANT TimeoutHasPassed
