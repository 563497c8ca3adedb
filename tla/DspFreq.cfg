SPECIFICATION FairSpec
CONSTANTS
  Worker = {dsp}
  MaxRegions = 2
  Timeouts <- MCTimeouts
  UsPerSecond = 4
  Uptimes = {0, 5}
  MaxTime = 15
  FreqScale = 2
  CancelLatencyMs = 2
INVARIANTS
  VerdictKept
  LeftForReason
PROPERTY LoopLeft
