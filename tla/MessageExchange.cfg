SPECIFICATION MCSpec
CONSTANTS
  Loops = {0, 1, 2, 3}
  MaxRuns = 3
  Faults = {"open", "put", "get", "sync", "data"}
  MaxFaults = 2
  Processors = 4
  NUMLOOPS = 3
  NumBlocks = 1
  Thread = {t1, t2, t3}
  LOOPS = 2
  MaxRestarts = 1
CHECK_DEADLOCK FALSE
INVARIANTS
  OneMessage
  InStep
  HoldsWhatItUses
  RingSafe
  ThreadsSafe
PROPERTY ProgramsComplete
