SPECIFICATION MCSpec
CONSTANTS
  Word = 64
  Sizes = {0, 1, 7, 8, 20, 40, 60}
  MaxNum = 4
  Bases = {8, 16, 40}
  Capacities = {0, 5, 9, 12, 40}
  CallerSizes = {2, 5}
  MaxBlocks = 2
  HeapLines <- MCHeapLines
  Numeral <- MCNumeral
  DefaultRounds = 3
  DefaultSize = 2
CHECK_DEADLOCK FALSE
INVARIANTS
  ChunksInside
  ChunksDisjoint
  NullOnFailure
  BlocksSafe
  RoundsAlike
PROPERTY HeapProgramsEnd
