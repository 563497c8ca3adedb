SPECIFICATION FairSpec
CONSTANTS
  Worker = {a, b}
  TaskA = a
  TaskB = b
  MaxRegions = 3
  Timeouts = {1, 3, 9}
  UsPerSecond = 4
  Uptimes = {0, 3}
  MaxTime = 6
  Items = 2
  Numeral <- MCNumeral
  CommandLines <- MCCommandLines
  DefaultTimeout = 9
INVARIANTS
  TasksSafe
  LateItemsBounded
  CompleteUnlessReported
PROPERTY Terminates
