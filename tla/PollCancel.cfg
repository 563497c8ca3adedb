SPECIFICATION FairSpec
CONSTANTS
  Worker = {dsp}
  MaxRegions = 2
  Timeouts <- MCTimeouts
  UsPerSecond = 9
  Uptimes = {0}
  MaxTime = 14
  Items = 3
  Numeral <- MCNumeral
  CommandLines <- MCCommandLines
  DefaultTimeoutMs = 4
  UsPerMs = 3
  Word = 32
INVARIANTS
  StatusSound
  StatusNotEarly
PROPERTY Terminates
