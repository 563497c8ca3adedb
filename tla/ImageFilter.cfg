SPECIFICATION MCSpec
CONSTANTS
  Rows = 5
  Cols = 4
  Teams = {1, 2}
  FilterLines <- MCFilterLines
  Numeral <- MCNumeral
  Programs = {"Gaussian", "Invert", "host"}
  Sizes <- MCSizes
  Thresholds = {255, 300}
  Values = {7, 10, 32, 35}
  MaxPasses = 2
CHECK_DEADLOCK FALSE
INVARIANTS
  FilterSafe
  OutputComplete
  ImageKept
PROPERTY FilterCompletes
