\* Three runs and two; cycles that tie, precede and follow each other.
CONSTANTS
  Configs <- MCConfigs
  Repeats = 2
  RepeatsTC1 = 3
  Values <- MCValues
  Unsupported = Unsupported
  Scale = 1
SPECIFICATION Spec
INVARIANT RowsAreMedians
