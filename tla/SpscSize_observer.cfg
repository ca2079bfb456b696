CONSTANTS
  Capacity = 2
  IndexMod = 8
  N = 4
  Indeterminate = Indeterminate
  Unknown = Unknown
SPECIFICATION SizeSpec
INVARIANT ObserverSizeIsPlausible
