CONSTANTS
  Capacity = 2
  IndexMod = 4
  N = 5
  Indeterminate = Indeterminate
  Unknown = Unknown
SPECIFICATION SizeSpec
INVARIANT OwnersSizeInRange
PROPERTY RoomIsKept
