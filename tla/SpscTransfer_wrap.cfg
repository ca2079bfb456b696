\* Four slots, three-bit indices: eighteen items wrap the indices twice.
CONSTANTS
  Capacity = 4
  IndexMod = 8
  N = 18
  Indeterminate = Indeterminate
SPECIFICATION Spec
INVARIANTS TypeOK InOrder DataRaceFree StaleCacheIsSafe Inv
PROPERTIES AllTransferred ImplementsFifo
