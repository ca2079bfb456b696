\* Two slots, two-bit indices; eight items in each test case.
CONSTANTS
  Capacity = 2
  IndexMod = 4
  Indeterminate = Indeterminate
  Iterations = 8
  Batches = 4
  BatchSize = 2
SPECIFICATION Spec
INVARIANTS Inv ItemsMatch DataRaceFree
PROPERTIES AllJoin PlaysRoundTrips
