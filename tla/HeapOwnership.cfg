\* Two variables of each class, four blocks, so that blocks run out and are reused.
CONSTANTS
  Block = {b1, b2, b3, b4}
  Unique = {u1, u2}
  Buffer = {x1, x2}
  Null = Null
  Size = {0, 2}
SPECIFICATION Spec
INVARIANTS OwnersPartitionHeap FaultNeedsThrow
