\* One array size, for what the code says of the removal of old data.
CONSTANTS
  Block = {b1, b2, b3, b4}
  Unique = {u1, u2}
  Buffer = {x1, x2}
  Null = Null
  Size = {2}
SPECIFICATION Spec
INVARIANT NothingDeletedTwice
