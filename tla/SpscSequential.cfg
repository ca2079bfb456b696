\* Three-bit indices: Capacity 0, 1, 2 and 4, every wrap.
CONSTANTS
  Width = 3
  Item = {a, b}
SPECIFICATION Spec
INVARIANTS SizeIsExact SlotsHoldContents
PROPERTY RefusalsAreExact
