SPECIFICATION OSSpec
CONSTANTS
  HeapBase = 1
  HeapLength = 13
  Sizes = {1, 2, 3}
  Class = {"Memory", "Math"}
  WordBits = 6
  And <- BitAnd
INVARIANTS
  Partitioned
  LengthsKept
  Calculated
  DivideEnds
PROPERTIES
  AllocReturns
CONSTRAINT Sound
