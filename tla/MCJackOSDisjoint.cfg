SPECIFICATION OSSpec
CONSTANTS
  HeapBase = 1
  HeapLength = 10
  Sizes = {1, 2}
  Class = {"Memory"}
  WordBits = 2
  And <- BitAnd
INVARIANTS
  Disjoint
CONSTRAINT InModel
