SPECIFICATION BoardSpec
CONSTANTS
  not = not
  and = and
  bit = bit
  Chips = {not, and, bit}
  Needs <- Layers
  Precomputed = {not, and}
  Breakable = {not, and, bit}
  MaxImages = 2
CONSTRAINT FewImages
CHECK_DEADLOCK FALSE
INVARIANTS
  NeedsFound
  LoadedWired
PROPERTIES
  LoadEnds
