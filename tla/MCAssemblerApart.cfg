SPECIFICATION Spec
CONSTANTS
  Symbols = {a, b, c}
  RegisterCount = 1
  MaxLines = 8
SYMMETRY Interchangeable
CHECK_DEADLOCK FALSE
INVARIANTS
  ResolvedApart
  VariablesDistinct
