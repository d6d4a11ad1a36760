CONSTANTS
  INPUT_PIN_LIMIT = 1000
  in = in
  load = load
  out = out
  latch = latch
  missing = missing
  a = a
  b = b
  Variables = {a, b}
  Loadable = {latch}
  Types = {latch, missing}
  Chips <- MCChips
  Hidden = {FALSE, TRUE}
  Fresh <- MCFresh
  Eval <- MCEval
  MAX_INT = 7
  Sets <- MCSets
  Conditions <- MCConditions
  MaxTests = 2
  MaxStatements = 5
SPECIFICATION FileSpec
INVARIANTS
  BusReadsItsPlaces
  VerdictsAlone
PROPERTY
  SetReads
CHECK_DEADLOCK FALSE
