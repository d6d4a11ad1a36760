SPECIFICATION SessionSpec
CONSTANTS
  INPUT_PIN_LIMIT = 4
  Counts = {1, 2}
  Shapes <- GateShapes
  MaxOutputs = 2
  MaxSubgates = 2
  MaxWires = 1
CONSTRAINTS
  Small
  SmallWindow
INVARIANTS
  TypeOK
  Coherent
  OneNumberEach
  GuiTypeOK
  NumberedAsShown
  WindowWired
