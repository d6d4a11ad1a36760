SPECIFICATION FairSpec
CONSTANTS
  WordSize = 2048
  RamSize = 80
  And <- BitAnd
  Programs <- AllPrograms
  Segments <- Layout
  Heap <- HeapAddresses
PROPERTIES
  ImplementsMachine
  JackRuns
