SPECIFICATION ChipsSpec
CONSTANTS
  Word = {0, 1}
  Address = {0, 1}
  Waves <- ClockLast
  RomWaves <- ReadAddressLate
  Placements <- SomePlacements
INVARIANTS
  RisingEdgeCounts
  IncrementsOnce
  RisingEdgeStores
  StoresOnce
  ShowsData
  WrittenOnce
PROPERTIES
  ImplementMemories
