CONSTANTS
  IndexBits = 2
  TableFrames <- MCTableFrames
  MemoryMaps <- MCMemoryMaps
  Loads <- MCLoads
  MaxAllocFailures = 1
  NoMap = NoMap
  MadtTables <- MCMadtTables
  MaxSystemCpus = 2
  Devices <- MCDevices
  MsixGarbage <- MCMsixGarbage
  PageSize = 4096

SPECIFICATION Spec

INVARIANTS
  TypeOK
  PageTablesComplete
  LocalApicsTracked
  MsixCapabilityFound
  EnableSetsOnlyEnableBit

PROPERTIES
  MappingRefinement
  BootEnds

