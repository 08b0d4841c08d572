SPECIFICATION Spec
CONSTANTS
  ControlAddr = 8
  ControlWords = 2
  CoreAddr = 40
  CoreWords = 1
  WordModulus = 64
  Addresses <- MCAddresses
  Values <- MCValues
  Programs <- MCPrograms
  Filters <- MCFilters
  Buffers <- MCBuffers
  MaxOperations = 2
INVARIANTS
  TypeOK
  RenderingKeepsEffect
PROPERTIES
  HardwareFollowsLog
  UnloadedRegistersUntouched
