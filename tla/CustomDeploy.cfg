SPECIFICATION CoresSpec
CONSTANTS
  ControlAddr = 64
  ControlWords = 58
  CoreAddr = 1000
  CoreWords = 4
  WordModulus = 4096
  Specs = {"lone"}
  CustomSpecs = {"bench", "triangle"}
  SpecData <- MCCustomSpecData
  Layouts <- MCLayouts
  InitialLayouts <- MCNoLayouts
  IoLimit = 8
  ChannelLimit = 2
  BusShift = 32
  MemoryShift = 2
  DmaChannels = 2
  MaxCores = 2
  HilClock = 600
  DividerLimit = 4
  FloatDigits = 64
  Saturates = TRUE
  Garbage = {99}
  Values = {}
  ScopeChannels = {}
  MaxInputs = 0
  MaxCommands = 1
  MaxSignals = 0
  MaxRandomInputs = 2
INVARIANTS
  CoresTypeOK
  CustomConfigurationInHardware
  CustomConstantsInEngine
  CachedSimulationIsComplete
