SPECIFICATION FairSpec
CONSTANTS
  ControlAddr = 64
  ControlWords = 58
  CoreAddr = 1000
  CoreWords = 4
  WordModulus = 1024
  Specs = {"solo", "wide", "refused", "malformed", "many", "empty", "brisk", "frantic"}
  SpecData <- MCSpecData
  Layouts <- MCInitialLayouts
  InitialLayouts <- MCNoLayouts
  IoLimit = 8
  ChannelLimit = 2
  BusShift = 32
  MemoryShift = 2
  DmaChannels = 2
  MaxCores = 2
  HilClock = 600
  DividerLimit = 4
  FloatDigits = 16
  Saturates = TRUE
  Garbage = {99}
  Values = {}
  ScopeChannels = {}
  MaxInputs = 1
  MaxCommands = 0
  MaxSignals = 0
INVARIANTS
  AccessRestored
PROPERTIES
  CommandsEnd
  FrequencyIsOfDeployed
  SimulationLeavesHardware
