SPECIFICATION Spec
CONSTANTS
  ControlAddr = 64
  ControlWords = 58
  CoreAddr = 1000
  CoreWords = 4
  WordModulus = 4096
  Specs = {"pair", "solo"}
  SpecData <- MCSpecData
  Layouts = {}
  InitialLayouts <- MCInitialLayouts
  IoLimit = 8
  ChannelLimit = 2
  BusShift = 32
  MemoryShift = 2
  DmaChannels = 2
  MaxCores = 2
  HilClock = 600
  DividerLimit = 4
  FloatDigits = 64
  Saturates = TRUE
  Garbage = {99}
  Values = {50}
  ScopeChannels = {1}
  MaxInputs = 3
  MaxCommands = 1
  MaxSignals = 0
PROPERTIES
  SetInputDrivesDeployedInput
  SelectionIsOfDeployed
