SPECIFICATION Spec
CONSTANTS
  ControlAddr = 64
  ControlWords = 12
  CoreAddr = 400
  CoreWords = 1
  WordModulus = 16777216
  MuxBase = 0
  TbBase = 4
  InternalBase = 16
  NChannels = 2
  BufferSize = 2
  ScopeAddresses = {}
  Bases = {}
  BufferOffsets = {}
  Acquisitions <- NoAcquisitions
  Scalings <- MCScalings
  Statuses <- SomeChannels
  TriggerStatuses = {}
  Buffers = {70}
  Captures <- WideCaptures
  Garbage = {0, 11}
  MaxOperations = 0
PROPERTY EverySlotAnswered
