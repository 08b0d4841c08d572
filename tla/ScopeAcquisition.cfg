SPECIFICATION Spec
CONSTANTS
  ControlAddr = 64
  ControlWords = 25
  CoreAddr = 400
  CoreWords = 1
  WordModulus = 64
  MuxBase = 0
  TbBase = 4
  InternalBase = 16
  NChannels = 2
  BufferSize = 2
  ScopeAddresses = {64, 112}
  Bases = {0, 64, 112, 160}
  BufferOffsets = {24, 136}
  Acquisitions <- MCAcquisitions
  Scalings <- NoScalings
  Statuses <- BothChannels
  TriggerStatuses = {3}
  Buffers = {70}
  Captures <- NoCaptures
  Garbage = {0, 11}
  MaxOperations = 0
INVARIANTS TypeOK AcquisitionInHardware
