SPECIFICATION Spec
CONSTANTS
  Clients = {"c1", "c2"}
  Commands = {"start", "stop"}
  Rejected = {}
  Fatal = {}
  Empty = "empty"
  None = "none"
  Encoding <- MCEncoding
  ChunkSize = 2
  BufferSize = 5
  WholeHeaders = FALSE
  MaxRequests = 3
PROPERTY PerformsOnlyTheRequest
