SPECIFICATION FairSpec
CONSTANTS
  Clients = {"c1", "c2"}
  Commands = {"start", "bogus", "compile"}
  Rejected = {"bogus"}
  Fatal = {"compile"}
  Empty = "empty"
  None = "none"
  Encoding <- MCEncoding
  ChunkSize = 2
  BufferSize = 5
  WholeHeaders = TRUE
  MaxRequests = 3
PROPERTIES ServiceProvided RequestEnds DepartedReleased
INVARIANT TypeOK
