SPECIFICATION Spec
CONSTANTS
  Responses <- TwoChunks
  Dests <- File
  MaxData = 5
  BufferSize = 16
  Drops = FALSE
  KeepAlive = FALSE
  MaxRequests = 1
INVARIANT WholeBody
