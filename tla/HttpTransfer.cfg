SPECIFICATION Spec
CONSTANTS
  Responses <- Readable
  Dests <- AllDests
  MaxData = 5
  BufferSize = 16
  Drops = TRUE
  KeepAlive = TRUE
  MaxRequests = 2
INVARIANTS
  TypeOK
  WholeBody
  InSync
PROPERTIES
  FramingKnown
  TransferEnds
