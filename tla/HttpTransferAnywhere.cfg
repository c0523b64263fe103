SPECIFICATION Spec
CONSTANTS
  Responses <- Anyhow
  Dests <- FileOrScreen
  MaxData = 5
  BufferSize = 16
  Drops = FALSE
  KeepAlive = TRUE
  MaxRequests = 2
INVARIANT TakenInOrder
