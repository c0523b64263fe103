SPECIFICATION Spec
CONSTANTS
  Servers <- MCServers
  Origin <- MCOrigin
  NoHost = NoHost
  NoConn = NoConn
  Lines = 1
  MaxRedirects = 1
  Faults <- Network
  Dests <- MCDests
  MaxData = 4
  BufferSize = 18
  MaxRequests = 2
  Resources <- MCResources
  Serves <- MCServes
  Target <- MCTarget
  Nothing = Nothing
INVARIANT NothingPending
PROPERTY ImplementsFetch
