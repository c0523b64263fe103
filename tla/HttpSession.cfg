SPECIFICATION Spec
CONSTANTS
  Servers <- MCServers
  Origin <- MCOrigin
  NoHost = NoHost
  NoConn = NoConn
  Lines = 3
  MaxRedirects = 10
  Faults <- Network
INVARIANTS
  TypeOK
  RightHost
  KeptToItsHost
PROPERTIES
  WholeRequest
  RequestEnds
