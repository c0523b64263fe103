SPECIFICATION Spec
CONSTANTS
  Variables <- MCVariables
  Urls <- MCUrls
  Faults <- AllFaults
INVARIANTS
  UsesConfigured
  DatabaseReady
  DoneIsConfigured
