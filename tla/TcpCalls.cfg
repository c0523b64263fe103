SPECIFICATION Spec
CONSTANTS
  MaxConn = 3
  Sizes <- MCSizes
  StepSize = 2
  TicksToWait = 2
  MaxLag = 2
INVARIANTS
  OneOpen
  ConnectionToHave
  SentInOrder
  PatientEnough
PROPERTIES
  WaitEnds
  EscEnds
