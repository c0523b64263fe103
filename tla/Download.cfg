SPECIFICATION Spec
CONSTANTS
  Lengths <- MCLengths
  Widths <- MCWidths
  Extra = 1
  BufferSize = 3
  TicksToWait = 4
  TimerRange = 4
  MaxLag = 2
INVARIANTS
  BarHonest
  FileSize
  PatientEnough
PROPERTY DownloadEnds
