SPECIFICATION OneShotSpec
CONSTANTS
  Millisecond = 2
  Word = 2048
  Requests <- SomeRequests
  Faults <- FaultKinds
INVARIANTS
  ExitMeansExited
PROPERTIES
  OneShotImplements
  EveryRunEnds
