SPECIFICATION FairSpec
CONSTANTS
  Millisecond = 2
  Word = 2048
  Requests <- AnyRequests
  Faults <- FaultKinds
INVARIANTS
  NeverPanics
  QuietAfterStopped
  NoDeadlock
PROPERTIES
  Implements
  StopsWhenAsked
  ExitNoticed
  TimeoutBoundsRun
