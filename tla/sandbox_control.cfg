SPECIFICATION CSpec
CONSTANTS
  p1 = p1
  p2 = p2
  Stoppers = {p1, p2}
  Ids <- SomeIds
  Waits = {p1}
  Requests <- OneRequest
  Faults = {}
  CliFaults = {"host", "kill", "rawtree"}
INVARIANTS
  CliTypeOK
  WaitedStopIsFinal
  StopIsNoFailure
PROPERTY
  StopTakesEffect
