SPECIFICATION Spec
CONSTANTS
  Millisecond = 2
  Word = 2048
  Requests <- OrderlyRequests
  Faults = {"rawtree"}
INVARIANT
  MarksStopped
