SPECIFICATION Spec
CONSTANTS
  Millisecond = 2
  Word = 2048
  Requests <- OrderlyRequests
  Faults <- OrderlyFaults
INVARIANTS
  TypeOK
  StopReasonFaithful
  NoOrphanedVmm
PROPERTY
  Implements
