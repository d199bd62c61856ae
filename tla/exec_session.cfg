SPECIFICATION SessionSpec
CONSTANTS
  MaxChunks <- ChunkBounds
  MaxInput = 2
  PipeCap = 1
  ChannelCap = 1
  MaxLate = 2
  ExitCodes = {0, 3}
  Faults <- FaultKinds
INVARIANTS
  TypeOK
  NothingAfterExit
  OutputInOrder
  ExitCodeFaithful
  OneTerminalEvent
  InputInOrder
  NobodyStuck
PROPERTIES
  WindsDown
  ExitDelivered
