SPECIFICATION Spec
CONSTANTS
  MaxChunks <- ChunkBounds
  MaxInput = 1
  PipeCap = 1
  ChannelCap = 1
  MaxLate = 0
  ExitCodes = {0, 3}
  Faults = {}
INVARIANT
  OutputComplete
