SPECIFICATION StreamSpec
CONSTANTS
  Callers = {"main", "sampler"}
  Deadline = 6
  HeaderTimeout = 4
  Service = 1
  BatchSize = 2
  MaxSamples = 2
  MaxAppends = 1
  Logs <- SomeLogs
  Metrics <- SomeMetrics
INVARIANTS
  StreamTypeOK
  RecordBounded
  NoFalseFailure
  NativeInOrder
  StoppedMeansComplete
PROPERTY
  TableImplements
