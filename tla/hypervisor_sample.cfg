SPECIFICATION Spec
CONSTANTS
  Comms <- SomeComms
  Paths <- SomePaths
INVARIANTS
  SampleFaithful
  CgroupInside
