SPECIFICATION FilesSpec
CONSTANTS
  MaxAttempts = 2
  Start = "afterCreate"
INVARIANT
  VmIsNamed
