SPECIFICATION FilesSpec
CONSTANTS
  MaxAttempts = 3
  Start = "afterSupervisor"
INVARIANTS
  FilesTypeOK
  StateWhole
  VmIsNamed
  CreatedIsOwn
PROPERTY
  RegisterImplements
