SPECIFICATION Spec
CONSTANTS
  MaxInstalls = 3
INVARIANTS
  TypeOK
  RollbackRestores
  EndsRunning
  OriginalOnDisk
PROPERTIES
  ImplementsSafeUpdate
