SPECIFICATION Spec
CONSTANTS
  MaxInstalls = 3
  Roots <- AllRoots
INVARIANTS
  TypeOK
  Recoverable
  OriginalOnDisk
  RollbackComplete
  PreloadStaged
PROPERTIES
  InstallComplete
  ImplementsSafeUpdate
