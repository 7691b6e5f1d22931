SPECIFICATION RestartFairSpec
CONSTANTS
  ClientIds <- MCIds
  NativeIds <- MCIds
  RespawnLimit = 1
INVARIANTS
  RestartInv
PROPERTIES
  LostOnlyWithDaemon
  Relaunched
  NativesEventuallyOut
