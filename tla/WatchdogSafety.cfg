SPECIFICATION Spec
CONSTANTS
  ClientIds <- MCClientIds
  NativeIds <- MCNativeIds
INVARIANTS
  TypeOK
  FileNamesBridge
  OwnClientKept
  BridgeNotBlocked
PROPERTIES
  NativesSparedBeforeId
