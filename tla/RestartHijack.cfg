SPECIFICATION RestartFairSpec
CONSTANTS
  ClientIds <- OneNative
  NativeIds <- OneNative
  RespawnLimit = 1
PROPERTIES
  OnlyTheBridgeKeepsLink
