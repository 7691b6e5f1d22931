SPECIFICATION FairSpec
CONSTANTS
  MaxBridges = 2
  Rest = 4
  Settle = 4
  Pace = 1
  Grace = 1
  Closing = 7
  KillAfter = 10
  Faults <- FaultSets
INVARIANTS
  TypeOK
  OneForwarder
  OneOwnBridge
PROPERTIES
  OnlyACallTakesFile
  StopStopsBridge
