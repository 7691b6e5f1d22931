SPECIFICATION Spec
CONSTANTS
  Uses <- ManualOnly
  Interruptible <- OnlyManual
PROPERTIES
  PogoStopsBridge
