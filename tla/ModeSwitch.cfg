SPECIFICATION FairSpec
CONSTANTS
  Uses <- WithAuto
  Interruptible <- OnlyAuto
INVARIANTS
  TypeOK
  AutoSettled
PROPERTIES
  AutoFollows
  FlossReturns
