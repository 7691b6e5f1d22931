SPECIFICATION EitherSpec
CONSTANTS
  a1 = a1
  a2 = a2
  NoAddr = NoAddr
  Addrs <- TwoAddrs
  ClientIds <- OneId
  Handles <- TwoHandles
  FirstBonds <- BothBonded
  GivenAddrs <- GivenOrNot
  MaxOut = 2
INVARIANTS
  TypeOK
  IndexAligned
  ArmedWhenQuiet
  NoReportLost
  QueueBound
  OneRegistration
PROPERTIES
  ImplementsLife
CHECK_DEADLOCK FALSE
