SPECIFICATION EitherFairSpec
CONSTANTS
  a1 = a1
  a2 = a2
  NoAddr = NoAddr
  Addrs <- TwoAddrs
  ClientIds <- OneId
  Handles <- OneHandle
  FirstBonds <- OneOrBoth
  GivenAddrs <- GivenOrNot
  MaxOut = 1
PROPERTIES
  EventuallyArmed
  KeepsTrying
  StopEnds
CHECK_DEADLOCK FALSE
