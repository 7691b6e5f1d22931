SPECIFICATION FairSpec
CONSTANTS
  a1 = a1
  a2 = a2
  NoAddr = NoAddr
  Addrs <- TwoAddrs
  ClientIds <- OneId
  Handles <- OneHandle
  FirstBonds <- BothBonded
  GivenAddrs <- NotGiven
  MaxOut = 1
PROPERTIES
  EveryCandidateTried
CHECK_DEADLOCK FALSE
