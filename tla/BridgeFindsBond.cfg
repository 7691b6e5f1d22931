SPECIFICATION FairSpec
CONSTANTS
  a1 = a1
  a2 = a2
  NoAddr = NoAddr
  Addrs <- OneAddr
  ClientIds <- OneId
  Handles <- OneHandle
  FirstBonds <- SomeBonded
  GivenAddrs <- NotGiven
  MaxOut = 1
PROPERTIES
  FindsBond
CHECK_DEADLOCK FALSE
