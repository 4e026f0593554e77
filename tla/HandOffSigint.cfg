SPECIFICATION FairSpec
CONSTANTS
  NoClient = NoClient
  Clients = {c1, c2, c3}
  Workers = {w1, w2}
  MaxHeld = 2
  ChanCap = 1
  MaxFail = 1
PROPERTIES
  SigintReachesWorkers
CHECK_DEADLOCK FALSE
