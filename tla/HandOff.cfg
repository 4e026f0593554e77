SPECIFICATION FairSpec
CONSTANTS
  NoClient = NoClient
  Clients = {c1, c2, c3}
  Workers = {w1, w2, w3}
  MaxHeld = 2
  ChanCap = 2
  MaxFail = 1
INVARIANTS
  CopiesBounded
  NothingLost
  ServedOnce
PROPERTIES
  ImplementsDispatch
  InFlightIsTaken
  SendingEnds
\* Every process may have been killed.
CHECK_DEADLOCK FALSE
