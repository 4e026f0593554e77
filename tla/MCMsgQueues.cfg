SPECIFICATION FairSpec
CONSTANTS
  Main = main
  Children = {c1}
  Ids <- MCIds
  Cap = 1
  MaxRun = 2
INVARIANTS
  NoQueueLeft
  RemovedInOrder
PROPERTIES
  SparesOthers
  WaiterIsReleased
CHECK_DEADLOCK FALSE
