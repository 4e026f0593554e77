SPECIFICATION FairSpec
CONSTANTS
  Readers = {w1}
  Requests <- SmallRequests
  Docs = {"absent", "openable", "unopenable"}
  MaxLine = 5
  SendRoom = 2
INVARIANTS
  OneResponse
  MethodIsReadUnlessDiscarded
  WorksOnOpenDescriptor
PROPERTIES
  LineIsAnswered
  StuckAfterPeerCloses
