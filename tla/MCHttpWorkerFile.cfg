SPECIFICATION FairSpec
CONSTANTS
  Readers = {w1}
  Requests <- SmallRequests
  Docs = {"absent", "openable", "unopenable"}
  MaxLine = 5
  SendRoom = 3
PROPERTY
  FileIsSent
