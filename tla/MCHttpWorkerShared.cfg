SPECIFICATION Spec
CONSTANTS
  Readers = {w1, w2}
  Requests <- SharedRequests
  Docs = {"openable"}
  MaxLine = 4
  SendRoom = 1
SYMMETRY Interchangeable
INVARIANTS
  OnePagePerMethod
  WorksOnOpenDescriptor
\* The workers and the master may be gone.
CHECK_DEADLOCK FALSE
