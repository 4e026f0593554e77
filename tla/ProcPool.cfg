SPECIFICATION Spec
CONSTANTS
  NProc = 3
  MaxFd = 1
  MaxPid = 6
  MaxNotices = 4
INVARIANTS
  LiveChildrenRecorded
  OneNodePerChild
  DealtEvenly
PROPERTY
  TellEndsChildrenOnly
\* The master may have ended after its children.
CHECK_DEADLOCK FALSE
