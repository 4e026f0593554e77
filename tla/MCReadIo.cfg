SPECIFICATION FairSpec
CONSTANTS
  Stream <- SmallStream
  MaxLen = 4
  RioSize = 5
  SizeT = 32
  MaxFail = 2
INVARIANTS
  TypeOK
  GivesTheStream
  OneLinePerCall
PROPERTIES
  CallReturns
CHECK_DEADLOCK FALSE
