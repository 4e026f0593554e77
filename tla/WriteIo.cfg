SPECIFICATION FairSpec
CONSTANTS
  Helpers = {"rio_write", "http_Writen", "Write_s"}
  MaxText = 6
  MaxLen = 4
  SizeT = 16
  MaxFail = 3
  MaxWire = 10
INVARIANTS
  SendsTheText
  NothingSkipped
  ExtraPerFailure
PROPERTIES
  CallReturns
CHECK_DEADLOCK FALSE
