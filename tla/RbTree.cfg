SPECIFICATION RbSpec
CONSTANTS
  N = 9
INVARIANTS
  RbWellFormed
  NoNullFollowed
  LookupsAgree
PROPERTIES
  RbImplementsOrderedSet
