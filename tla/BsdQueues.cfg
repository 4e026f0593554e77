SPECIFICATION Spec
CONSTANTS
  Elements = {e1, e2, e3}
  Null = Null
  ListHead = ListHead
  Junk = Junk
INVARIANTS
  WellLinked
  ForeachVisitsAll
PROPERTIES
  ImplementsItems
