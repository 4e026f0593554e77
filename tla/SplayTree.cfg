SPECIFICATION Spec
CONSTANTS
  N = 6
INVARIANTS
  WellFormed
PROPERTIES
  ImplementsOrderedSet
  Answers
  CallReturns
