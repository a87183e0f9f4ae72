SPECIFICATION Spec
CONSTANTS
  Site <- MCSites
  Programs <- MCPrograms
  UNFOLDINGS = 6
INVARIANTS
  SummariesAreExact
PROPERTIES
  ReturnsASolution
CHECK_DEADLOCK FALSE
