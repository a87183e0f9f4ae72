SPECIFICATION CellsSpec
CONSTANTS
  Adapters <- MCAdapters
  Request = {p1, p2, p3}
  Cell = {"visits", "names", "best"}
  Shape <- MCShape
  Field = {f, g}
  Whole = Whole
  Item = {i}
  Delta = {1}
  ATTEMPTS = 2
INVARIANTS
  CellsTypeOK
  AnswersAreTrue
  LossesAreOthersProgress
PROPERTIES
  PromisedWritesAreAtomic
CHECK_DEADLOCK FALSE
