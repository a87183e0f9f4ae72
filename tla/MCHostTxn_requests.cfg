SPECIFICATION Spec
CONSTANTS
  n = n
  l = l
  p1 = p1
  p2 = p2
  MaxNum = 2
  Text = Text
  None = None
  Unread = Unread
  Counter = {n}
  List = {l}
  Proc = {p1, p2}
  Invocations <- MCInvocations
  ATTEMPTS = 2
  MaxStarted = 3
CHECK_DEADLOCK FALSE
INVARIANTS
  TypeOK
  BlindWritesNeverConflict
  ConflictsAreProgress
PROPERTIES
  CommitsAreSerial
  EveryRequestIsAnswered
