SPECIFICATION Spec
CONSTANTS
  a = a
  b = b
  Key = {a, b}
  MaxNum = 4
  Text = Text
  None = None
  NoSeq = NoSeq
  Subscriber = {w1}
  Window = {w1}
  Wants <- MCWantsA
  Backlog = 1
  RETRY_LIMIT = 2
  Generations = {0}
  Survivals = {}
  MaxSeq = 3
  MaxRestarts = 0
PROPERTY ResyncIsNeverSkipped
