SPECIFICATION LiveSpec
CONSTANTS
  a = a
  b = b
  Key = {a, b}
  MaxNum = 4
  Text = Text
  None = None
  NoSeq = NoSeq
  Subscriber = {w1}
  Window = {w1}
  Wants <- MCWantsBoth
  Backlog = 1
  RETRY_LIMIT = 2
  Generations = {0, 2}
  Survivals = {TRUE, FALSE}
  MaxSeq = 3
  MaxRestarts = 1
INVARIANTS
  TypeOK
  StoppedPagesSaySo
  ResumedPagesAreCurrent
PROPERTIES
  AnswersNeverGoBack
  RetriesEnd
