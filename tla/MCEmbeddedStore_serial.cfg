SPECIFICATION LiveSpec
CONSTANTS
  a = a
  b = b
  Key = {a, b}
  MaxNum = 1
  Text = Text
  None = None
  NoSeq = NoSeq
  NoProc = NoProc
  Unread = Unread
  Proc = {p1}
  Subscriber = {s1}
  Wants <- MCWants
  Backlog = 2
  WriteLists <- MCWriteLists
  MaxSeq = 4
INVARIANTS
  TypeOK
  BacklogIsTheLogsTail
  NothingLost
PROPERTY UpdatesArrive
