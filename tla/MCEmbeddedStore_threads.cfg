SPECIFICATION Spec
CONSTANTS
  a = a
  b = b
  Key = {a, b}
  MaxNum = 1
  Text = Text
  None = None
  NoSeq = NoSeq
  NoProc = NoProc
  Unread = Unread
  Proc = {p1, p2}
  Subscriber = {s1}
  Wants <- MCWants
  Backlog = 2
  WriteLists <- MCTwoWriters
  MaxSeq = 3
INVARIANTS
  PositionsAreConsecutive
  TablesFollowTheLog
PROPERTIES
  CommitsOnFreshReads
  ImplementsContract
