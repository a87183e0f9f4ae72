SPECIFICATION LiveSpec
CONSTANTS
  NoId = NoId
  Page = {w1, w2}
  MaxEdits = 2
  MaxRestarts = 1
INVARIANTS
  TypeOK
  NoRebuildIsLost
PROPERTY SavesAreServed
