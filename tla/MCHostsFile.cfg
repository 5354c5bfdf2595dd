SPECIFICATION Spec
CONSTANTS
  Domains = {d1, d2}
  Others = {a, b}
  Blank = Blank
  BlockStart = BlockStart
  BlockEnd = BlockEnd
  Nothing = Nothing
  MaxLines = 5
INVARIANT TypeOK
INVARIANT EditTakesEffect
INVARIANT OthersKept
INVARIANT EditsSettle
INVARIANT AllOrNone
PROPERTY NothingLost
