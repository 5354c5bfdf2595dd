SPECIFICATION FairAuditSpec
CONSTANTS
  Handlers = {h1, h2}
  Main = main
  Names = {n1}
  Keys = {k1}
  Blank = Blank
  NoName = NoName
  Free = Free
  MaxLog = 2
INVARIANT LogTypeOK
INVARIANT CutCostsOne
PROPERTY Answered
