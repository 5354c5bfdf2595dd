SPECIFICATION FairConnectionSpec
CONSTANTS
  Request = 5
  Answer = 3
  Buffer = 3
  Longest = 3
  Room = 2
  LongestHello = 60
  MaxByte = 3
  MaxWord = 20
INVARIANT TypeOK
INVARIANT InOrder
INVARIANT FirstEndIsWhole
INVARIANT ReadsInside
INVARIANT NameInside
PROPERTY Decided
PROPERTY CopiesEnd
CHECK_DEADLOCK FALSE
