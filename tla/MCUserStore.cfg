SPECIFICATION FairSpec
CONSTANTS
  Callers = {main, h1, h2}
  Main = main
  Names = {n1, n2}
  Keys = {k1, k2, k3, k4}
  Free = Free
  Blank = Blank
  Missing = Missing
INVARIANT TypeOK
INVARIANT OneUserPerName
INVARIANT UsersFileReadable
PROPERTY NoResurrection
PROPERTY ImplementsDirectory
PROPERTY LockReleased
