SPECIFICATION Spec
CONSTANTS
  Handlers = {h1, h2}
  Main = main
  Names = {n1}
  Keys = {k1, k2, k3}
  Blank = Blank
  NoName = NoName
SYMMETRY Symmetry
INVARIANT DeleteTakesEffect
