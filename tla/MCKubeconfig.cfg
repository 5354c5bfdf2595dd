SPECIFICATION Spec
CONSTANTS
  Commands = {k1, k2}
  Names = {n1, n2}
  Creds = {good, bad}
  Unusable = {bad}
  Absent = Absent
SYMMETRY Symmetry
INVARIANT TypeOK
INVARIANT CurrentDefined
INVARIANT SavedWhenAlone
INVARIANT EnableFollows
PROPERTY AtomicWhenAlone
