SPECIFICATION Spec
CONSTANTS
  Workers = {w1, w2}
  Names = {n1, n2, n3, "register", ""}
  Funcs = {f1, f2}
SYMMETRY Symmetry
INVARIANTS
  TypeOK
  FirstBindingStays
  ListedIsBound
  BoundBeforeIsListed
