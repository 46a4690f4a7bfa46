SPECIFICATION Spec
CONSTANTS
  Friend = {f1, f2}
  Request = {r1, r2}
  MaxRows = 1
  MaxVersion = 2
SYMMETRY Symmetry
PROPERTY
  RefreshIsFresh
