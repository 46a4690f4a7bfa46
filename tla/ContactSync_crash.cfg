SPECIFICATION Spec
CONSTANTS
  Friend = {f1}
  Request = {r1}
  MaxRows = 2
  MaxVersion = 1
INVARIANT
  RefreshFindsRow
