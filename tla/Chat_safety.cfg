SPECIFICATION Spec
CONSTANTS
  Person = {ann}
  Writer = {ann}
  Send = {s1, s2}
  MaxKey = 2
  Text = {hi, yo}
  Empty = Empty
  Window = 2
SYMMETRY Symmetry
INVARIANTS
  TypeOK
  TypedPairsMatch
  EmptyDictationWasDisturbed
