SPECIFICATION Spec
CONSTANTS
  Person = {ann}
  Writer = {ann}
  Send = {s1, s2}
  MaxKey = 2
  Text = {hi}
  Empty = Empty
  Window = 2
INVARIANT
  ObserverUnwrapsText
