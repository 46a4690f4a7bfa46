SPECIFICATION Spec
CONSTANTS
  Person = {ann, bob}
  Writer = {ann}
  Send = {s1, s2}
  MaxKey = 2
  Text = {hi}
  Empty = Empty
  Window = 2
SYMMETRY Symmetry
PROPERTY
  RoomSpec
