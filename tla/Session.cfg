SPECIFICATION FairSpec
CONSTANTS
  p1 = p1
  p2 = p2
  p3 = p3
  Press = {p1, p2, p3}
INVARIANTS
  TypeOK
  NeverAskedAgain
  MenuAwaitsItsUser
  TouchesAreOwed
PROPERTIES
  RegistrySpec
  TouchesReturn
