SPECIFICATION FairSpec
CONSTANTS
  s1 = s1
  s2 = s2
  o1 = o1
  Screen = {s1, s2}
  Pushed = {s1}
  Peer = {o1}
  Backlog = 3
  None = None
INVARIANTS
  TypeOK
  ViewIsOfShown
  QuietPartnerIsShown
PROPERTIES
  OnlyEndedCallsTrap
  NobodyIsDisplaced
  LonePartnerIsSeen
  AbandonedAreForgotten
CHECK_DEADLOCK FALSE
