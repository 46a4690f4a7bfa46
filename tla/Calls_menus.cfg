SPECIFICATION Spec
CONSTANTS
  Phone <- TwoPhones
  Friends <- LargeFriends
  Caller = {3}
  Window = 1
  MaxCall = 2
  MaxWatcher = 2
INVARIANTS
  AnsweredCallsWerePlaced
PROPERTIES
  BoardSpec
