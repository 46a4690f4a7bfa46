SPECIFICATION Spec
CONSTANTS
  Phone <- TwoPhones
  Friends <- TheirFriends
  Caller = {2, 3}
  Window = 10
  MaxCall = 2
  MaxWatcher = 1
INVARIANTS
  TypeOK
  RememberedCallsAgree
  ClocksNeedAnAnswer
PROPERTIES
  LoneCallIsAnswered
  NotificationsStayUntilAnswered
  BoardSpec
