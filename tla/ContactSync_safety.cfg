SPECIFICATION FairSpec
CONSTANTS
  Friend = {f1, f2}
  Request = {r1}
  MaxRows = 2
  MaxVersion = 2
INVARIANTS
  TypeOK
  FriendsHaveRows
PROPERTIES
  SyncShowsTheReply
  DirectorySpec
  SyncLoopDescends
  SyncEnds
