------------------------- MODULE ContactSync_proofs -------------------------
(***************************************************************************)
(* ContactSync for any set of friends, any number of refreshes in flight   *)
(* and any bounds: types, and the invariant that the friends a reply lists *)
(* end up stored and nothing names a friend without a row.                 *)
(***************************************************************************)
EXTENDS ContactSync, TLAPS

USE DEF StoredOwner, AddressBook, AddContacts, AddConversation

\* Adding a row adds its friend.
LEMMA AppendStores ==
  ASSUME NEW row \in Row, rows \in Seq(Row), rows' = Append(rows, row)
  PROVE  /\ rows' \in Seq(Row) /\ Len(rows') = Len(rows) + 1
         /\ \A k \in 1..Len(rows) : rows'[k] = rows[k]
         /\ rows'[Len(rows) + 1] = row
         /\ Stored' = Stored \cup {row.id}
<1>1. /\ rows' \in Seq(Row) /\ Len(rows') = Len(rows) + 1
      /\ \A k \in 1..Len(rows) : rows'[k] = rows[k]
      /\ rows'[Len(rows) + 1] = row
  OBVIOUS
<1>2. DOMAIN rows = 1..Len(rows) /\ DOMAIN rows' = 1..(Len(rows) + 1)
  BY <1>1
<1>3. Stored' = Stored \cup {row.id}
  BY <1>1, <1>2 DEF Stored
<1>. QED BY <1>1, <1>3

LEMMA SingletonIsSeq ==
  ASSUME NEW S, NEW x \in S
  PROVE  <<x>> \in Seq(S) /\ Len(<<x>>) = 1 /\ <<x>>[1] = x
OBVIOUS

\* Refreshing languages keeps every row's friend.
LEMMA UpdateKeepsRows ==
  ASSUME TypeOK, NEW r \in Request, NEW done \in SUBSET Friend, UpdateRows(r, done)
  PROVE  /\ rows' \in Seq(Row) /\ Len(rows') = Len(rows)
         /\ \A k \in DOMAIN rows : rows'[k].id = rows[k].id
         /\ Stored' = Stored
<1>1. DOMAIN rows = 1..Len(rows) /\ Len(rows) \in Nat
  BY DEF TypeOK
<1>2. ASSUME NEW k \in DOMAIN rows
      PROVE  rows[k] \in Row /\ rows'[k] \in Row /\ rows'[k].id = rows[k].id
  <2>1. rows[k] \in Row
    BY <1>1 DEF TypeOK
  <2>2. rows[k].id \in Friend /\ refreshReply[r][rows[k].id] \in Version
    BY <2>1 DEF TypeOK, Row
  <2>. QED BY <2>1, <2>2 DEF UpdateRows, Row
<1>3. rows' = [k \in 1..Len(rows) |-> rows'[k]]
  BY <1>1 DEF UpdateRows
<1>4. rows' \in Seq(Row) /\ Len(rows') = Len(rows) /\ DOMAIN rows' = DOMAIN rows
  BY <1>1, <1>2, <1>3
<1>. QED BY <1>2, <1>4 DEF Stored

LEMMA ListsAreLists ==
  ASSUME TypeOK, NEW owner \in BOOLEAN
  PROVE  ServerList(owner) \in [Friend -> Version] /\ NoList \in [Friend -> Version]
BY DEF ServerList, NoList, TypeOK, Version

LEMMA EmptyLists == NoList \in [Friend -> Version]
BY DEF NoList, Version

LEMMA InitTypes == Init => TypeOK
<1>. SUFFICES ASSUME Init PROVE TypeOK
  OBVIOUS
<1>1. /\ refreshPhase \in [Request -> RefreshPhases]
      /\ reply \in [Friend -> Version]
      /\ sentLanguage \in [Request -> [Friend -> Version]]
      /\ refreshReply \in [Request -> [Friend -> Version]]
  BY EmptyLists DEF Init, RefreshPhases
<1>2. refreshOwner \in [Request -> BOOLEAN]
  BY Zenon DEF Init
<1>3. serverLanguage \in [Friend -> Version \ {0}] /\ rows \in Seq(Row)
  BY DEF Init, Version
<1>. QED BY <1>1, <1>2, <1>3 DEF Init, TypeOK, FetchPhases

\* The end of a process leaves every volatile variable typed.
LEMMA ProcessEndTypes ==
  ASSUME TypeOK, NEW how \in {"off"} \cup Traps, ProcessEnds(how),
         UNCHANGED <<registered, conversations, server>>, rows' \in Seq(Row)
  PROVE  TypeOK'
<1>1. /\ refreshPhase' \in [Request -> RefreshPhases]
      /\ reply' \in [Friend -> Version]
      /\ sentLanguage' \in [Request -> [Friend -> Version]]
      /\ refreshReply' \in [Request -> [Friend -> Version]]
  BY EmptyLists DEF ProcessEnds, RefreshPhases
<1>2. refreshOwner' \in [Request -> BOOLEAN]
  BY Zenon DEF ProcessEnds
<1>. QED BY <1>1, <1>2 DEF ProcessEnds, TypeOK, FetchPhases, server

LEMMA StoredAreFriends == TypeOK => Stored \subseteq Friend
<1>. SUFFICES ASSUME TypeOK, NEW k \in DOMAIN rows PROVE rows[k].id \in Friend
  BY DEF Stored
<1>2. rows \in Seq(Row)
  BY DEF TypeOK
<1>3. DOMAIN rows = 1..Len(rows)
  BY <1>2
<1>4. rows[k] \in Row
  BY <1>2, <1>3
<1>. QED BY <1>4 DEF Row

LEMMA RefreshTypes ==
  ASSUME TypeOK, NEW r \in Request, NEW owner \in BOOLEAN,
         StartRefresh(r, owner) \/ EndRefresh(r)
  PROVE  /\ refreshPhase' \in [Request -> RefreshPhases]
         /\ refreshOwner' \in [Request -> BOOLEAN]
         /\ sentLanguage' \in [Request -> [Friend -> Version]]
         /\ refreshReply' \in [Request -> [Friend -> Version]]
<1>1. refreshPhase' \in [Request -> RefreshPhases]
  BY DEF TypeOK, StartRefresh, EndRefresh, RefreshPhases
<1>2. refreshOwner' \in [Request -> BOOLEAN]
  <2>1. /\ refreshOwner \in [Request -> BOOLEAN]
        /\ refreshOwner' = [refreshOwner EXCEPT ![r] = owner]
           \/ refreshOwner' = [refreshOwner EXCEPT ![r] = FALSE]
    BY Zenon DEF TypeOK, StartRefresh, EndRefresh
  <2>. QED BY <2>1, Zenon
<1>3. /\ sentLanguage' \in [Request -> [Friend -> Version]]
      /\ refreshReply' \in [Request -> [Friend -> Version]]
  <2>1. /\ sentLanguage \in [Request -> [Friend -> Version]]
        /\ refreshReply \in [Request -> [Friend -> Version]]
    BY DEF TypeOK
  <2>2. \/ sentLanguage' = sentLanguage /\ refreshReply' = refreshReply
        \/ /\ sentLanguage' = [sentLanguage EXCEPT ![r] = NoList]
           /\ refreshReply' = [refreshReply EXCEPT ![r] = NoList]
    BY Zenon DEF StartRefresh, EndRefresh
  <2>. QED BY <2>1, <2>2, EmptyLists
<1>. QED BY <1>1, <1>2, <1>3

\* Every action keeps the types.
LEMMA NextTypes == TypeOK /\ [Next]_vars => TypeOK'
<1>. SUFFICES ASSUME TypeOK, [Next]_vars PROVE TypeOK'
  OBVIOUS
<1>. USE DEF Version
<1>1. CASE Account
  <2>1. CASE Launch
    <3>1. CASE registered
      <4>1. PICK r \in Request : OpenMenu(r)
        BY <2>1, <3>1 DEF Launch
      <4>. QED
        BY <2>1, <4>1, RefreshTypes, StoredAreFriends
        DEF Launch, OpenMenu, TypeOK, store, server, fetch
    <3>2. CASE ~registered
      BY <2>1, <3>2 DEF Launch, TypeOK, store, server, fetch, refresh
    <3>. QED BY <3>1, <3>2
  <2>2. CASE Kill
    BY <2>2, ProcessEndTypes DEF Kill, store, TypeOK
  <2>3. CASE AccountCreated
    BY <2>3 DEF AccountCreated, TypeOK, server, fetch, refresh
  <2>4. CASE AccountRefused
    BY <2>4, ProcessEndTypes DEF AccountRefused, store, TypeOK, Traps
  <2>5. ASSUME NEW r \in Request, Register(r) PROVE TypeOK'
    BY <2>5, RefreshTypes, StoredAreFriends
    DEF Register, OpenMenu, TypeOK, store, server, fetch
  <2>. QED BY <1>1, <2>1, <2>2, <2>3, <2>4, <2>5 DEF Account
<1>2. CASE Server
  BY <1>2 DEF Server, ServerAddFriend, PostLost, ServerLanguageChanges, TypeOK,
              store, menu, fetch, refresh
<1>3. CASE Sync
  <2>1. ASSUME NEW entries \in SUBSET Friend, SyncPressed(entries) PROVE TypeOK'
    BY <2>1 DEF SyncPressed, TypeOK, store, menu, refresh, FetchPhases
  <2>2. CASE SyncWithoutUser
    BY <2>2, ProcessEndTypes DEF SyncWithoutUser, store, TypeOK, Traps
  <2>3. CASE FetchAnswered
    BY <2>3, ListsAreLists
    DEF FetchAnswered, TypeOK, store, server, menu, refresh, FetchPhases
  <2>4. CASE FetchLost
    BY <2>4 DEF FetchLost, TypeOK, store, server, menu, refresh, FetchPhases
  <2>5. CASE SyncCompletes
    BY <2>5, StoredAreFriends, EmptyLists
    DEF SyncCompletes, TypeOK, store, server, refresh, FetchPhases
  <2>6. CASE FetchHandled
    BY <2>6
    DEF FetchHandled, TypeOK, Listed, store, server, menu, refresh, FetchPhases
  <2>7. CASE ScanRow
    <3>1. NewRow \in Row
      BY DEF NewRow, Row, TypeOK
    <3>2. rows' \in Seq(Row)
      BY <2>7, <3>1, AppendStores DEF ScanRow, TypeOK
    <3>. QED BY <2>7, <3>2 DEF ScanRow, TypeOK, server, menu, refresh
  <2>8. CASE ItemStored
    BY <2>8 DEF ItemStored, TypeOK, store, server, menu, refresh, FetchPhases
  <2>9. ASSUME NEW f \in Friend, StoreItem(f) PROVE TypeOK'
    <3>1. [id |-> f, language |-> reply[f]] \in Row
      BY DEF Row, TypeOK
    <3>2. rows \in Seq(Row) /\ Len(rows) \in Nat
      BY DEF TypeOK
    <3>3. rows' = <<[id |-> f, language |-> reply[f]]>> \/ rows' = rows
      BY <2>9 DEF StoreItem
    <3>4. rows' \in Seq(Row)
      BY <3>1, <3>2, <3>3, SingletonIsSeq
    <3>. QED BY <2>9, <3>2, <3>4 DEF StoreItem, TypeOK, server, menu, refresh, FetchPhases
  <2>. QED
    BY <1>3, <2>1, <2>2, <2>3, <2>4, <2>5, <2>6, <2>7, <2>8, <2>9
    DEF Sync, FetchRefused, FetchDone
<1>4. CASE Screens
  <2>1. ASSUME NEW f \in Friend, SelectContact(f) PROVE TypeOK'
    BY <2>1 DEF SelectContact, TypeOK, server, menu, fetch, refresh
  <2>2. ASSUME NEW f \in Friend, NEW r \in Request, OpenChat(f, r) PROVE TypeOK'
    <3>1. CASE f \in Stored
      <4>1. /\ StartRefresh(r, registered)
            /\ UNCHANGED <<app, store, server, menu, fetch>>
        BY <2>2, <3>1 DEF OpenChat
      <4>2. registered \in BOOLEAN
        BY DEF TypeOK
      <4>3. /\ refreshPhase' \in [Request -> RefreshPhases]
            /\ refreshOwner' \in [Request -> BOOLEAN]
            /\ sentLanguage' \in [Request -> [Friend -> Version]]
            /\ refreshReply' \in [Request -> [Friend -> Version]]
        BY <4>1, <4>2, RefreshTypes
      <4>. QED BY <4>1, <4>3 DEF TypeOK, store, server, menu, fetch
    <3>2. CASE f \notin Stored
      BY <2>2, <3>2, ProcessEndTypes DEF OpenChat, store, TypeOK, Traps
    <3>. QED BY <3>1, <3>2
  <2>3. ASSUME NEW r \in Request, OpenTab(r) PROVE TypeOK'
    BY <2>3, RefreshTypes DEF OpenTab, TypeOK, store, server, menu, fetch
  <2>4. ASSUME NEW r \in Request, ReopenMenu(r) PROVE TypeOK'
    BY <2>4, RefreshTypes, StoredAreFriends
    DEF ReopenMenu, OpenMenu, TypeOK, store, server, fetch
  <2>. QED BY <1>4, <2>1, <2>2, <2>3, <2>4 DEF Screens
<1>5. CASE Refresh
  <2>. PICK r \in Request :
         \/ PutAnswered(r) \/ RefreshFails(r) \/ RefreshErrorBody(r)
         \/ RefreshAnswered(r) \/ RefreshApplied(r)
         \/ RefreshUnwrapsNoRow(r) \/ KillDuringRefresh(r)
    BY <1>5 DEF Refresh
  <2>. refreshOwner[r] \in BOOLEAN
    BY Zenon DEF TypeOK
  <2>1. CASE PutAnswered(r)
    BY <2>1, ListsAreLists
    DEF PutAnswered, TypeOK, store, server, menu, fetch, RefreshPhases
  <2>2. CASE RefreshFails(r)
    BY <2>2, RefreshTypes DEF RefreshFails, TypeOK, store, server, menu, fetch
  <2>3. CASE RefreshErrorBody(r)
    BY <2>3, ProcessEndTypes DEF RefreshErrorBody, store, TypeOK, Traps
  <2>4. CASE RefreshAnswered(r)
    BY <2>4, ListsAreLists
    DEF RefreshAnswered, TypeOK, store, server, menu, fetch, RefreshPhases
  <2>5. Listed(refreshReply[r]) \in SUBSET Friend
    BY DEF Listed
  <2>6. CASE RefreshApplied(r)
    BY <2>5, <2>6, UpdateKeepsRows, RefreshTypes
    DEF RefreshApplied, TypeOK, server, menu, fetch
  <2>7. ASSUME NEW done \in SUBSET (Listed(refreshReply[r]) \cap Stored),
               UpdateRows(r, done)
        PROVE  rows' \in Seq(Row)
    BY <2>5, <2>7, UpdateKeepsRows
  <2>8. CASE RefreshUnwrapsNoRow(r)
    BY <2>7, <2>8, ProcessEndTypes DEF RefreshUnwrapsNoRow, Traps
  <2>9. CASE KillDuringRefresh(r)
    BY <2>7, <2>9, ProcessEndTypes DEF KillDuringRefresh
  <2>. QED BY <2>1, <2>2, <2>3, <2>4, <2>6, <2>8, <2>9
<1>6. CASE UNCHANGED vars
  BY <1>6 DEF vars, store, server, menu, fetch, refresh, TypeOK
<1>. QED BY <1>1, <1>2, <1>3, <1>4, <1>5, <1>6 DEF Next

\* The types hold in every reachable state.
THEOREM TypeCorrect == Spec => []TypeOK
BY InitTypes, NextTypes, PTL DEF Spec
-----------------------------------------------------------------------------
(***************************************************************************)
(* The inductive invariant.  FetchedAreStored alone is not inductive: that *)
(* an item is stored once its scan ends needs the scan to have looked at a *)
(* row, and that row to have stored the item.                              *)
(***************************************************************************)
ScanInv ==
  /\ fetchPhase = "scanning" =>
       /\ 1 =< cursor /\ cursor =< limit + 1 /\ 1 =< limit /\ limit =< Len(rows)
       /\ cursor > 1 => current \in Stored
       /\ current \in Listed(reply)
  /\ todo \subseteq Listed(reply)
  /\ fetchPhase \notin {"storing", "scanning"} => todo = {}

ServerInv == Stored \subseteq serverFriends /\ Listed(reply) \subseteq serverFriends

Inv == ScanInv /\ ServerInv /\ FetchedAreStored /\ FriendsHaveRows /\ LoneFriendHasOneRow

LEMMA InitInv == Init => Inv
<1>. SUFFICES ASSUME Init PROVE Inv
  OBVIOUS
<1>1. Len(rows) = 0 /\ Stored = {}
  BY DEF Init, Stored
<1>2. Listed(reply) = {}
  BY DEF Init, Listed, NoList
<1>. QED BY <1>1, <1>2 DEF Init, Inv, ScanInv, ServerInv, FetchedAreStored,
                           FriendsHaveRows, LoneFriendHasOneRow

\* A step that leaves the table, the sync and the screens alone.
LEMMA OutsideKeepsInv ==
  ASSUME Inv, UNCHANGED <<rows, conversations, contacts, fetch>>,
         serverFriends \subseteq serverFriends', app' # "noFriend"
  PROVE  Inv'
BY DEF Inv, ScanInv, ServerInv, FetchedAreStored, FriendsHaveRows,
       LoneFriendHasOneRow, Stored, Listed, fetch

\* The end of a process, with the table's friends intact.
LEMMA ProcessEndKeepsInv ==
  ASSUME TypeOK, Inv, NEW how \in {"off"} \cup Traps, ProcessEnds(how),
         how # "noFriend", UNCHANGED <<conversations, serverFriends>>,
         rows' \in Seq(Row), Len(rows') = Len(rows), Stored' = Stored,
         \A k \in DOMAIN rows : rows'[k].id = rows[k].id
  PROVE  Inv'
<1>1. DOMAIN rows = 1..Len(rows) /\ DOMAIN rows' = 1..Len(rows)
  BY DEF TypeOK
<1>2. LoneFriendHasOneRow'
  BY <1>1 DEF Inv, LoneFriendHasOneRow
<1>3. Listed(reply)' = {}
  BY DEF ProcessEnds, Listed, NoList
<1>. QED BY <1>2, <1>3 DEF Inv, ScanInv, ServerInv, FetchedAreStored,
                           FriendsHaveRows, ProcessEnds

\* The same when the process ends without touching the table.
LEMMA EndKeepsInv ==
  ASSUME TypeOK, Inv, NEW how \in {"off"} \cup Traps, ProcessEnds(how),
         how # "noFriend", UNCHANGED <<store, server>>
  PROVE  Inv'
<1>1. rows' = rows /\ UNCHANGED <<conversations, serverFriends>> /\ Stored' = Stored
  BY DEF store, server, Stored
<1>2. rows \in Seq(Row)
  BY DEF TypeOK
<1>. QED BY <1>1, <1>2, ProcessEndKeepsInv

LEMMA ServerListsFriends ==
  ASSUME NEW owner PROVE Listed(ServerList(owner)) \subseteq serverFriends
BY DEF Listed, ServerList

LEMMA CompletionKeepsInv ==
  ASSUME TypeOK, Inv, SyncCompletes, todo = {}, app = "on"
  PROVE  Inv'
<1>1. Listed(reply)' = {} /\ Stored' = Stored
  BY DEF SyncCompletes, Listed, NoList, Stored, store
<1>. QED BY <1>1 DEF SyncCompletes, Inv, ScanInv, ServerInv, FetchedAreStored,
                     FriendsHaveRows, LoneFriendHasOneRow, store, server

\* The step of the loop: after it the item is stored, whichever row it saw.
LEMMA ScanRowKeepsInv == TypeOK /\ Inv /\ ScanRow => Inv'
<1>. SUFFICES ASSUME TypeOK, Inv, ScanRow PROVE Inv'
  OBVIOUS
<1>1. /\ rows \in Seq(Row) /\ Len(rows) \in Nat /\ cursor \in Nat /\ limit \in Nat
      /\ DOMAIN rows = 1..Len(rows) /\ cursor \in DOMAIN rows
      /\ current \in Listed(reply)
  BY DEF TypeOK, Inv, ScanInv, ScanRow
<1>2. Listed(reply)' = Listed(reply)
  BY DEF ScanRow, Listed
<1>3. CASE rows[cursor].id # current
  <2>1. NewRow \in Row /\ NewRow.id = current
    BY DEF NewRow, Row, TypeOK
  <2>2. rows' = Append(rows, NewRow)
    BY <1>3 DEF ScanRow
  <2>3. /\ rows' \in Seq(Row) /\ Len(rows') = Len(rows) + 1
        /\ \A k \in 1..Len(rows) : rows'[k] = rows[k]
        /\ rows'[Len(rows) + 1] = NewRow
        /\ Stored' = Stored \cup {current}
    BY <1>1, <2>1, <2>2, AppendStores
  <2>4. LoneFriendHasOneRow'
    <3>1. /\ cursor \in DOMAIN rows' /\ Len(rows) + 1 \in DOMAIN rows'
          /\ rows'[cursor].id # rows'[Len(rows) + 1].id
      BY <1>1, <1>3, <2>1, <2>3
    <3>. QED BY <3>1 DEF LoneFriendHasOneRow
  <2>5. ScanInv'
    BY <1>1, <1>2, <2>3 DEF ScanRow, Inv, ScanInv
  <2>. QED BY <1>1, <1>2, <2>3, <2>4, <2>5
           DEF ScanRow, Inv, ServerInv, FetchedAreStored, FriendsHaveRows,
               menu, server
<1>4. CASE rows[cursor].id = current
  <2>1. rows' = rows /\ Stored' = Stored /\ current \in Stored
    BY <1>1, <1>4 DEF ScanRow, Stored
  <2>2. ScanInv'
    <3>1. /\ cursor =< limit /\ cursor' = cursor + 1 /\ Len(rows') = Len(rows)
          /\ UNCHANGED <<fetchPhase, todo, current, limit>>
      BY <2>1 DEF ScanRow
    <3>. QED BY <1>1, <1>2, <2>1, <3>1 DEF Inv, ScanInv
  <2>3. LoneFriendHasOneRow'
    <3>1. LoneFriendHasOneRow /\ rows' = rows
      BY <2>1 DEF Inv
    <3>. QED BY <3>1, Zenon DEF LoneFriendHasOneRow
  <2>. QED BY <1>1, <1>2, <2>1, <2>2, <2>3
           DEF ScanRow, Inv, ServerInv, FetchedAreStored, FriendsHaveRows,
               menu, server
<1>. QED BY <1>3, <1>4

LEMMA StoreItemKeepsInv ==
  ASSUME TypeOK, Inv, NEW f \in Friend, StoreItem(f) PROVE Inv'
<1>1. /\ rows \in Seq(Row) /\ Len(rows) \in Nat /\ DOMAIN rows = 1..Len(rows)
      /\ f \in Listed(reply)
  BY DEF TypeOK, Inv, ScanInv, StoreItem
<1>2. Listed(reply)' = Listed(reply)
  BY DEF StoreItem, Listed
<1>3. CASE rows = <<>>
  <2>. DEFINE row == [id |-> f, language |-> reply[f]]
  <2>1. row \in Row /\ row.id = f
    BY DEF Row, TypeOK
  <2>2. rows' = <<row>>
    BY <1>3 DEF StoreItem
  <2>. HIDE DEF row
  <2>3. Len(rows') = 1 /\ DOMAIN rows' = {1} /\ rows'[1] = row
    BY <2>1, <2>2, SingletonIsSeq
  <2>4. Stored' = {f} /\ Stored = {}
    BY <1>3, <2>1, <2>3 DEF Stored
  <2>. QED BY <1>1, <1>2, <1>3, <2>3, <2>4
           DEF StoreItem, Inv, ScanInv, ServerInv, FetchedAreStored,
               FriendsHaveRows, LoneFriendHasOneRow, menu, server
<1>4. CASE rows # <<>>
  <2>1. rows' = rows /\ Stored' = Stored /\ Len(rows) >= 1
    BY <1>1, <1>4 DEF StoreItem, Stored
  <2>2. fetchPhase' = "scanning" /\ cursor' = 1 /\ limit' = Len(rows)
    BY <1>4 DEF StoreItem
  <2>. QED BY <1>1, <1>2, <2>1, <2>2
           DEF StoreItem, Inv, ScanInv, ServerInv, FetchedAreStored,
               FriendsHaveRows, LoneFriendHasOneRow, menu, server
<1>. QED BY <1>3, <1>4

LEMMA NextInv == TypeOK /\ Inv /\ [Next]_vars => Inv'
<1>. SUFFICES ASSUME TypeOK, Inv, [Next]_vars PROVE Inv'
  OBVIOUS
<1>1. CASE Account
  <2>1. CASE Launch
    <3>1. Stored' = Stored /\ contacts' \in {contacts, Stored}
      BY <2>1 DEF Launch, OpenMenu, store, Stored
    <3>. QED BY <2>1, <3>1
             DEF Launch, Inv, ScanInv, ServerInv, FetchedAreStored,
                 FriendsHaveRows, LoneFriendHasOneRow, Listed, store, server, fetch
  <2>2. CASE Kill
    BY <2>2, EndKeepsInv DEF Kill
  <2>3. CASE AccountCreated
    BY <2>3, OutsideKeepsInv DEF AccountCreated, MainFree, server
  <2>4. CASE AccountRefused
    BY <2>4, EndKeepsInv DEF AccountRefused, Traps
  <2>5. ASSUME NEW r \in Request, Register(r) PROVE Inv'
    <3>1. Stored' = Stored /\ contacts' = Stored /\ app = "on"
      BY <2>5 DEF Register, OpenMenu, MainFree, store, Stored
    <3>. QED BY <2>5, <3>1
             DEF Register, Inv, ScanInv, ServerInv, FetchedAreStored,
                 FriendsHaveRows, LoneFriendHasOneRow, Listed, store, server, fetch
  <2>. QED BY <1>1, <2>1, <2>2, <2>3, <2>4, <2>5 DEF Account
<1>2. CASE Server
  BY <1>2, OutsideKeepsInv
  DEF Server, ServerAddFriend, PostLost, ServerLanguageChanges, store, menu, Inv,
      FriendsHaveRows
<1>3. CASE Sync
  <2>1. ASSUME NEW entries \in SUBSET Friend, SyncPressed(entries) PROVE Inv'
    BY <2>1
    DEF SyncPressed, TouchEnabled, MainFree, Inv, ScanInv, ServerInv,
        FetchedAreStored, FriendsHaveRows, LoneFriendHasOneRow, Stored, Listed,
        store, menu
  <2>2. CASE SyncWithoutUser
    BY <2>2, EndKeepsInv DEF SyncWithoutUser, Traps
  <2>3. CASE FetchAnswered
    <3>1. Stored' = Stored /\ Listed(reply)' \subseteq serverFriends
      BY <2>3, ServerListsFriends DEF FetchAnswered, store, Stored, Listed
    <3>. QED BY <2>3, <3>1
             DEF FetchAnswered, Inv, ScanInv, ServerInv, FetchedAreStored,
                 FriendsHaveRows, LoneFriendHasOneRow, store, server, menu
  <2>4. CASE FetchLost
    BY <2>4
    DEF FetchLost, Inv, ScanInv, ServerInv, FetchedAreStored, FriendsHaveRows,
        LoneFriendHasOneRow, Stored, Listed, store, server, menu
  <2>5. CASE FetchRefused
    BY <2>5, CompletionKeepsInv DEF FetchRefused, MainFree, Inv, ScanInv
  <2>6. CASE FetchHandled
    <3>1. Stored' = Stored /\ Listed(reply)' = Listed(reply)
      BY <2>6 DEF FetchHandled, store, Stored, Listed
    <3>. QED BY <2>6, <3>1
             DEF FetchHandled, Inv, ScanInv, ServerInv, FetchedAreStored,
                 FriendsHaveRows, LoneFriendHasOneRow, store, server, menu
  <2>7. CASE ScanRow
    BY <2>7, ScanRowKeepsInv
  <2>8. CASE ItemStored
    <3>1. Stored' = Stored /\ Listed(reply)' = Listed(reply)
      BY <2>8 DEF ItemStored, store, Stored, Listed
    <3>2. current \in Stored
      BY <2>8 DEF ItemStored, Inv, ScanInv, TypeOK
    <3>. QED BY <2>8, <3>1, <3>2
             DEF ItemStored, Inv, ScanInv, ServerInv, FetchedAreStored,
                 FriendsHaveRows, LoneFriendHasOneRow, store, server, menu
  <2>9. CASE FetchDone
    BY <2>9, CompletionKeepsInv DEF FetchDone
  <2>10. ASSUME NEW f \in Friend, StoreItem(f) PROVE Inv'
    BY <2>10, StoreItemKeepsInv
  <2>. QED
    BY <1>3, <2>1, <2>2, <2>3, <2>4, <2>5, <2>6, <2>7, <2>8, <2>9, <2>10 DEF Sync
<1>4. CASE Screens
  <2>1. ASSUME NEW f \in Friend, SelectContact(f) PROVE Inv'
    BY <2>1
    DEF SelectContact, Inv, ScanInv, ServerInv, FetchedAreStored,
        FriendsHaveRows, LoneFriendHasOneRow, Stored, Listed, server, menu, fetch
  <2>2. ASSUME NEW f \in Friend, NEW r \in Request, OpenChat(f, r) PROVE Inv'
    <3>1. f \in Stored
      BY <2>2 DEF OpenChat, Inv, FriendsHaveRows
    <3>. QED BY <2>2, <3>1, OutsideKeepsInv
             DEF OpenChat, TouchEnabled, MainFree, store, server, menu
  <2>3. ASSUME NEW r \in Request, OpenTab(r) PROVE Inv'
    BY <2>3, OutsideKeepsInv DEF OpenTab, TouchEnabled, MainFree, store, server, menu
  <2>4. ASSUME NEW r \in Request, ReopenMenu(r) PROVE Inv'
    <3>1. Stored' = Stored /\ contacts' = Stored /\ app = "on"
      BY <2>4 DEF ReopenMenu, OpenMenu, TouchEnabled, MainFree, store, Stored
    <3>. QED BY <2>4, <3>1
             DEF ReopenMenu, Inv, ScanInv, ServerInv, FetchedAreStored,
                 FriendsHaveRows, LoneFriendHasOneRow, Listed, store, server, fetch
  <2>. QED BY <1>4, <2>1, <2>2, <2>3, <2>4 DEF Screens
<1>5. CASE Refresh
  <2>. PICK r \in Request :
         \/ PutAnswered(r) \/ RefreshFails(r) \/ RefreshErrorBody(r)
         \/ RefreshAnswered(r) \/ RefreshApplied(r)
         \/ RefreshUnwrapsNoRow(r) \/ KillDuringRefresh(r)
    BY <1>5 DEF Refresh
  <2>1. CASE PutAnswered(r) \/ RefreshFails(r) \/ RefreshAnswered(r)
    BY <2>1, OutsideKeepsInv
    DEF PutAnswered, RefreshFails, RefreshAnswered, store, server, menu, Inv,
        FriendsHaveRows
  <2>2. CASE RefreshErrorBody(r)
    BY <2>2, EndKeepsInv DEF RefreshErrorBody, Traps
  <2>3. Listed(refreshReply[r]) \in SUBSET Friend
    BY DEF Listed
  <2>4. CASE RefreshApplied(r)
    <3>1. /\ rows' \in Seq(Row) /\ Len(rows') = Len(rows)
          /\ \A k \in DOMAIN rows : rows'[k].id = rows[k].id
          /\ Stored' = Stored
      BY <2>3, <2>4, UpdateKeepsRows DEF RefreshApplied
    <3>2. DOMAIN rows = 1..Len(rows) /\ DOMAIN rows' = 1..Len(rows)
      BY <3>1 DEF TypeOK
    <3>3. LoneFriendHasOneRow'
      BY <3>1, <3>2 DEF Inv, LoneFriendHasOneRow
    <3>4. ScanInv'
      BY <2>4, <3>1 DEF RefreshApplied, MainFree, Inv, ScanInv, Listed, fetch
    <3>. QED BY <2>4, <3>1, <3>3, <3>4
             DEF RefreshApplied, MainFree, Inv, ServerInv, FetchedAreStored,
                 FriendsHaveRows, Listed, server, menu, fetch
  <2>5. CASE RefreshUnwrapsNoRow(r) \/ KillDuringRefresh(r)
    <3>. PICK done \in SUBSET (Listed(refreshReply[r]) \cap Stored) : UpdateRows(r, done)
      BY <2>5 DEF RefreshUnwrapsNoRow, KillDuringRefresh
    <3>1. done \in SUBSET Friend
      BY <2>3
    <3>2. /\ rows' \in Seq(Row) /\ Len(rows') = Len(rows)
          /\ \A k \in DOMAIN rows : rows'[k].id = rows[k].id
          /\ Stored' = Stored
      BY <3>1, UpdateKeepsRows
    <3>3. \E how \in {"noRow", "off"} : ProcessEnds(how)
      BY <2>5 DEF RefreshUnwrapsNoRow, KillDuringRefresh
    <3>4. UNCHANGED <<conversations, serverFriends>>
      BY <2>5 DEF RefreshUnwrapsNoRow, KillDuringRefresh, server
    <3>. QED BY <3>2, <3>3, <3>4, ProcessEndKeepsInv DEF Traps
  <2>. QED BY <2>1, <2>2, <2>4, <2>5
<1>6. CASE UNCHANGED vars
  BY <1>6, OutsideKeepsInv DEF vars, store, server, menu, Inv, FriendsHaveRows
<1>. QED BY <1>1, <1>2, <1>3, <1>4, <1>5, <1>6 DEF Next

LEMMA Invariance == Spec => [](TypeOK /\ Inv)
<1>1. Init => TypeOK /\ Inv
  BY InitTypes, InitInv
<1>2. TypeOK /\ Inv /\ [Next]_vars => (TypeOK /\ Inv)'
  BY NextTypes, NextInv
<1>. QED BY <1>1, <1>2, PTL DEF Spec

\* Whatever fetchFriends has gone past in a reply has a row in the table.
THEOREM FetchedFriendsAreStored == Spec => []FetchedAreStored
<1>1. Inv => FetchedAreStored
  BY DEF Inv
<1>. QED BY <1>1, Invariance, PTL

\* Contacts and conversations name friends with a row; no chat screen ends the
\* process for want of one.
THEOREM FriendsAlwaysHaveRows == Spec => []FriendsHaveRows
<1>1. Inv => FriendsHaveRows
  BY DEF Inv
<1>. QED BY <1>1, Invariance, PTL

\* The Friend table repeats nobody until it holds two friends.
THEOREM LoneFriendsHaveOneRow == Spec => []LoneFriendHasOneRow
<1>1. Inv => LoneFriendHasOneRow
  BY DEF Inv
<1>. QED BY <1>1, Invariance, PTL

\* The alert of a 200 reply comes with every friend of the reply on the screen.
THEOREM SyncAlwaysShowsTheReply == Spec => SyncShowsTheReply
<1>. DEFINE Shows == app' = "on" /\ fetchPhase = "storing" /\ fetchPhase' = "idle"
                       => Listed(reply) \subseteq contacts'
<1>1. TypeOK /\ Inv /\ [Next]_vars => Shows
  <2>. SUFFICES ASSUME Inv, [Next]_vars, app' = "on",
                       fetchPhase = "storing", fetchPhase' = "idle"
                PROVE  Listed(reply) \subseteq contacts'
    OBVIOUS
  <2>1. FetchDone
    BY DEF Next, Account, Server, Sync, Screens, Refresh, Launch, Kill,
      AccountCreated, AccountRefused, Register, ServerAddFriend, PostLost,
      ServerLanguageChanges, SyncPressed, SyncWithoutUser, FetchAnswered,
      FetchLost, FetchRefused, FetchHandled, ScanRow, ItemStored, StoreItem,
      SelectContact, OpenChat, OpenTab, ReopenMenu, PutAnswered, RefreshFails,
      RefreshErrorBody, RefreshAnswered, RefreshApplied, RefreshUnwrapsNoRow,
      KillDuringRefresh, ProcessEnds, MainFree, TouchEnabled, Traps, vars, fetch
  <2>2. contacts' = Stored
    BY <2>1 DEF FetchDone, SyncCompletes
  <2>. QED BY <2>1, <2>2 DEF FetchDone, Inv, FetchedAreStored
<1>. QED BY <1>1, Invariance, PTL DEF Spec, SyncShowsTheReply

\* The loop of fetchFriends has a variant: the items it has not taken, then the
\* rows it has not looked at.
THEOREM SyncLoopAlwaysDescends == Spec => SyncLoopDescends
<1>. DEFINE Step == InLoop /\ InLoop' /\ <<fetch, rows>>' # <<fetch, rows>> =>
                      \/ todo' \subseteq todo /\ todo' # todo
                      \/ todo' = todo /\ RowsLeft' < RowsLeft /\ RowsLeft' \in Nat
<1>1. TypeOK /\ Inv /\ [Next]_vars => Step
  <2>. SUFFICES ASSUME TypeOK, Inv, [Next]_vars, InLoop, InLoop',
                       <<fetch, rows>>' # <<fetch, rows>>
                PROVE  \/ todo' \subseteq todo /\ todo' # todo
                       \/ todo' = todo /\ RowsLeft' < RowsLeft /\ RowsLeft' \in Nat
    OBVIOUS
  <2>1. ScanRow \/ ItemStored \/ \E f \in Friend : StoreItem(f)
    BY DEF Next, Account, Server, Sync, Screens, Refresh, Launch, Kill,
      AccountCreated, AccountRefused, Register, ServerAddFriend, PostLost,
      ServerLanguageChanges, SyncPressed, SyncWithoutUser, FetchAnswered,
      FetchLost, FetchRefused, FetchHandled, FetchDone, SyncCompletes,
      SelectContact, OpenChat, OpenTab, ReopenMenu, PutAnswered, RefreshFails,
      RefreshErrorBody, RefreshAnswered, RefreshApplied, RefreshUnwrapsNoRow,
      KillDuringRefresh, ProcessEnds, MainFree, TouchEnabled, InLoop, vars,
      fetch, store
  <2>2. cursor \in Nat /\ limit \in Nat /\ (fetchPhase = "scanning" => cursor =< limit + 1)
    BY DEF TypeOK, Inv, ScanInv
  <2>3. CASE ScanRow
    BY <2>2, <2>3 DEF ScanRow, RowsLeft
  <2>4. CASE ItemStored
    BY <2>2, <2>4 DEF ItemStored, RowsLeft
  <2>5. ASSUME NEW f \in Friend, StoreItem(f) PROVE todo' \subseteq todo /\ todo' # todo
    BY <2>5 DEF StoreItem
  <2>. QED BY <2>1, <2>3, <2>4, <2>5
<1>. QED BY <1>1, Invariance, PTL DEF Spec, SyncLoopDescends
-----------------------------------------------------------------------------
\* The device's friends refine FriendDirectory: a scanned row or a first row is
\* a Learn, a handled POST is a Record, everything else a stutter.
THEOREM ImplementsDirectory == Spec => DirectorySpec
<1>1. Init => Directory!Init
  BY DEF Init, Directory!Init, Stored
<1>2. TypeOK /\ Inv /\ [Next]_vars => [Directory!Next]_(Directory!vars)
  <2>. SUFFICES ASSUME TypeOK, Inv, [Next]_vars
                PROVE  \/ Directory!Next
                       \/ serverFriends' = serverFriends /\ Stored' = Stored
    BY DEF Directory!vars
  <2>1. ASSUME NEW f \in Friend, ServerAddFriend(f) PROVE Directory!Next
    BY <2>1 DEF ServerAddFriend, Directory!Next, Directory!Record, Stored, store
  <2>2. ASSUME NEW f \in Friend, StoreItem(f)
        PROVE  Directory!Next \/ UNCHANGED <<serverFriends, Stored>>
    <3>1. f \in serverFriends /\ serverFriends' = serverFriends
      BY <2>2 DEF StoreItem, Inv, ScanInv, ServerInv, server
    <3>2. CASE rows = <<>>
      <4>. DEFINE row == [id |-> f, language |-> reply[f]]
      <4>1. row \in Row /\ row.id = f /\ rows' = <<row>>
        BY <2>2, <3>2 DEF StoreItem, Row, TypeOK
      <4>. HIDE DEF row
      <4>2. DOMAIN rows' = {1} /\ rows'[1] = row
        BY <4>1, SingletonIsSeq
      <4>3. Stored' = {f} /\ Stored = {}
        BY <3>2, <4>1, <4>2 DEF Stored
      <4>. QED BY <3>1, <4>3 DEF Directory!Next, Directory!Learn
    <3>3. CASE rows # <<>>
      BY <2>2, <3>1, <3>3 DEF StoreItem, Stored
    <3>. QED BY <3>2, <3>3
  <2>3. CASE ScanRow
    <3>1. current \in serverFriends /\ serverFriends' = serverFriends /\ current \in Friend
      BY <2>3 DEF ScanRow, Inv, ScanInv, ServerInv, server, TypeOK
    <3>2. NewRow \in Row /\ NewRow.id = current
      BY DEF NewRow, Row, TypeOK
    <3>3. CASE rows' = Append(rows, NewRow)
      <4>1. Stored' = Stored \cup {current}
        BY <3>2, <3>3, AppendStores DEF TypeOK
      <4>. QED BY <3>1, <4>1 DEF Directory!Next, Directory!Learn
    <3>4. CASE rows' = rows
      BY <3>1, <3>4 DEF Stored
    <3>. QED BY <2>3, <3>3, <3>4 DEF ScanRow
  <2>4. ASSUME NEW r \in Request,
               RefreshApplied(r) \/ RefreshUnwrapsNoRow(r) \/ KillDuringRefresh(r)
        PROVE  UNCHANGED <<serverFriends, Stored>>
    <3>. PICK done \in SUBSET Friend : UpdateRows(r, done)
      BY <2>4 DEF RefreshApplied, RefreshUnwrapsNoRow, KillDuringRefresh, Listed
    <3>1. Stored' = Stored
      BY UpdateKeepsRows
    <3>2. serverFriends' = serverFriends
      BY <2>4 DEF RefreshApplied, RefreshUnwrapsNoRow, KillDuringRefresh, server
    <3>. QED BY <3>1, <3>2
  <2>5. CASE UNCHANGED <<serverFriends, rows>>
    BY <2>5 DEF Stored
  <2>. QED
    BY <2>1, <2>2, <2>3, <2>4, <2>5
    DEF Next, Account, Server, Sync, Screens, Refresh, Launch, Kill,
      AccountCreated, AccountRefused, Register, PostLost,
      ServerLanguageChanges, SyncPressed, SyncWithoutUser, FetchAnswered,
      FetchLost, FetchRefused, FetchHandled, ItemStored, FetchDone, SyncCompletes,
      SelectContact, OpenChat, OpenTab, ReopenMenu, PutAnswered, RefreshFails,
      RefreshErrorBody, RefreshAnswered, vars, store, server
<1>. QED BY <1>1, <1>2, Invariance, PTL DEF Spec, DirectorySpec, Directory!Spec
-----------------------------------------------------------------------------
(***************************************************************************)
(* Freshness: the languages of a list only grow at the server, so a reply  *)
(* is at least as new as the list the server had when it was asked.        *)
(***************************************************************************)
AtLeast(l, m) == \A f \in Friend : l[f] >= m[f]

FreshInv == \A r \in Request :
  /\ refreshPhase[r] \in {"idle", "put"} => sentLanguage[r] = NoList
  /\ AtLeast(ServerList(refreshOwner[r]), sentLanguage[r])
  /\ refreshPhase[r] = "answered" => AtLeast(refreshReply[r], sentLanguage[r])

LEMMA AtLeastNothing ==
  ASSUME NEW l \in [Friend -> Version] PROVE AtLeast(l, NoList)
BY DEF AtLeast, NoList, Version

LEMMA InitFresh == Init => FreshInv
<1>. SUFFICES ASSUME Init, NEW r \in Request
              PROVE  /\ sentLanguage[r] = NoList /\ refreshPhase[r] = "idle"
                     /\ AtLeast(ServerList(refreshOwner[r]), sentLanguage[r])
  BY DEF FreshInv
<1>1. sentLanguage[r] = NoList /\ refreshPhase[r] = "idle"
  BY DEF Init
<1>2. refreshOwner[r] \in BOOLEAN
  BY Zenon DEF Init
<1>3. ServerList(refreshOwner[r]) \in [Friend -> Version]
  BY <1>2, InitTypes, ListsAreLists
<1>. QED BY <1>1, <1>3, AtLeastNothing

LEMMA ServerGrows ==
  ASSUME TypeOK, [Next]_vars
  PROVE  /\ serverFriends \subseteq serverFriends'
         /\ \A f \in Friend : serverLanguage'[f] >= serverLanguage[f]
<1>1. \A f \in Friend : serverLanguage[f] \in Nat
  BY DEF TypeOK, Version
<1>2. ASSUME NEW g \in Friend, ServerAddFriend(g) \/ ServerLanguageChanges(g)
      PROVE  /\ serverFriends \subseteq serverFriends'
             /\ \A f \in Friend : serverLanguage'[f] >= serverLanguage[f]
  <2>1. CASE ServerAddFriend(g)
    BY <1>1, <2>1 DEF ServerAddFriend
  <2>2. CASE ServerLanguageChanges(g)
    <3>1. serverLanguage \in [Friend -> Nat]
      BY DEF TypeOK, Version
    <3>2. serverLanguage' = [serverLanguage EXCEPT ![g] = @ + 1] /\ serverFriends' = serverFriends
      BY <2>2 DEF ServerLanguageChanges
    <3>. QED BY <3>1, <3>2
  <2>. QED BY <1>2, <2>1, <2>2
<1>3. CASE UNCHANGED <<serverFriends, serverLanguage>>
  BY <1>1, <1>3
<1>. QED BY <1>2, <1>3
  DEF Next, Account, Server, Sync, Screens, Refresh, Launch, Kill,
      AccountCreated, AccountRefused, Register, PostLost, SyncPressed,
      SyncWithoutUser, FetchAnswered, FetchLost, FetchRefused, FetchHandled,
      StoreItem, ScanRow, ItemStored, FetchDone, SyncCompletes, SelectContact,
      OpenChat, OpenTab, ReopenMenu, PutAnswered, RefreshFails, RefreshErrorBody,
      RefreshAnswered, RefreshApplied, RefreshUnwrapsNoRow, KillDuringRefresh,
      vars, server

\* What a step does to one refresh, as seen by FreshInv.
LEMMA NextFresh == TypeOK /\ TypeOK' /\ FreshInv /\ [Next]_vars => FreshInv'
<1>. SUFFICES ASSUME TypeOK, TypeOK', FreshInv, [Next]_vars, NEW r \in Request
              PROVE  /\ refreshPhase'[r] \in {"idle", "put"} => sentLanguage'[r] = NoList
                     /\ AtLeast(ServerList(refreshOwner[r])', sentLanguage'[r])
                     /\ refreshPhase'[r] = "answered"
                          => AtLeast(refreshReply'[r], sentLanguage'[r])
  BY DEF FreshInv
<1>1. /\ refreshOwner[r] \in BOOLEAN /\ refreshOwner'[r] \in BOOLEAN
  BY Zenon DEF TypeOK
<1>2. /\ sentLanguage[r] \in [Friend -> Version] /\ sentLanguage'[r] \in [Friend -> Version]
  BY DEF TypeOK
<1>3. ServerList(refreshOwner[r])' \in [Friend -> Version]
  BY <1>1 DEF ServerList, TypeOK, Version
<1>4. CASE sentLanguage'[r] = NoList
  BY <1>3, <1>4, AtLeastNothing DEF TypeOK
<1>5. CASE /\ refreshPhase'[r] = refreshPhase[r] /\ refreshOwner'[r] = refreshOwner[r]
           /\ sentLanguage'[r] = sentLanguage[r] /\ refreshReply'[r] = refreshReply[r]
  <2>1. AtLeast(ServerList(refreshOwner[r]), sentLanguage[r])
    BY DEF FreshInv
  <2>2. /\ serverFriends \subseteq serverFriends'
        /\ \A f \in Friend : serverLanguage'[f] >= serverLanguage[f]
    BY ServerGrows
  <2>3. ASSUME NEW f \in Friend
        PROVE  ServerList(refreshOwner[r])'[f] >= ServerList(refreshOwner[r])[f]
    <3>1. serverLanguage[f] \in Nat /\ serverLanguage'[f] \in Nat
      BY DEF TypeOK, Version
    <3>2. CASE refreshOwner[r] /\ f \in serverFriends
      <4>1. refreshOwner'[r] /\ f \in serverFriends'
        BY <1>5, <2>2, <3>2
      <4>2. /\ ServerList(refreshOwner[r])[f] = serverLanguage[f]
            /\ ServerList(refreshOwner[r])'[f] = serverLanguage'[f]
        BY <3>2, <4>1 DEF ServerList
      <4>. QED BY <2>2, <4>2
    <3>3. CASE ~(refreshOwner[r] /\ f \in serverFriends)
      <4>1. ServerList(refreshOwner[r])[f] = 0
        BY <3>3 DEF ServerList
      <4>2. ServerList(refreshOwner[r])'[f] \in Nat
        BY <1>3 DEF Version
      <4>. QED BY <4>1, <4>2
    <3>. QED BY <3>2, <3>3
  <2>4. AtLeast(ServerList(refreshOwner[r])', sentLanguage'[r])
    <3>1. ServerList(refreshOwner[r]) \in [Friend -> Nat]
      BY <1>1, ListsAreLists DEF Version
    <3>2. \A f \in Friend : ServerList(refreshOwner[r])'[f] \in Nat
      BY <1>3 DEF Version
    <3>3. \A f \in Friend : sentLanguage[r][f] \in Nat
      BY <1>2 DEF Version
    <3>. QED BY <1>5, <2>1, <2>3, <3>1, <3>2, <3>3 DEF AtLeast
  <2>. QED BY <1>5, <2>4 DEF FreshInv
<1>6. CASE PutAnswered(r)
  <2>1. /\ refreshPhase'[r] = "get" /\ refreshOwner' = refreshOwner
        /\ sentLanguage'[r] = ServerList(refreshOwner[r]) /\ UNCHANGED server
    BY <1>6 DEF PutAnswered, TypeOK
  <2>2. AtLeast(ServerList(refreshOwner[r])', sentLanguage'[r])
    <3>1. ServerList(refreshOwner[r])' = sentLanguage'[r]
      BY <2>1 DEF ServerList, server
    <3>2. \A f \in Friend : sentLanguage'[r][f] \in Nat
      BY <1>2 DEF Version
    <3>. QED BY <3>1, <3>2 DEF AtLeast
  <2>. QED BY <2>1, <2>2
<1>7. CASE RefreshAnswered(r)
  <2>1. /\ refreshPhase'[r] = "answered" /\ refreshOwner' = refreshOwner
        /\ sentLanguage' = sentLanguage /\ UNCHANGED server
        /\ refreshReply'[r] = ServerList(refreshOwner[r])
    BY <1>7 DEF RefreshAnswered, TypeOK
  <2>2. AtLeast(refreshReply'[r], sentLanguage'[r])
    BY <2>1 DEF FreshInv
  <2>3. ServerList(refreshOwner[r])' = refreshReply'[r]
    BY <2>1 DEF ServerList, server
  <2>. QED BY <2>1, <2>2, <2>3
<1>8. ASSUME NEW q \in Request, NEW owner \in BOOLEAN, StartRefresh(q, owner) \/ EndRefresh(q)
      PROVE  \/ sentLanguage'[r] = NoList
             \/ /\ refreshPhase'[r] = refreshPhase[r] /\ refreshOwner'[r] = refreshOwner[r]
                /\ sentLanguage'[r] = sentLanguage[r] /\ refreshReply'[r] = refreshReply[r]
  <2>1. CASE q = r
    BY <1>8, <2>1 DEF StartRefresh, EndRefresh, FreshInv, TypeOK
  <2>2. CASE q # r
    <3>1. refreshOwner'[r] = refreshOwner[r]
      BY <1>8, <2>2, Zenon DEF StartRefresh, EndRefresh, TypeOK
    <3>. QED BY <1>8, <2>2, <3>1 DEF StartRefresh, EndRefresh, TypeOK
  <2>. QED BY <2>1, <2>2
<1>9. ASSUME NEW how, ProcessEnds(how) PROVE sentLanguage'[r] = NoList
  BY <1>9 DEF ProcessEnds
<1>10. ASSUME NEW q \in Request, q # r, PutAnswered(q) \/ RefreshAnswered(q)
       PROVE  /\ refreshPhase'[r] = refreshPhase[r] /\ refreshOwner'[r] = refreshOwner[r]
              /\ sentLanguage'[r] = sentLanguage[r] /\ refreshReply'[r] = refreshReply[r]
  BY <1>10 DEF PutAnswered, RefreshAnswered, TypeOK
<1>11. CASE UNCHANGED refresh
  BY <1>5, <1>11 DEF refresh
<1>12. \/ UNCHANGED refresh
       \/ \E how : ProcessEnds(how)
       \/ \E q \in Request, owner \in BOOLEAN : StartRefresh(q, owner) \/ EndRefresh(q)
       \/ \E q \in Request : PutAnswered(q) \/ RefreshAnswered(q)
  <2>1. registered \in BOOLEAN /\ menuOwner \in BOOLEAN
    BY DEF TypeOK
  <2>2. CASE Account
    BY <2>1, <2>2 DEF Account, Launch, Kill, AccountCreated, AccountRefused,
      Register, OpenMenu
  <2>3. CASE Server \/ Sync
    BY <2>3 DEF Server, Sync, ServerAddFriend, PostLost, ServerLanguageChanges,
      SyncPressed, SyncWithoutUser, FetchAnswered, FetchLost, FetchRefused,
      FetchHandled, StoreItem, ScanRow, ItemStored, FetchDone, SyncCompletes
  <2>4. CASE Screens
    BY <2>1, <2>4 DEF Screens, SelectContact, OpenChat, OpenTab, ReopenMenu,
      OpenMenu, fetch, menu
  <2>5. CASE Refresh
    BY <2>5 DEF Refresh, RefreshFails, RefreshErrorBody, RefreshApplied,
      RefreshUnwrapsNoRow, KillDuringRefresh
  <2>. QED BY <2>2, <2>3, <2>4, <2>5 DEF Next, vars
<1>. QED BY <1>4, <1>5, <1>6, <1>7, <1>8, <1>9, <1>10, <1>11, <1>12

LEMMA FreshInvariance == Spec => [](TypeOK /\ FreshInv)
<1>1. Init => TypeOK /\ FreshInv
  BY InitTypes, InitFresh
<1>2. TypeOK /\ FreshInv /\ [Next]_vars => (TypeOK /\ FreshInv)'
  BY NextTypes, NextFresh
<1>. QED BY <1>1, <1>2, PTL DEF Spec

\* A refresh that ends well leaves no first row older than the list it asked for.
THEOREM RefreshesAreFresh == Spec => RefreshIsFresh
<1>. DEFINE Fresh == \A r \in Request :
       app' = "on" /\ refreshPhase[r] = "answered" /\ refreshPhase'[r] = "idle"
         => \A k \in DOMAIN rows : IsFirst(k) =>
              rows'[k].language >= sentLanguage[r][rows[k].id]
<1>1. TypeOK /\ FreshInv /\ [Next]_vars => Fresh
  <2>. SUFFICES ASSUME TypeOK, FreshInv, [Next]_vars, NEW r \in Request,
                       app' = "on", refreshPhase[r] = "answered",
                       refreshPhase'[r] = "idle", NEW k \in DOMAIN rows, IsFirst(k)
                PROVE  rows'[k].language >= sentLanguage[r][rows[k].id]
    OBVIOUS
  <2>1. RefreshApplied(r)
    BY DEF Next, Account, Server, Sync, Screens, Refresh, Launch, Kill, OpenMenu,
      AccountCreated, AccountRefused, Register, ServerAddFriend, PostLost,
      ServerLanguageChanges, SyncPressed, SyncWithoutUser, FetchAnswered,
      FetchLost, FetchRefused, FetchHandled, StoreItem, ScanRow, ItemStored,
      FetchDone, SyncCompletes, SelectContact, OpenChat, OpenTab, ReopenMenu,
      PutAnswered, RefreshFails, RefreshErrorBody, RefreshAnswered,
      RefreshApplied, RefreshUnwrapsNoRow, KillDuringRefresh, ProcessEnds,
      StartRefresh, EndRefresh, Traps, TypeOK, vars, refresh
  <2>2. rows \in Seq(Row) /\ DOMAIN rows = 1..Len(rows)
    BY DEF TypeOK
  <2>3. rows[k] \in Row
    BY <2>2
  <2>4. rows[k].id \in Friend /\ rows[k].language \in Nat
    BY <2>3 DEF Row, Version
  <2>. DEFINE f == rows[k].id
  <2>5. /\ refreshReply[r][f] >= sentLanguage[r][f]
        /\ refreshReply[r][f] \in Nat /\ sentLanguage[r][f] \in Nat
    BY <2>4 DEF FreshInv, AtLeast, TypeOK, Version
  <2>6. UpdateRows(r, Listed(refreshReply[r]))
    BY <2>1 DEF RefreshApplied
  <2>7. CASE refreshReply[r][f] > 0
    <3>1. f \in Listed(refreshReply[r])
      BY <2>4, <2>7 DEF Listed
    <3>2. rows'[k] = [rows[k] EXCEPT !.language = refreshReply[r][f]]
      BY <2>6, <3>1 DEF UpdateRows
    <3>3. rows'[k].language = refreshReply[r][f]
      BY <2>3, <3>2 DEF Row
    <3>. QED BY <2>5, <3>3
  <2>8. CASE refreshReply[r][f] = 0
    <3>1. f \notin Listed(refreshReply[r])
      BY <2>8 DEF Listed
    <3>2. rows'[k] = rows[k]
      BY <2>6, <3>1 DEF UpdateRows
    <3>. QED BY <2>4, <2>5, <2>8, <3>2
  <2>. QED BY <2>5, <2>7, <2>8
<1>. QED BY <1>1, FreshInvariance, PTL DEF Spec, RefreshIsFresh
=============================================================================
