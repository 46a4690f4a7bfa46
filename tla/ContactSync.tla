---------------------------- MODULE ContactSync ----------------------------
(***************************************************************************)
(* The friends of the account as one device sees them: registration, the   *)
(* "sync" button of the contact screen (one POST per address-book entry    *)
(* and one GET, nothing awaited), the language refresh every screen starts *)
(* when it loads (PUT, then GET), the Friend table both write, and the     *)
(* conversations made from it.                                             *)
(*                                                                         *)
(* Alamofire completions run on the main queue, so a handler is atomic     *)
(* for other handlers; but every row is saved on its own, so a kill in the *)
(* middle of a handler keeps a prefix of its work.  The nested loop of     *)
(* fetchFriends is therefore one step per row it looks at.                 *)
(*                                                                         *)
(* A language is a version number: 0 is "not in this list", and a friend   *)
(* who changes language gets the next number.                              *)
(***************************************************************************)
EXTENDS Naturals, Sequences

CONSTANTS Friend,      \* accounts that are in the device's address book
          Request,     \* the language refreshes that can be in flight
          MaxRows,     \* bound: no sync is started on a longer Friend table
          MaxVersion   \* bound: how often a friend changes language

ASSUME BoundsAreNaturals == MaxRows \in Nat /\ MaxVersion \in Nat \ {0}

VARIABLES
  app,            \* "on", "off", or the failed unwrap that ended the process
  \* kept in Core Data
  registered,     \* is there a User row
  rows,           \* the Friend table, in insertion order
  conversations,  \* the friends of the Conversation rows
  \* the account server
  serverFriends, serverLanguage, posts,
  \* the running process
  menuOpen,       \* the Menu and its tabs exist
  menuOwner,      \* the id they cached: the account's (TRUE) or 0 (FALSE)
  accountPosted,  \* the addAccount request is unanswered
  contacts,       \* ContactViewController.friends
  fetchPhase, fetchOwner, reply, todo, current, cursor, limit,
  refreshPhase, refreshOwner, sentLanguage, refreshReply

store   == <<registered, rows, conversations>>
server  == <<serverFriends, serverLanguage, posts>>
menu    == <<menuOpen, menuOwner, accountPosted, contacts>>
fetch   == <<fetchPhase, fetchOwner, reply, todo, current, cursor, limit>>
refresh == <<refreshPhase, refreshOwner, sentLanguage, refreshReply>>
vars    == <<app, store, server, menu, fetch, refresh>>

Version == Nat
NoList  == [f \in Friend |-> 0]
Row     == [id : Friend, language : Version]
Traps   == {"noAccount", "noUser", "noRow", "notAnArray", "noFriend"}
FetchPhases   == {"idle", "sent", "answered", "storing", "scanning", "lost"}
RefreshPhases == {"idle", "put", "get", "answered"}

Stored    == {rows[k].id : k \in DOMAIN rows}
Listed(l) == {f \in Friend : l[f] > 0}
\* "fetch(request).first" of a query by id: the oldest row of that friend.
IsFirst(k) == \A j \in 1..(k - 1) : rows[j].id # rows[k].id

TypeOK ==
  /\ app \in {"on", "off"} \cup Traps
  /\ registered \in BOOLEAN /\ rows \in Seq(Row)
  /\ conversations \subseteq Friend
  /\ serverFriends \subseteq Friend /\ posts \subseteq Friend
  /\ serverLanguage \in [Friend -> Version \ {0}]
  /\ menuOpen \in BOOLEAN /\ menuOwner \in BOOLEAN
  /\ accountPosted \in BOOLEAN /\ contacts \subseteq Friend
  /\ fetchPhase \in FetchPhases /\ fetchOwner \in BOOLEAN
  /\ reply \in [Friend -> Version] /\ todo \subseteq Friend
  /\ current \in Friend /\ cursor \in Nat /\ limit \in Nat
  /\ refreshPhase \in [Request -> RefreshPhases]
  /\ refreshOwner \in [Request -> BOOLEAN]
  /\ sentLanguage \in [Request -> [Friend -> Version]]
  /\ refreshReply \in [Request -> [Friend -> Version]]

\* What GET friend/<id> returns now.  Account 0 has no friends.
ServerList(owner) ==
  [f \in Friend |-> IF owner /\ f \in serverFriends THEN serverLanguage[f] ELSE 0]

\* UserEntity().getUserId() read now: the account's id, or 0 without a row.
StoredOwner == registered
\* What getContacts can return: entries come and go, and reading may fail.
AddressBook == SUBSET Friend
-----------------------------------------------------------------------------
\* The main thread is free for a handler: the loop of fetchFriends holds it.
MainFree == app = "on" /\ fetchPhase \notin {"storing", "scanning"}
\* ActivityIndicator ignores touches from startLoading to stopLoading.
TouchEnabled == MainFree /\ menuOpen /\ fetchPhase = "idle"

ProcessEnds(how) ==
  /\ app' = how
  /\ menuOpen' = FALSE /\ menuOwner' = FALSE /\ accountPosted' = FALSE
  /\ contacts' = {}
  /\ fetchPhase' = "idle" /\ fetchOwner' = FALSE /\ reply' = NoList
  /\ todo' = {} /\ cursor' = 0 /\ limit' = 0 /\ UNCHANGED current
  /\ refreshPhase' = [r \in Request |-> "idle"]
  /\ refreshOwner' = [r \in Request |-> FALSE]
  /\ sentLanguage' = [r \in Request |-> NoList]
  /\ refreshReply' = [r \in Request |-> NoList]

\* updateLanguage: the PUT that a screen sends when it loads; owner is the id
\* its FriendDataManager read when the screen was constructed.
StartRefresh(r, owner) ==
  /\ refreshPhase[r] = "idle"
  /\ refreshPhase' = [refreshPhase EXCEPT ![r] = "put"]
  /\ refreshOwner' = [refreshOwner EXCEPT ![r] = owner]
  /\ UNCHANGED <<sentLanguage, refreshReply>>

EndRefresh(r) ==
  /\ refreshPhase' = [refreshPhase EXCEPT ![r] = "idle"]
  /\ refreshOwner' = [refreshOwner EXCEPT ![r] = FALSE]
  /\ sentLanguage' = [sentLanguage EXCEPT ![r] = NoList]
  /\ refreshReply' = [refreshReply EXCEPT ![r] = NoList]

\* A new MenuViewController: its tabs read the stored id and the stored
\* friends, and its viewDidLoad starts a refresh.
OpenMenu(r) ==
  /\ menuOpen' = TRUE /\ menuOwner' = StoredOwner /\ contacts' = Stored
  /\ StartRefresh(r, StoredOwner)

Launch ==
  /\ app # "on" /\ app' = "on"
  /\ IF registered THEN \E r \in Request : OpenMenu(r)
                   ELSE UNCHANGED <<menuOpen, menuOwner, contacts, refresh>>
  /\ UNCHANGED <<store, server, accountPosted, fetch>>

Kill == app = "on" /\ ProcessEnds("off") /\ UNCHANGED <<store, server>>

\* registerBtnPressed after the upload: POST, and the Menu without waiting.
Register(r) ==
  /\ MainFree /\ ~menuOpen /\ ~registered
  /\ accountPosted' = TRUE /\ OpenMenu(r)
  /\ UNCHANGED <<app, store, server, fetch>>

AccountCreated ==
  /\ MainFree /\ accountPosted
  /\ registered' = TRUE /\ accountPosted' = FALSE
  /\ UNCHANGED <<app, rows, conversations, server, menuOpen, menuOwner,
                 contacts, fetch, refresh>>

\* "response.result.value as! Int" on a reply that is no number.
AccountRefused ==
  /\ MainFree /\ accountPosted
  /\ ProcessEnds("noAccount") /\ UNCHANGED <<store, server>>
-----------------------------------------------------------------------------
\* addContacts: a POST per entry, none of them awaited.
AddContacts(entries) == posts' = posts \cup entries

\* btnSyncPressed: marks the User row, then the POSTs and one GET.
SyncPressed(entries) ==
  /\ TouchEnabled /\ registered /\ Len(rows) =< MaxRows
  /\ AddContacts(entries)
  /\ fetchPhase' = "sent" /\ fetchOwner' = menuOwner
  /\ UNCHANGED <<app, store, serverFriends, serverLanguage, menu, reply, todo,
                 current, cursor, limit, refresh>>

\* The same before addAccount was answered: updateUser unwraps no row.
SyncWithoutUser ==
  /\ TouchEnabled /\ ~registered
  /\ ProcessEnds("noUser") /\ UNCHANGED <<store, server>>

\* The server handles a POST addFriend, or it gets lost; nobody waits for it.
ServerAddFriend(f) ==
  /\ f \in posts /\ posts' = posts \ {f}
  /\ serverFriends' = serverFriends \cup {f}
  /\ UNCHANGED <<app, store, serverLanguage, menu, fetch, refresh>>

PostLost(f) ==
  /\ f \in posts /\ posts' = posts \ {f}
  /\ UNCHANGED <<app, store, serverFriends, serverLanguage, menu, fetch, refresh>>

ServerLanguageChanges(f) ==
  /\ serverLanguage[f] < MaxVersion
  /\ serverLanguage' = [serverLanguage EXCEPT ![f] = @ + 1]
  /\ UNCHANGED <<app, store, serverFriends, posts, menu, fetch, refresh>>

\* The reply to GET friend/<id> has left the server.
FetchAnswered ==
  /\ fetchPhase = "sent" /\ fetchPhase' = "answered"
  /\ reply' = ServerList(fetchOwner)
  /\ UNCHANGED <<app, store, server, menu, fetchOwner, todo, current, cursor,
                 limit, refresh>>

\* No HTTP response, or 200 without JSON: the completion is never called.
FetchLost ==
  /\ fetchPhase = "sent" /\ fetchPhase' = "lost"
  /\ UNCHANGED <<app, store, server, menu, fetchOwner, reply, todo, current,
                 cursor, limit, refresh>>

\* Mutant: the completion stops the indicator but keeps the list it had.
SyncCompletesWithOldList ==
  /\ contacts' = contacts
  /\ fetchPhase' = "idle" /\ fetchOwner' = FALSE /\ reply' = NoList
  /\ UNCHANGED <<app, store, server, menuOpen, menuOwner, accountPosted, todo,
                 current, cursor, limit, refresh>>

\* The completion of syncContacts: show what is stored, stopLoading, alert.
SyncCompletes ==
  /\ contacts' = Stored
  /\ fetchPhase' = "idle" /\ fetchOwner' = FALSE /\ reply' = NoList
  /\ UNCHANGED <<app, store, server, menuOpen, menuOwner, accountPosted, todo,
                 current, cursor, limit, refresh>>

FetchRefused == MainFree /\ fetchPhase = "sent" /\ SyncCompletes

\* Mutants of the next step: the items kept as pairs, the list shown before it
\* is stored, and the table emptied to be filled anew.
FetchHandledAsPairs ==
  /\ MainFree /\ fetchPhase = "answered"
  /\ fetchPhase' = "storing" /\ todo' = {<<f, reply[f]>> : f \in Listed(reply)}
  /\ UNCHANGED <<app, store, server, menu, fetchOwner, reply, current, cursor,
                 limit, refresh>>
FetchHandledShowsFirst ==
  /\ MainFree /\ fetchPhase = "answered"
  /\ fetchPhase' = "storing" /\ todo' = Listed(reply) /\ contacts' = Listed(reply)
  /\ UNCHANGED <<app, store, server, menuOpen, menuOwner, accountPosted,
                 fetchOwner, reply, current, cursor, limit, refresh>>
FetchHandledAnew ==
  /\ MainFree /\ fetchPhase = "answered"
  /\ fetchPhase' = "storing" /\ todo' = Listed(reply) /\ rows' = <<>>
  /\ UNCHANGED <<app, registered, conversations, server, menu, fetchOwner,
                 reply, current, cursor, limit, refresh>>

\* fetchFriends with status 200: for each item of the list ...
FetchHandled ==
  /\ MainFree /\ fetchPhase = "answered"
  /\ fetchPhase' = "storing" /\ todo' = Listed(reply)
  /\ UNCHANGED <<app, store, server, menu, fetchOwner, reply, current, cursor,
                 limit, refresh>>

NewRow == [id |-> current, language |-> reply[current]]

\* ... add it to an empty table, or start the loop over the table's rows ...
StoreItem(f) ==
  /\ app = "on" /\ fetchPhase = "storing" /\ f \in todo
  /\ current' = f /\ todo' = todo \ {f}
  /\ IF rows = <<>>
     THEN /\ rows' = <<[id |-> f, language |-> reply[f]]>>
          /\ UNCHANGED <<fetchPhase, cursor, limit>>
     ELSE /\ fetchPhase' = "scanning" /\ cursor' = 1 /\ limit' = Len(rows)
          /\ UNCHANGED rows
  /\ UNCHANGED <<app, registered, conversations, server, menu, fetchOwner,
                 reply, refresh>>

\* Mutant: no next row after a match.
ScanRowStuck ==
  /\ app = "on" /\ fetchPhase = "scanning" /\ cursor =< limit
  /\ rows[cursor].id # current
  /\ rows' = Append(rows, NewRow) /\ cursor' = cursor + 1
  /\ UNCHANGED <<app, registered, conversations, server, menu, fetchPhase,
                 fetchOwner, reply, todo, current, limit, refresh>>

\* Mutant: the rows the loop adds are rows it still has to look at.
ScanRowLiveTable ==
  /\ app = "on" /\ fetchPhase = "scanning" /\ cursor =< limit
  /\ rows' = IF rows[cursor].id # current THEN Append(rows, NewRow) ELSE rows
  /\ cursor' = cursor + 1 /\ limit' = Len(rows')
  /\ UNCHANGED <<app, registered, conversations, server, menu, fetchPhase,
                 fetchOwner, reply, todo, current, refresh>>

\* ... which adds the item once for every row that belongs to another friend.
ScanRow ==
  /\ app = "on" /\ fetchPhase = "scanning" /\ cursor =< limit
  /\ rows' = IF rows[cursor].id # current THEN Append(rows, NewRow) ELSE rows
  /\ cursor' = cursor + 1
  /\ UNCHANGED <<app, registered, conversations, server, menu, fetchPhase,
                 fetchOwner, reply, todo, current, limit, refresh>>

ItemStored ==
  /\ app = "on" /\ fetchPhase = "scanning" /\ cursor > limit
  /\ fetchPhase' = "storing" /\ cursor' = 0 /\ limit' = 0
  /\ UNCHANGED <<app, store, server, menu, fetchOwner, reply, todo, current,
                 refresh>>

FetchDone == app = "on" /\ fetchPhase = "storing" /\ todo = {} /\ SyncCompletes
-----------------------------------------------------------------------------
\* viewDidLoad of a tab (with the id its Menu cached) or of a chat opened on
\* an existing conversation (with the stored id).  The chat's friend language
\* is read first, by an unwrap of the friend's row.
OpenTab(r) ==
  /\ TouchEnabled /\ StartRefresh(r, menuOwner)
  /\ UNCHANGED <<app, store, server, menu, fetch>>

OpenChat(f, r) ==
  /\ TouchEnabled /\ f \in conversations
  /\ IF f \in Stored
     THEN StartRefresh(r, StoredOwner) /\ UNCHANGED <<app, menu, fetch>>
     ELSE ProcessEnds("noFriend")
  /\ UNCHANGED <<store, server>>

\* navigateToVideo at the end of a call: a new Menu replaces the old one.
ReopenMenu(r) ==
  /\ TouchEnabled /\ conversations # {} /\ OpenMenu(r)
  /\ UNCHANGED <<app, store, server, accountPosted, fetch>>

\* didSelectRow of the contact screen: a conversation unless there is one.
AddConversation(f) == conversations' = conversations \cup {f}

SelectContact(f) ==
  /\ TouchEnabled /\ f \in contacts
  /\ IF f \in conversations THEN UNCHANGED conversations ELSE AddConversation(f)
  /\ UNCHANGED <<app, registered, rows, server, menu, fetch, refresh>>

\* The PUT was answered with 200 or 400: send GET friend/<id>.
PutAnswered(r) ==
  /\ MainFree /\ refreshPhase[r] = "put"
  /\ refreshPhase' = [refreshPhase EXCEPT ![r] = "get"]
  /\ sentLanguage' = [sentLanguage EXCEPT ![r] = ServerList(refreshOwner[r])]
  /\ UNCHANGED <<app, store, server, menu, fetch, refreshOwner, refreshReply>>

\* Any other outcome of the PUT, or a GET whose reply has no JSON.
RefreshFails(r) ==
  /\ MainFree /\ refreshPhase[r] \in {"put", "get"} /\ EndRefresh(r)
  /\ UNCHANGED <<app, store, server, menu, fetch>>

\* updateLanguageFriends looks at no status: an error object is no NSArray.
RefreshErrorBody(r) ==
  /\ MainFree /\ refreshPhase[r] = "get"
  /\ ProcessEnds("notAnArray") /\ UNCHANGED <<store, server>>

RefreshAnswered(r) ==
  /\ refreshPhase[r] = "get"
  /\ refreshPhase' = [refreshPhase EXCEPT ![r] = "answered"]
  /\ refreshReply' = [refreshReply EXCEPT ![r] = ServerList(refreshOwner[r])]
  /\ UNCHANGED <<app, store, server, menu, fetch, refreshOwner, sentLanguage>>

\* Mutant: the newest row gets the language.
UpdateNewestRows(r, done) ==
  rows' = [k \in DOMAIN rows |->
             IF /\ rows[k].id \in done
                /\ \A j \in DOMAIN rows : j > k => rows[j].id # rows[k].id
             THEN [rows[k] EXCEPT !.language = refreshReply[r][rows[k].id]]
             ELSE rows[k]]

\* updateFriend, for the friends in done: the oldest row gets the language.
UpdateRows(r, done) ==
  rows' = [k \in DOMAIN rows |->
             IF rows[k].id \in done /\ IsFirst(k)
             THEN [rows[k] EXCEPT !.language = refreshReply[r][rows[k].id]]
             ELSE rows[k]]

RefreshApplied(r) ==
  /\ MainFree /\ refreshPhase[r] = "answered"
  /\ Listed(refreshReply[r]) \subseteq Stored
  /\ UpdateRows(r, Listed(refreshReply[r])) /\ EndRefresh(r)
  /\ UNCHANGED <<app, registered, conversations, server, menu, fetch>>

\* An item without a row ends the process ("first as! NSManagedObject"), after
\* the items before it were saved.
RefreshUnwrapsNoRow(r) ==
  /\ MainFree /\ refreshPhase[r] = "answered"
  /\ ~ Listed(refreshReply[r]) \subseteq Stored
  /\ \E done \in SUBSET (Listed(refreshReply[r]) \cap Stored) : UpdateRows(r, done)
  /\ ProcessEnds("noRow") /\ UNCHANGED <<registered, conversations, server>>

\* A kill between two of its saves.
KillDuringRefresh(r) ==
  /\ MainFree /\ refreshPhase[r] = "answered"
  /\ \E done \in SUBSET (Listed(refreshReply[r]) \cap Stored) : UpdateRows(r, done)
  /\ ProcessEnds("off") /\ UNCHANGED <<registered, conversations, server>>
-----------------------------------------------------------------------------
Init ==
  /\ app = "off" /\ registered = FALSE /\ rows = <<>> /\ conversations = {}
  /\ serverFriends = {} /\ posts = {}
  /\ serverLanguage = [f \in Friend |-> 1]
  /\ menuOpen = FALSE /\ menuOwner = FALSE /\ accountPosted = FALSE
  /\ contacts = {}
  /\ fetchPhase = "idle" /\ fetchOwner = FALSE /\ reply = NoList
  /\ todo = {} /\ current \in Friend
  /\ cursor = 0 /\ limit = 0
  /\ refreshPhase = [r \in Request |-> "idle"]
  /\ refreshOwner = [r \in Request |-> FALSE]
  /\ sentLanguage = [r \in Request |-> NoList]
  /\ refreshReply = [r \in Request |-> NoList]

Account == Launch \/ Kill \/ AccountCreated \/ AccountRefused
           \/ \E r \in Request : Register(r)
Server  == \E f \in Friend : ServerAddFriend(f) \/ PostLost(f)
                             \/ ServerLanguageChanges(f)
Sync    == \/ \E entries \in AddressBook : SyncPressed(entries)
           \/ SyncWithoutUser \/ FetchAnswered \/ FetchLost \/ FetchRefused
           \/ FetchHandled \/ ScanRow \/ ItemStored \/ FetchDone
           \/ \E f \in Friend : StoreItem(f)
Screens == \/ \E f \in Friend : SelectContact(f)
           \/ \E f \in Friend, r \in Request : OpenChat(f, r)
           \/ \E r \in Request : OpenTab(r) \/ ReopenMenu(r)
Refresh == \E r \in Request :
             \/ PutAnswered(r) \/ RefreshFails(r) \/ RefreshErrorBody(r)
             \/ RefreshAnswered(r) \/ RefreshApplied(r)
             \/ RefreshUnwrapsNoRow(r) \/ KillDuringRefresh(r)

Next == Account \/ Server \/ Sync \/ Screens \/ Refresh

Spec == Init /\ [][Next]_vars

\* Alamofire calls every completion once (a timeout is one of the outcomes),
\* and the main queue runs what is queued.  The user, the server's other
\* clients and a kill are not fair.
Fairness ==
  /\ WF_vars(FetchAnswered \/ FetchLost \/ FetchRefused)
  /\ WF_vars(FetchHandled) /\ WF_vars(ScanRow) /\ WF_vars(ItemStored)
  /\ WF_vars(FetchDone) /\ WF_vars(\E f \in Friend : StoreItem(f))

FairSpec == Spec /\ Fairness
-----------------------------------------------------------------------------
\* The friends of a reply that fetchFriends has gone past are stored: the loop
\* that adds an item per non-matching row never skips an absent friend.
FetchedAreStored ==
  fetchPhase \in {"storing", "scanning"} =>
    Listed(reply) \ (todo \cup (IF fetchPhase = "scanning" THEN {current} ELSE {}))
      \subseteq Stored

\* The contact screen and the conversations only name friends that have a row,
\* whatever was killed between the saves: the unwraps of getFriendLanguage
\* find one, and no chat ends the process.
FriendsHaveRows ==
  /\ contacts \subseteq Stored /\ conversations \subseteq Stored
  /\ app # "noFriend"

\* The table only repeats a friend once it holds another one (the loop of
\* fetchFriends adds per row of somebody else).
LoneFriendHasOneRow ==
  Len(rows) > 1 => \E j, k \in DOMAIN rows : rows[j].id # rows[k].id

\* When the "contacts were updated" alert comes after a 200 reply, the contact
\* screen lists every friend of that reply.
SyncShowsTheReply ==
  [][app' = "on" /\ fetchPhase = "storing" /\ fetchPhase' = "idle"
       => Listed(reply) \subseteq contacts']_vars

\* A refresh that runs to its end leaves, in the row that getFriendLanguage
\* reads, a language at least as new as the server had when it was asked.
RefreshIsFresh ==
  [][\A r \in Request :
       app' = "on" /\ refreshPhase[r] = "answered" /\ refreshPhase'[r] = "idle"
         => \A k \in DOMAIN rows : IsFirst(k) =>
              rows'[k].language >= sentLanguage[r][rows[k].id]]_vars

\* A sync ends in its alert (or the process ends) unless its GET gets no usable
\* HTTP answer, although its loop writes to the table it reads.
SyncEnds == fetchPhase = "sent" ~> fetchPhase \in {"idle", "lost"}

\* Why it ends: whatever happens while the loop of fetchFriends runs either
\* finishes with an item of the reply or gets nearer to the last row that the
\* table had when the item was taken, although the loop makes the table longer.
InLoop   == fetchPhase \in {"storing", "scanning"}
RowsLeft == IF fetchPhase = "scanning" THEN limit + 2 - cursor ELSE 0
SyncLoopDescends ==
  [][InLoop /\ InLoop' /\ <<fetch, rows>>' # <<fetch, rows>> =>
       \/ todo' \subseteq todo /\ todo' # todo
       \/ todo' = todo /\ RowsLeft' < RowsLeft /\ RowsLeft' \in Nat]_vars

\* Seen from FriendDirectory: friends are stored one by one, only ones the
\* server recorded, and none is forgotten, restarts included.
Directory == INSTANCE FriendDirectory WITH known <- serverFriends, learnt <- Stored
DirectorySpec == Directory!Spec

\* "first as! NSManagedObject": every friend the server lists has a row.
RefreshFindsRow == app # "noRow"
=============================================================================
