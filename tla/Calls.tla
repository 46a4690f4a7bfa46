------------------------------- MODULE Calls -------------------------------
(***************************************************************************)
(* How a call is announced and answered.  The caller's chat writes a node  *)
(* below the room's "notification" and opens its call screen; whoever      *)
(* watches the room lets CallKit ring; answering opens a call screen with  *)
(* what the answering MenuViewController remembers of the calls it heard.  *)
(*                                                                         *)
(* Every MenuViewController stays alive through its observers.  A launch   *)
(* makes one and every hang-up makes another (navigateToVideo); going to   *)
(* the background gives AppDelegate one more set of observers.  All of     *)
(* them are the watchers of a phone, in the order they were made; the last *)
(* Menu is the one on the screen.  It presents one thing at a time: a call *)
(* screen, an alert, an action sheet or a picker.                          *)
(*                                                                         *)
(* A phone is named by its account; a friend stands for the language and   *)
(* the name that are looked up with his id; 0 is the empty string.         *)
(***************************************************************************)
EXTENDS Rooms, Sequences, FiniteSets

CONSTANTS Phone,       \* accounts whose phones run the app
          Friends,     \* the contacts of each phone that can get a conversation
          Caller,      \* bound: the phones that place calls
          Window,      \* queryLimited(toLast: 10)
          MaxCall,     \* bound: calls that are ever placed
          MaxWatcher   \* bound: watchers in one process

ASSUME PhonesAreAccounts == Phone \subseteq Account
ASSUME FriendsAreAccounts == Friends \in [Phone -> SUBSET Account]
ASSUME BoundsAreNaturals ==
  Window \in Nat \ {0} /\ MaxCall \in Nat /\ MaxWatcher \in Nat \ {0}

VARIABLES
  app,        \* the process runs, is off, or an overflow ended it
  rows,       \* Conversation rows
  watchers,   \* who observes the notifications in this process
  ringing,    \* calls that CallKit shows: the watcher that reported it and the node
  pushed,     \* call screen that this phone's chat pushed
  presented,  \* what is over the Menu: a call screen, opened by answering, or a sheet
  notes,      \* the "notification" nodes of all rooms
  joins,      \* the "audioCalling" nodes of all rooms
  nextKey,    \* childByAutoId, in the order the keys were made
  placed      \* history: all notification nodes there ever were

phoneVars == <<app, rows, watchers, ringing, pushed, presented>>
treeVars  == <<notes, joins, nextKey, placed>>
vars      == <<phoneVars, treeVars>>

Note == [key : Nat, room : Nat, sender : Phone, kind : {"video", "audio"}]
Join == [key : Nat, room : Nat, sender : Phone]

\* A call screen; its clock runs since the joins it was told of.  A sheet stands for
\* any alert, action sheet or picker.
Screen == [kind : {"none", "sheet", "video", "audio"}, room : Nat, friend : Nat, name : Nat,
           clock : SUBSET Join]
NoCall == [kind |-> "none", room |-> 0, friend |-> 0, name |-> 0, clock |-> {}]
Sheet  == [NoCall EXCEPT !.kind = "sheet"]

\* watched: conversations when it was made; told: nodes its observers delivered;
\* room .. audio: currentConversationName, currentFriendLanguage, currentName, isVideo,
\* isAudio; pending: history, the calls taken up since the last answer.
Watcher == [type : {"menu", "delegate"}, watched : SUBSET Nat, told : SUBSET Note,
            room : Nat, friend : Nat, name : Nat, video : BOOLEAN, audio : BOOLEAN,
            pending : Seq(Note)]
NewWatcher(p, type) ==
  [type |-> type, watched |-> rows[p], told |-> {}, room |-> 0, friend |-> 0, name |-> 0,
   video |-> FALSE, audio |-> FALSE, pending |-> << >>]

Running(p) == app[p] = "running"
RowsFit(p) == \A f \in rows[p] : Fits(p, f)
Armed(w)   == w.video \/ w.audio
IsCall(s)  == s.kind \in {"video", "audio"}

TypeOK ==
  /\ app \in [Phone -> {"running", "off", "trapped"}]
  /\ rows \in [Phone -> SUBSET Account] /\ \A p \in Phone : rows[p] \subseteq Friends[p]
  /\ watchers \in [Phone -> Seq(Watcher)]
  /\ ringing \in [Phone -> SUBSET [watcher : Nat, note : Note]]
  /\ \A p \in Phone : \A c \in ringing[p] : c.watcher \in DOMAIN watchers[p]
  /\ pushed \in [Phone -> Screen] /\ presented \in [Phone -> Screen]
  /\ notes \subseteq Note /\ joins \subseteq Join /\ nextKey \in Nat /\ placed \subseteq Note

Init ==
  /\ app = [p \in Phone |-> "off"]
  /\ rows = [p \in Phone |-> {}]
  /\ watchers = [p \in Phone |-> << >>]
  /\ ringing = [p \in Phone |-> {}]
  /\ pushed = [p \in Phone |-> NoCall] /\ presented = [p \in Phone |-> NoCall]
  /\ notes = {} /\ joins = {} /\ nextKey = 1 /\ placed = {}
-----------------------------------------------------------------------------
Stopped(p, how) ==
  /\ app' = [app EXCEPT ![p] = how]
  /\ watchers' = [watchers EXCEPT ![p] = << >>]
  /\ ringing' = [ringing EXCEPT ![p] = {}]
  /\ pushed' = [pushed EXCEPT ![p] = NoCall] /\ presented' = [presented EXCEPT ![p] = NoCall]
  /\ UNCHANGED rows

Kill(p) == Running(p) /\ Stopped(p, "off") /\ UNCHANGED treeVars

\* A watcher is made of the conversations; a name that does not fit ends the process.
Watch(p, type) ==
  /\ RowsFit(p)
  /\ watchers' = [watchers EXCEPT ![p] = Append(@, NewWatcher(p, type))]

Launch(p) ==
  /\ ~Running(p)
  /\ \/ /\ Watch(p, "menu") /\ app' = [app EXCEPT ![p] = "running"]
        /\ UNCHANGED <<rows, ringing, pushed, presented>>
     \/ ~RowsFit(p) /\ Stopped(p, "trapped")
  /\ UNCHANGED treeVars

EnterBackground(p) ==
  /\ Running(p) /\ Len(watchers[p]) < MaxWatcher
  /\ \/ Watch(p, "delegate") /\ UNCHANGED <<app, rows, ringing, pushed, presented>>
     \/ ~RowsFit(p) /\ Stopped(p, "trapped")
  /\ UNCHANGED treeVars

\* No call screen and no sheet keeps the user from the Menu and its chats.
Touchable(p) == Running(p) /\ pushed[p] = NoCall /\ presented[p] = NoCall

\* A friend of the contact list is chosen: the row is made and an alert says so.
AddConversation(p, f) ==
  /\ Touchable(p) /\ f \in Friends[p] \ rows[p]
  /\ rows' = [rows EXCEPT ![p] = @ \cup {f}]
  /\ presented' = [presented EXCEPT ![p] = Sheet]
  /\ UNCHANGED <<app, watchers, ringing, pushed, treeVars>>

\* The alerts of the lists, the sheets of a chat's buttons and its picker.
OpenSheet(p) ==
  /\ Touchable(p) /\ presented' = [presented EXCEPT ![p] = Sheet]
  /\ UNCHANGED <<app, rows, watchers, ringing, pushed, treeVars>>

\* The user is done with a sheet.  The completion of a photo that was sent from a
\* chat dismisses whatever is presented by then, a call screen included.
Dismiss(p) ==
  /\ presented[p] # NoCall /\ presented' = [presented EXCEPT ![p] = NoCall]
  /\ UNCHANGED <<app, rows, watchers, ringing, pushed, treeVars>>
-----------------------------------------------------------------------------
\* Opening the chat computes the name of the room, before anything else.
OpenTooLarge(p, f) ==
  /\ Touchable(p) /\ f \in rows[p] /\ ~Fits(p, f)
  /\ Stopped(p, "trapped") /\ UNCHANGED treeVars

\* The call button of the chat with f: what happens when its sheet is gone.
PlaceCall(p, f, kind) ==
  /\ Touchable(p) /\ p \in Caller /\ f \in rows[p] /\ Fits(p, f)
  /\ Cardinality(placed) < MaxCall
  /\ LET note == [key |-> nextKey, room |-> RoomName(p, f), sender |-> p, kind |-> kind]
     IN  notes' = notes \cup {note} /\ placed' = placed \cup {note}
  /\ pushed' = [pushed EXCEPT ![p] = [kind |-> kind, room |-> RoomName(p, f), friend |-> f,
                                      name |-> IF kind = "audio" THEN f ELSE 0, clock |-> {}]]
  /\ nextKey' = nextKey + 1
  /\ UNCHANGED <<app, rows, watchers, ringing, presented, joins>>

\* The back button leaves a pushed call screen without hanging up.
Back(p) ==
  /\ pushed[p] # NoCall /\ presented[p] = NoCall
  /\ pushed' = [pushed EXCEPT ![p] = NoCall]
  /\ UNCHANGED <<app, rows, watchers, ringing, presented, treeVars>>
-----------------------------------------------------------------------------
\* The nodes a query delivers: the last of their room, by key.
Newest(nodes, node) ==
  Cardinality({n \in nodes : n.room = node.room /\ n.key >= node.key}) <= Window

\* Mutant: the observers do not compare the sender with the own id.
ForeignOrOwn(p, note) == TRUE

\* Calls that this phone placed itself are delivered and ignored.
Foreign(p, note) == note.sender # p

\* Mutant: the audio observer does not set the name.
TakeUpNameless(w, note, f) ==
  IF note.kind = "video"
  THEN [w EXCEPT !.room = note.room, !.friend = f, !.video = TRUE, !.pending = Append(@, note)]
  ELSE [w EXCEPT !.room = note.room, !.friend = f, !.audio = TRUE, !.pending = Append(@, note)]

\* What a Menu's two observers keep of somebody else's call from friend f's room.
TakeUp(w, note, f) ==
  IF note.kind = "video"
  THEN [w EXCEPT !.room = note.room, !.friend = f, !.video = TRUE, !.pending = Append(@, note)]
  ELSE [w EXCEPT !.room = note.room, !.friend = f, !.name = f, !.audio = TRUE,
                 !.pending = Append(@, note)]

\* Mutant: the room is remembered before the sender is compared.
DeliveredBeforeCheck(p, w, note, f) ==
  LET told == [w EXCEPT !.told = @ \cup {note}, !.room = note.room]
  IN  IF w.type = "menu" /\ Foreign(p, note) THEN TakeUp(told, note, f) ELSE told

\* What watcher w is after its observer delivered a node of friend f's room.
Delivered(p, w, note, f) ==
  LET told == [w EXCEPT !.told = @ \cup {note}]
  IN  IF w.type = "menu" /\ Foreign(p, note) THEN TakeUp(told, note, f) ELSE told

\* childAdded of a notification.  CallKit may refuse to report the call.
Hear(p, i, f, note) ==
  LET w     == watchers[p][i]
      rings == Foreign(p, note) /\ (w.type = "menu" \/ note.kind = "video")
  IN  /\ Running(p) /\ note \notin w.told /\ Newest(notes, note)
      /\ f \in w.watched /\ note.room = RoomName(p, f)
      /\ watchers' = [watchers EXCEPT ![p][i] = Delivered(p, w, note, f)]
      /\ \/ rings /\ ringing' = [ringing EXCEPT ![p] = @ \cup {[watcher |-> i, note |-> note]}]
         \/ UNCHANGED ringing
      /\ UNCHANGED <<app, rows, pushed, presented, treeVars>>

\* Of the watchers, the Menu that is on the screen.
OnScreen(p, i) ==
  /\ watchers[p][i].type = "menu"
  /\ \A j \in DOMAIN watchers[p] : watchers[p][j].type = "menu" => j <= i

\* Mutant: an answer replaces what is presented already.
ShowOver(p, i, screen) ==
  presented' = IF OnScreen(p, i) THEN [presented EXCEPT ![p] = screen] ELSE presented

\* Only the Menu on the screen can present, and only while nothing is presented:
\* over a sheet, as over another call, the call screen never appears.
Show(p, i, screen) ==
  presented' = IF OnScreen(p, i) /\ presented[p] = NoCall
               THEN [presented EXCEPT ![p] = screen] ELSE presented

\* The fields are emptied, all but currentName.
Forgotten(w) ==
  [w EXCEPT !.room = 0, !.friend = 0, !.video = FALSE, !.audio = FALSE, !.pending = << >>]

\* Mutant: an answered watcher and those after it are released.
ForgetWatcher(p, i) == watchers' = [watchers EXCEPT ![p] = SubSeq(@, 1, i - 1)]

ForgetCalls(p, i) == watchers' = [watchers EXCEPT ![p][i] = Forgotten(watchers[p][i])]

\* Mutant: the nodes of all rooms are removed.
ClearAllNotes(room) == notes' = {}

ClearNotes(room) == notes' = {n \in notes : n.room # room}

AnswerVideo(p, i) ==
  LET w == watchers[p][i]
  IN  /\ w.video
      /\ Show(p, i, [kind |-> "video", room |-> w.room, friend |-> w.friend, name |-> 0,
                     clock |-> {}])
      /\ ClearNotes(w.room) /\ ForgetCalls(p, i)
      /\ UNCHANGED <<joins, nextKey>>

\* Mutant: isAudio is looked at whether or not isVideo is set.
AnswerAudioFirst(p, i) ==
  LET w == watchers[p][i]
  IN  /\ w.audio
      /\ Show(p, i, [kind |-> "audio", room |-> w.room, friend |-> w.friend, name |-> w.name,
                     clock |-> {}])
      /\ joins' = joins \cup {[key |-> nextKey, room |-> w.room, sender |-> p]}
      /\ nextKey' = nextKey + 1
      /\ ClearNotes(w.room) /\ ForgetCalls(p, i)

AnswerAudio(p, i) ==
  LET w == watchers[p][i]
  IN  /\ ~w.video /\ w.audio
      /\ Show(p, i, [kind |-> "audio", room |-> w.room, friend |-> w.friend, name |-> w.name,
                     clock |-> {}])
      /\ joins' = joins \cup {[key |-> nextKey, room |-> w.room, sender |-> p]}
      /\ nextKey' = nextKey + 1
      /\ ClearNotes(w.room) /\ ForgetCalls(p, i)

\* The user answers a call that rings.  AppDelegate does no more than fulfil it.
Answer(p, call) ==
  /\ ringing' = [ringing EXCEPT ![p] = @ \ {call}]
  /\ \/ AnswerVideo(p, call.watcher)
     \/ AnswerAudio(p, call.watcher)
     \/ ~Armed(watchers[p][call.watcher]) /\ UNCHANGED <<watchers, presented, notes, joins, nextKey>>
  /\ UNCHANGED <<app, rows, pushed, placed>>

\* The call is declined, or rings in vain: nothing is forgotten.
Decline(p, call) ==
  /\ ringing' = [ringing EXCEPT ![p] = @ \ {call}]
  /\ UNCHANGED <<app, rows, watchers, pushed, presented, treeVars>>
-----------------------------------------------------------------------------
\* childAdded of "audioCalling" on a call screen: one more clock.
HearJoin(p, join) ==
  /\ Newest(joins, join)
  /\ \/ /\ pushed[p].kind = "audio" /\ join.room = pushed[p].room /\ join \notin pushed[p].clock
        /\ pushed' = [pushed EXCEPT ![p].clock = @ \cup {join}] /\ UNCHANGED presented
     \/ /\ presented[p].kind = "audio" /\ join.room = presented[p].room
        /\ join \notin presented[p].clock
        /\ presented' = [presented EXCEPT ![p].clock = @ \cup {join}] /\ UNCHANGED pushed
  /\ UNCHANGED <<app, rows, watchers, ringing, treeVars>>

\* What is in front.
Front(p) == IF presented[p] # NoCall THEN presented[p] ELSE pushed[p]

\* Red button: the room's joins go, and a new Menu replaces everything.
HangUp(p) ==
  /\ IsCall(Front(p)) /\ Len(watchers[p]) < MaxWatcher
  /\ joins' = IF Front(p).kind = "audio" THEN {j \in joins : j.room # Front(p).room} ELSE joins
  /\ \/ /\ Watch(p, "menu")
        /\ pushed' = [pushed EXCEPT ![p] = NoCall]
        /\ presented' = [presented EXCEPT ![p] = NoCall]
        /\ UNCHANGED <<app, rows, ringing>>
     \/ ~RowsFit(p) /\ Stopped(p, "trapped")
  /\ UNCHANGED <<notes, nextKey, placed>>
-----------------------------------------------------------------------------
Process(p) == Kill(p) \/ Launch(p) \/ EnterBackground(p)

Chats(p) ==
  \/ OpenSheet(p) \/ Dismiss(p)
  \/ \E f \in Friends[p] : AddConversation(p, f) \/ OpenTooLarge(p, f)
  \/ \E f \in Friends[p], kind \in {"video", "audio"} : PlaceCall(p, f, kind)
  \/ Back(p) \/ HangUp(p)

Observers(p) ==
  \/ \E i \in DOMAIN watchers[p] : \E f \in Friends[p], note \in notes : Hear(p, i, f, note)
  \/ \E join \in joins : HearJoin(p, join)

CallKit(p) == \E call \in ringing[p] : Answer(p, call) \/ Decline(p, call)

Next == \E p \in Phone : Process(p) \/ Chats(p) \/ Observers(p) \/ CallKit(p)

Spec == Init /\ [][Next]_vars
-----------------------------------------------------------------------------
(* A Menu that would open a call screen has a room that it watches, and    *)
(* looked up the language of the account that dividing the room's name     *)
(* yields; an audio call also has its name.  What is kept of several calls *)
(* in MenuViewController's fields never mixes two friends.                 *)
RememberedCallsAgree ==
  \A p \in Phone : \A i \in DOMAIN watchers[p] :
    LET w == watchers[p][i]
    IN  /\ Armed(w) => /\ w.friend \in w.watched /\ w.room = RoomName(p, w.friend)
                       /\ w.friend = FriendOf(w.room, p)
                       /\ ~w.video => w.name = w.friend
        /\ ~Armed(w) => w.room = 0

(* Answering opens a room in which somebody else placed a call, and a      *)
(* screen of a kind that somebody else asked for: for an audio call both   *)
(* in one call.  Kills, hang-ups and other phones' answers are no excuse.  *)
AnsweredCallsWerePlaced ==
  \A p \in Phone : IsCall(presented[p]) =>
    LET others == {n \in placed : n.sender # p}
    IN  /\ \E n \in others : n.room = presented[p].room
        /\ \E n \in others : n.kind = presented[p].kind
        /\ presented[p].kind = "audio" =>
             \E n \in others : n.kind = "audio" /\ n.room = presented[p].room

(* The clock of an audio call runs only when somebody answered an audio    *)
(* call of somebody else in that room.                                     *)
ClocksNeedAnAnswer ==
  \A p \in Phone : \A j \in pushed[p].clock \cup presented[p].clock :
    \E n \in placed : n.kind = "audio" /\ n.room = j.room /\ n.sender # j.sender

(* A Menu on the screen that took up one call since the last answer opens  *)
(* this call when it is answered, whatever else rings, unless an alert, a  *)
(* sheet, a picker or another call is presented: UIKit then drops the      *)
(* screen, after prepare and the answer have emptied the Menu's fields     *)
(* (MenuViewController.swift:28-39 and 117-135).                           *)
LoneCallIsAnswered ==
  [][\A p \in Phone : \A i \in DOMAIN watchers[p] :
       LET w == watchers[p][i]
       IN  /\ OnScreen(p, i) /\ presented[p] = NoCall /\ Len(w.pending) = 1
           /\ i \in DOMAIN watchers'[p] /\ watchers'[p][i].pending = << >>
           => /\ presented'[p].kind = w.pending[1].kind /\ presented'[p].room = w.pending[1].room
              /\ RoomName(p, presented'[p].friend) = w.pending[1].room]_vars

(* A call's notification disappears only when a phone answers that had     *)
(* been told of somebody else's call in the same room.                     *)
NotificationsStayUntilAnswered ==
  [][\A n \in notes \ notes' :
       \E p \in Phone : \E i \in DOMAIN watchers[p] :
         /\ \E told \in watchers[p][i].told : told.room = n.room /\ told.sender # p
         /\ Armed(watchers[p][i]) /\ ~Armed(watchers'[p][i])]_vars

(* Seen from CallBoard: however many Menus observe, ring and answer out of *)
(* turn, a call is placed once, is taken off by the answer to a call of    *)
(* somebody else in its room, together with the others of this room, and   *)
(* nobody gets into a room but by placing or by answering a call there.    *)
Board == INSTANCE CallBoard
           WITH Person <- Phone, Nowhere <- 0, open <- notes,
                calling <- [p \in Phone |-> pushed[p].room],
                at <- [p \in Phone |-> presented[p].room]
BoardSpec == Board!Spec
=============================================================================
