---------------------------- MODULE Calls_proofs ----------------------------
(* Theorems about Calls, for all phones, friends and bounds. *)
EXTENDS Calls, Rooms_proofs

USE PhonesAreAccounts, FriendsAreAccounts

LEMMA SequenceFacts ==
  ASSUME NEW S, NEW s \in Seq(S), NEW x \in S
  PROVE  /\ Append(s, x) \in Seq(S) /\ Append(s, x) # << >>
         /\ Len(Append(s, x)) = Len(s) + 1 /\ Len(s) \in Nat
         /\ DOMAIN Append(s, x) = DOMAIN s \cup {Len(s) + 1}
         /\ \A i \in DOMAIN s : Append(s, x)[i] = s[i]
         /\ Append(s, x)[Len(s) + 1] = x
         /\ \A i \in DOMAIN s : /\ s[i] \in S
                                /\ [s EXCEPT ![i] = x] \in Seq(S)
                                /\ DOMAIN [s EXCEPT ![i] = x] = DOMAIN s
OBVIOUS

LEMMA NoCallIsScreen == NoCall \in Screen /\ Sheet \in Screen
BY DEF NoCall, Sheet, Screen

LEMMA NewWatcherTypes ==
  ASSUME TypeOK, NEW p \in Phone, NEW type \in {"menu", "delegate"}
  PROVE  NewWatcher(p, type) \in Watcher
<1>1. rows[p] \subseteq Nat
  BY AccountsArePositive DEF TypeOK
<1>. QED BY <1>1 DEF NewWatcher, Watcher

LEMMA ForgottenTypes ==
  ASSUME NEW w \in Watcher
  PROVE  Forgotten(w) \in Watcher
<1>1. << >> \in Seq(Note)
  OBVIOUS
<1>. QED BY <1>1 DEF Forgotten, Watcher

LEMMA DeliveredTypes ==
  ASSUME NEW p \in Phone, NEW w \in Watcher, NEW note \in Note, NEW f \in Nat
  PROVE  Delivered(p, w, note, f) \in Watcher
<1>1. Append(w.pending, note) \in Seq(Note)
  BY SequenceFacts DEF Watcher
<1>. QED BY <1>1 DEF Delivered, TakeUp, Watcher, Note

\* What the steps do to the process of one phone.
LEMMA StoppedTypes ==
  ASSUME TypeOK, NEW p \in Phone, NEW how \in {"off", "trapped"}, Stopped(p, how),
         notes' \subseteq Note, joins' \subseteq Join, nextKey' \in Nat, placed' \subseteq Note
  PROVE  TypeOK'
<1>1. << >> \in Seq(Watcher)
  OBVIOUS
<1>. QED BY <1>1, NoCallIsScreen DEF TypeOK, Stopped

LEMMA WatchTypes ==
  ASSUME TypeOK, NEW p \in Phone, NEW type \in {"menu", "delegate"}, Watch(p, type)
  PROVE  /\ watchers' \in [Phone -> Seq(Watcher)]
         /\ \A q \in Phone : DOMAIN watchers[q] \subseteq DOMAIN watchers'[q]
<1>1. watchers[p] \in Seq(Watcher) /\ NewWatcher(p, type) \in Watcher
  BY NewWatcherTypes DEF TypeOK
<1>2. /\ watchers'[p] = Append(watchers[p], NewWatcher(p, type))
      /\ \A q \in Phone \ {p} : watchers'[q] = watchers[q]
  BY DEF Watch, TypeOK
<1>3. watchers'[p] \in Seq(Watcher) /\ DOMAIN watchers[p] \subseteq DOMAIN watchers'[p]
  BY <1>1, <1>2, SequenceFacts
<1>4. watchers' = [watchers EXCEPT ![p] = watchers'[p]]
  BY <1>2 DEF Watch, TypeOK
<1>. QED BY <1>2, <1>3, <1>4 DEF TypeOK

LEMMA ChangeTypes ==
  ASSUME TypeOK, NEW p \in Phone, NEW i \in DOMAIN watchers[p], NEW w \in Watcher,
         watchers' = [watchers EXCEPT ![p][i] = w]
  PROVE  /\ watchers' \in [Phone -> Seq(Watcher)]
         /\ watchers'[p] = [watchers[p] EXCEPT ![i] = w]
         /\ \A q \in Phone : DOMAIN watchers'[q] = DOMAIN watchers[q]
         /\ \A q \in Phone : \A j \in DOMAIN watchers[q] :
              watchers'[q][j] = IF q = p /\ j = i THEN w ELSE watchers[q][j]
<1>1. watchers[p] \in Seq(Watcher)
  BY DEF TypeOK
<1>2. /\ watchers'[p] = [watchers[p] EXCEPT ![i] = w]
      /\ \A q \in Phone \ {p} : watchers'[q] = watchers[q]
  BY DEF TypeOK
<1>3. /\ watchers'[p] \in Seq(Watcher) /\ DOMAIN watchers'[p] = DOMAIN watchers[p]
      /\ \A j \in DOMAIN watchers[p] : watchers'[p][j] = IF j = i THEN w ELSE watchers[p][j]
  BY <1>1, <1>2, SequenceFacts
<1>4. watchers' = [watchers EXCEPT ![p] = watchers'[p]]
  BY <1>2 DEF TypeOK
<1>. QED BY <1>2, <1>3, <1>4 DEF TypeOK

THEOREM TypeCorrect == Spec => []TypeOK
<1>1. Init => TypeOK
  <2>1. << >> \in Seq(Watcher)
    OBVIOUS
  <2>. QED BY <2>1, NoCallIsScreen DEF Init, TypeOK
<1>2. TypeOK /\ [Next]_vars => TypeOK'
  <2>. SUFFICES ASSUME TypeOK, [Next]_vars PROVE TypeOK'
    OBVIOUS
  <2>1. CASE UNCHANGED vars
    BY <2>1 DEF vars, phoneVars, treeVars, TypeOK
  <2>2. ASSUME NEW p \in Phone, Kill(p) PROVE TypeOK'
    BY <2>2, StoppedTypes DEF Kill, treeVars, TypeOK
  <2>3. ASSUME NEW p \in Phone, Launch(p) PROVE TypeOK'
    <3>1. CASE Watch(p, "menu") /\ app' = [app EXCEPT ![p] = "running"]
               /\ UNCHANGED <<rows, ringing, pushed, presented, treeVars>>
      BY <3>1, WatchTypes DEF treeVars, TypeOK
    <3>2. CASE Stopped(p, "trapped") /\ UNCHANGED treeVars
      BY <3>2, StoppedTypes DEF treeVars, TypeOK
    <3>. QED BY <2>3, <3>1, <3>2 DEF Launch
  <2>4. ASSUME NEW p \in Phone, EnterBackground(p) PROVE TypeOK'
    <3>1. CASE Watch(p, "delegate") /\ UNCHANGED <<app, rows, ringing, pushed, presented, treeVars>>
      BY <3>1, WatchTypes DEF treeVars, TypeOK
    <3>2. CASE Stopped(p, "trapped") /\ UNCHANGED treeVars
      BY <3>2, StoppedTypes DEF treeVars, TypeOK
    <3>. QED BY <2>4, <3>1, <3>2 DEF EnterBackground
  <2>5. ASSUME NEW p \in Phone, NEW f \in Friends[p], AddConversation(p, f) PROVE TypeOK'
    BY <2>5, NoCallIsScreen DEF AddConversation, treeVars, TypeOK
  <2>6. ASSUME NEW p \in Phone, NEW f \in Friends[p], OpenTooLarge(p, f) PROVE TypeOK'
    BY <2>6, StoppedTypes DEF OpenTooLarge, treeVars, TypeOK
  <2>7. ASSUME NEW p \in Phone, NEW f \in Friends[p], NEW kind \in {"video", "audio"},
               PlaceCall(p, f, kind)
        PROVE  TypeOK'
    <3>. DEFINE note == [key |-> nextKey, room |-> RoomName(p, f), sender |-> p, kind |-> kind]
                screen == [kind |-> kind, room |-> RoomName(p, f), friend |-> f,
                           name |-> IF kind = "audio" THEN f ELSE 0, clock |-> {}]
    <3>1. p \in Nat /\ f \in Nat /\ RoomName(p, f) \in Nat
      BY AccountsArePositive DEF RoomName
    <3>2. note \in Note /\ screen \in Screen /\ nextKey + 1 \in Nat
      BY <3>1 DEF Note, Screen, TypeOK
    <3>. QED BY <2>7, <3>2 DEF PlaceCall, TypeOK
  <2>8. ASSUME NEW p \in Phone, Back(p) PROVE TypeOK'
    BY <2>8, NoCallIsScreen DEF Back, treeVars, TypeOK
  <2>9. ASSUME NEW p \in Phone, HangUp(p) PROVE TypeOK'
    <3>1. joins' \subseteq Join /\ notes' \subseteq Note /\ nextKey' \in Nat /\ placed' \subseteq Note
      BY <2>9 DEF HangUp, TypeOK
    <3>2. CASE Watch(p, "menu") /\ pushed' = [pushed EXCEPT ![p] = NoCall]
               /\ presented' = [presented EXCEPT ![p] = NoCall] /\ UNCHANGED <<app, rows, ringing>>
      BY <3>1, <3>2, WatchTypes, NoCallIsScreen DEF TypeOK
    <3>3. CASE Stopped(p, "trapped")
      BY <3>1, <3>3, StoppedTypes
    <3>. QED BY <2>9, <3>2, <3>3 DEF HangUp
  <2>10. ASSUME NEW p \in Phone, NEW i \in DOMAIN watchers[p], NEW f \in Friends[p],
                NEW note \in notes, Hear(p, i, f, note)
         PROVE  TypeOK'
    <3>1. watchers[p][i] \in Watcher /\ i \in Nat /\ note \in Note /\ f \in Nat
      BY AccountsArePositive, SequenceFacts DEF TypeOK
    <3>2. Delivered(p, watchers[p][i], note, f) \in Watcher
      BY <3>1, DeliveredTypes
    <3>3. /\ watchers' \in [Phone -> Seq(Watcher)]
          /\ \A q \in Phone : DOMAIN watchers'[q] = DOMAIN watchers[q]
      BY <2>10, <3>2, ChangeTypes DEF Hear
    <3>. QED BY <2>10, <3>1, <3>3 DEF Hear, treeVars, TypeOK
  <2>11. ASSUME NEW p \in Phone, NEW join \in joins, HearJoin(p, join) PROVE TypeOK'
    <3>1. join \in Join /\ pushed[p] \in Screen /\ presented[p] \in Screen
      BY DEF TypeOK
    <3>2. \A screen \in Screen :
            [screen EXCEPT !.clock = screen.clock \cup {join}] \in Screen
      BY <3>1 DEF Screen
    <3>3. pushed' \in [Phone -> Screen] /\ presented' \in [Phone -> Screen]
      BY <2>11, <3>1, <3>2 DEF HearJoin, TypeOK
    <3>. QED BY <2>11, <3>3 DEF HearJoin, treeVars, TypeOK
  <2>12. ASSUME NEW p \in Phone, NEW call \in ringing[p], Answer(p, call) PROVE TypeOK'
    <3>. DEFINE i == call.watcher
                w == watchers[p][i]
    <3>1. i \in DOMAIN watchers[p] /\ w \in Watcher /\ Forgotten(w) \in Watcher
      BY SequenceFacts, ForgottenTypes DEF TypeOK
    <3>2. \A screen \in Screen : Show(p, i, screen) => presented' \in [Phone -> Screen]
      BY DEF Show, TypeOK
    <3>3. ForgetCalls(p, i) => /\ watchers' \in [Phone -> Seq(Watcher)]
                               /\ \A q \in Phone : DOMAIN watchers'[q] = DOMAIN watchers[q]
      BY <3>1, ChangeTypes DEF ForgetCalls
    <3>4. CASE AnswerVideo(p, i)
      <4>1. [kind |-> "video", room |-> w.room, friend |-> w.friend, name |-> 0, clock |-> {}]
              \in Screen
        BY <3>1 DEF Screen, Watcher
      <4>. QED BY <2>12, <3>2, <3>3, <3>4, <4>1 DEF Answer, AnswerVideo, ClearNotes, TypeOK
    <3>5. CASE AnswerAudio(p, i)
      <4>1. [kind |-> "audio", room |-> w.room, friend |-> w.friend, name |-> w.name,
             clock |-> {}] \in Screen
        BY <3>1 DEF Screen, Watcher
      <4>2. [key |-> nextKey, room |-> w.room, sender |-> p] \in Join /\ nextKey + 1 \in Nat
        BY <3>1 DEF Join, Watcher, TypeOK
      <4>. QED BY <2>12, <3>2, <3>3, <3>5, <4>1, <4>2 DEF Answer, AnswerAudio, ClearNotes, TypeOK
    <3>6. CASE UNCHANGED <<watchers, presented, notes, joins, nextKey>>
      BY <2>12, <3>6 DEF Answer, TypeOK
    <3>. QED BY <2>12, <3>4, <3>5, <3>6 DEF Answer
  <2>13. ASSUME NEW p \in Phone, NEW call \in ringing[p], Decline(p, call) PROVE TypeOK'
    BY <2>13 DEF Decline, treeVars, TypeOK
  <2>14. ASSUME NEW p \in Phone, OpenSheet(p) \/ Dismiss(p) PROVE TypeOK'
    BY <2>14, NoCallIsScreen DEF OpenSheet, Dismiss, treeVars, TypeOK
  <2>. QED BY <2>1, <2>2, <2>3, <2>4, <2>5, <2>6, <2>7, <2>8, <2>9, <2>10, <2>11, <2>12, <2>13, <2>14
           DEF Next, Process, Chats, Observers, CallKit
<1>. QED BY <1>1, <1>2, PTL DEF Spec
-----------------------------------------------------------------------------
(* What the fields of a watcher have to do with the calls it was told of.  *)
Others(p, w) == {n \in w.told : Foreign(p, n)}

WatcherInv(p, w) ==
  /\ w.watched \subseteq Account
  /\ Armed(w) => w.friend \in w.watched /\ w.room = RoomName(p, w.friend)
  /\ ~Armed(w) => w.room = 0
  /\ w.audio /\ ~w.video => w.name = w.friend
  /\ Armed(w) => \E n \in Others(p, w) : n.room = w.room
  /\ w.video => \E n \in Others(p, w) : n.kind = "video"
  /\ w.audio /\ ~w.video => \E n \in Others(p, w) : n.kind = "audio" /\ n.room = w.room
  /\ w.pending = << >> => ~Armed(w)
  /\ Len(w.pending) = 1 => /\ w.room = w.pending[1].room
                           /\ w.video <=> w.pending[1].kind = "video"
                           /\ w.audio <=> w.pending[1].kind = "audio"

WatchersInv ==
  \A p \in Phone : \A i \in DOMAIN watchers[p] :
    WatcherInv(p, watchers[p][i]) /\ watchers[p][i].told \subseteq placed

LEMMA NewWatcherInv ==
  ASSUME TypeOK, NEW p \in Phone, NEW type \in {"menu", "delegate"}
  PROVE  WatcherInv(p, NewWatcher(p, type)) /\ NewWatcher(p, type).told = {}
BY DEF TypeOK, WatcherInv, NewWatcher, Armed

LEMMA ForgottenInv ==
  ASSUME NEW p \in Phone, NEW w \in Watcher, WatcherInv(p, w)
  PROVE  WatcherInv(p, Forgotten(w)) /\ Forgotten(w).told = w.told
BY DEF WatcherInv, Forgotten, Armed, Watcher

LEMMA DeliveredInv ==
  ASSUME NEW p \in Phone, NEW w \in Watcher, NEW note \in Note, NEW f \in w.watched,
         note.room = RoomName(p, f), WatcherInv(p, w)
  PROVE  /\ WatcherInv(p, Delivered(p, w, note, f))
         /\ Delivered(p, w, note, f).told = w.told \cup {note}
<1>. DEFINE d == Delivered(p, w, note, f)
            taken == w.type = "menu" /\ Foreign(p, note)
<1>1. d.told = w.told \cup {note} /\ d.watched = w.watched
  BY DEF Delivered, TakeUp, Watcher
<1>2. CASE ~taken
  <2>1. /\ d.room = w.room /\ d.friend = w.friend /\ d.name = w.name /\ d.video = w.video
        /\ d.audio = w.audio /\ d.pending = w.pending
    BY <1>2 DEF Delivered, Watcher
  <2>2. Others(p, w) \subseteq Others(p, d)
    BY <1>1 DEF Others
  <2>. HIDE DEF d, taken
  <2>3. WatcherInv(p, d)
    BY <1>1, <2>1, <2>2 DEF WatcherInv, Armed
  <2>. QED BY <1>1, <2>3 DEF d
<1>3. CASE taken
  <2>1. /\ d.room = note.room /\ d.friend = f /\ d.pending = Append(w.pending, note)
        /\ d.video = (w.video \/ note.kind = "video")
        /\ d.audio = (w.audio \/ note.kind = "audio")
        /\ d.name = IF note.kind = "audio" THEN f ELSE w.name
    BY <1>3 DEF Delivered, TakeUp, Watcher, Note
  <2>2. note \in Others(p, d) /\ Others(p, w) \subseteq Others(p, d)
    BY <1>1, <1>3 DEF Others
  <2>3. /\ d.pending # << >>
        /\ Len(d.pending) = 1 => w.pending = << >> /\ d.pending[1] = note
    BY <2>1 DEF Watcher
  <2>4. note.kind = "video" \/ note.kind = "audio"
    BY DEF Note
  <2>5. w.video \in BOOLEAN /\ w.audio \in BOOLEAN
    BY DEF Watcher
  <2>. HIDE DEF d, taken
  <2>6. WatcherInv(p, d)
    <3>1. Armed(d) /\ d.friend \in d.watched /\ d.room = RoomName(p, d.friend)
      BY <1>1, <2>1, <2>4 DEF Armed
    <3>2. /\ d.audio /\ ~d.video => d.name = d.friend
          /\ \E n \in Others(p, d) : n.room = d.room
          /\ d.audio /\ ~d.video => \E n \in Others(p, d) : n.kind = "audio" /\ n.room = d.room
      BY <2>1, <2>2, <2>4
    <3>3. d.video => \E n \in Others(p, d) : n.kind = "video"
      BY <2>1, <2>2 DEF WatcherInv
    <3>4. Len(d.pending) = 1 => /\ d.room = d.pending[1].room
                                /\ d.video <=> d.pending[1].kind = "video"
                                /\ d.audio <=> d.pending[1].kind = "audio"
      <4>. SUFFICES ASSUME Len(d.pending) = 1
                    PROVE  /\ d.room = d.pending[1].room
                           /\ d.video <=> d.pending[1].kind = "video"
                           /\ d.audio <=> d.pending[1].kind = "audio"
        OBVIOUS
      <4>1. ~w.video /\ ~w.audio /\ d.pending[1] = note
        BY <2>3 DEF WatcherInv, Armed
      <4>. QED BY <2>1, <4>1
    <3>. QED BY <1>1, <2>3, <3>1, <3>2, <3>3, <3>4 DEF WatcherInv
  <2>. QED BY <1>1, <2>6 DEF d
<1>. QED BY <1>2, <1>3
-----------------------------------------------------------------------------
(* Everything a step can do to the watchers of a phone. *)
Emptied(p)  == watchers'[p] = << >>
Grown(p)    == \E type \in {"menu", "delegate"} :
                 watchers'[p] = Append(watchers[p], NewWatcher(p, type))
ToldMore(p) == \E i \in DOMAIN watchers[p] : \E f \in watchers[p][i].watched, note \in notes :
                 /\ note.room = RoomName(p, f)
                 /\ watchers'[p] = [watchers[p] EXCEPT ![i] = Delivered(p, watchers[p][i], note, f)]
Answered(p) == \E i \in DOMAIN watchers[p] :
                 watchers'[p] = [watchers[p] EXCEPT ![i] = Forgotten(watchers[p][i])]

WatcherSteps == \A p \in Phone : \/ watchers'[p] = watchers[p] \/ Emptied(p) \/ Grown(p)
                                 \/ ToldMore(p) \/ Answered(p)

LEMMA StepsOfWatchers ==
  ASSUME TypeOK, [Next]_vars
  PROVE  WatcherSteps
<1>. USE DEF WatcherSteps
<1>0. CASE UNCHANGED vars
  BY <1>0 DEF vars, phoneVars
<1>1. ASSUME NEW p \in Phone, NEW how, Stopped(p, how) PROVE WatcherSteps
  BY <1>1 DEF Stopped, Emptied, TypeOK
<1>2. ASSUME NEW p \in Phone, NEW type \in {"menu", "delegate"}, Watch(p, type)
      PROVE  WatcherSteps
  <2>1. /\ watchers'[p] = Append(watchers[p], NewWatcher(p, type))
        /\ \A q \in Phone \ {p} : watchers'[q] = watchers[q]
    BY <1>2 DEF Watch, TypeOK
  <2>. QED BY <2>1 DEF Grown
<1>3. ASSUME NEW p \in Phone, Process(p) PROVE WatcherSteps
  BY <1>1, <1>2, <1>3 DEF Process, Kill, Launch, EnterBackground
<1>4. ASSUME NEW p \in Phone, Chats(p) PROVE WatcherSteps
  BY <1>1, <1>2, <1>4 DEF Chats, OpenSheet, Dismiss, AddConversation, OpenTooLarge, PlaceCall, Back, HangUp
<1>5. ASSUME NEW p \in Phone, Observers(p) PROVE WatcherSteps
  <2>1. ASSUME NEW i \in DOMAIN watchers[p], NEW f \in Friends[p], NEW note \in notes,
               Hear(p, i, f, note)
        PROVE  WatcherSteps
    <3>1. /\ f \in watchers[p][i].watched /\ note.room = RoomName(p, f)
          /\ watchers'[p] = [watchers[p] EXCEPT ![i] = Delivered(p, watchers[p][i], note, f)]
          /\ \A q \in Phone \ {p} : watchers'[q] = watchers[q]
      BY <2>1 DEF Hear, TypeOK
    <3>. QED BY <3>1 DEF ToldMore
  <2>. QED BY <1>5, <2>1 DEF Observers, HearJoin
<1>6. ASSUME NEW p \in Phone, CallKit(p) PROVE WatcherSteps
  <2>1. ASSUME NEW call \in ringing[p], ForgetCalls(p, call.watcher) PROVE WatcherSteps
    <3>1. /\ call.watcher \in DOMAIN watchers[p]
          /\ watchers'[p] = [watchers[p] EXCEPT ![call.watcher] = Forgotten(watchers[p][call.watcher])]
          /\ \A q \in Phone \ {p} : watchers'[q] = watchers[q]
      BY <2>1 DEF ForgetCalls, TypeOK
    <3>. QED BY <3>1 DEF Answered
  <2>. QED BY <1>6, <2>1 DEF CallKit, Answer, AnswerVideo, AnswerAudio, Decline
<1>. QED BY <1>0, <1>3, <1>4, <1>5, <1>6 DEF Next

\* Nodes are added by calls; the history forgets none.
LEMMA StepsOfTree ==
  ASSUME TypeOK, [Next]_vars, notes \subseteq placed
  PROVE  placed \subseteq placed' /\ notes' \subseteq placed'
<1>1. CASE UNCHANGED treeVars
  BY <1>1 DEF treeVars
<1>2. ASSUME NEW p \in Phone, Chats(p)
      PROVE  UNCHANGED treeVars \/ (placed \subseteq placed' /\ notes' \subseteq placed')
  <2>1. ASSUME NEW f \in Friends[p], NEW kind \in {"video", "audio"}, PlaceCall(p, f, kind)
        PROVE  placed \subseteq placed' /\ notes' \subseteq placed'
    BY <2>1 DEF PlaceCall
  <2>2. HangUp(p) => placed' = placed /\ notes' = notes
    BY DEF HangUp
  <2>. QED BY <1>2, <2>1, <2>2 DEF Chats, OpenSheet, Dismiss, AddConversation, OpenTooLarge, Back
<1>3. ASSUME NEW p \in Phone, CallKit(p)
      PROVE  UNCHANGED treeVars \/ (placed' = placed /\ notes' \subseteq notes)
  BY <1>3 DEF CallKit, Answer, AnswerVideo, AnswerAudio, ClearNotes, Decline, treeVars
<1>4. ASSUME NEW p \in Phone, Process(p) \/ Observers(p) PROVE UNCHANGED treeVars
  BY <1>4 DEF Process, Kill, Launch, EnterBackground, Observers, Hear, HearJoin
<1>5. UNCHANGED vars => UNCHANGED treeVars
  BY DEF vars
<1>. QED BY <1>1, <1>2, <1>3, <1>4, <1>5 DEF Next

LEMMA WatchersKept ==
  ASSUME TypeOK, TypeOK', WatchersInv, notes \subseteq placed, [Next]_vars
  PROVE  WatchersInv'
<1>1. placed \subseteq placed'
  BY StepsOfTree
<1>2. SUFFICES ASSUME NEW p \in Phone, NEW j \in DOMAIN watchers'[p]
               PROVE  WatcherInv(p, watchers'[p][j]) /\ watchers'[p][j].told \subseteq placed'
  BY DEF WatchersInv
<1>3. watchers[p] \in Seq(Watcher) /\ notes \subseteq Note
  BY DEF TypeOK
<1>4. \A i \in DOMAIN watchers[p] : /\ watchers[p][i] \in Watcher
                                    /\ WatcherInv(p, watchers[p][i])
                                    /\ watchers[p][i].told \subseteq placed
  BY <1>3, SequenceFacts DEF WatchersInv
<1>5. CASE watchers'[p] = watchers[p]
  BY <1>1, <1>4, <1>5
<1>6. CASE Emptied(p)
  BY <1>6 DEF Emptied
<1>7. CASE Grown(p)
  <2>1. PICK type \in {"menu", "delegate"} :
          watchers'[p] = Append(watchers[p], NewWatcher(p, type))
    BY <1>7 DEF Grown
  <2>2. WatcherInv(p, NewWatcher(p, type)) /\ NewWatcher(p, type).told = {}
    BY NewWatcherInv
  <2>3. j \in DOMAIN watchers[p] \/ watchers'[p][j] = NewWatcher(p, type)
    BY <1>3, <2>1, NewWatcherTypes, SequenceFacts
  <2>4. j \in DOMAIN watchers[p] => watchers'[p][j] = watchers[p][j]
    BY <1>3, <2>1, NewWatcherTypes, SequenceFacts
  <2>. QED BY <1>1, <1>4, <2>2, <2>3, <2>4
<1>8. CASE ToldMore(p)
  <2>0. PICK i \in DOMAIN watchers[p] : \E f \in watchers[p][i].watched, note \in notes :
          /\ note.room = RoomName(p, f)
          /\ watchers'[p] = [watchers[p] EXCEPT ![i] = Delivered(p, watchers[p][i], note, f)]
    BY <1>8 DEF ToldMore
  <2>1. PICK f \in watchers[p][i].watched, note \in notes :
          /\ note.room = RoomName(p, f)
          /\ watchers'[p] = [watchers[p] EXCEPT ![i] = Delivered(p, watchers[p][i], note, f)]
    BY <2>0
  <2>2. /\ WatcherInv(p, Delivered(p, watchers[p][i], note, f))
        /\ Delivered(p, watchers[p][i], note, f).told = watchers[p][i].told \cup {note}
    BY <1>3, <1>4, <2>1, DeliveredInv
  <2>3. j \in DOMAIN watchers[p]
        /\ watchers'[p][j] = IF j = i THEN Delivered(p, watchers[p][i], note, f) ELSE watchers[p][j]
    BY <1>3, <2>1
  <2>. QED BY <1>1, <1>4, <2>2, <2>3
<1>9. CASE Answered(p)
  <2>1. PICK i \in DOMAIN watchers[p] :
          watchers'[p] = [watchers[p] EXCEPT ![i] = Forgotten(watchers[p][i])]
    BY <1>9 DEF Answered
  <2>2. /\ WatcherInv(p, Forgotten(watchers[p][i]))
        /\ Forgotten(watchers[p][i]).told = watchers[p][i].told
    BY <1>4, ForgottenInv
  <2>3. j \in DOMAIN watchers[p]
        /\ watchers'[p][j] = IF j = i THEN Forgotten(watchers[p][i]) ELSE watchers[p][j]
    BY <1>3, <2>1
  <2>. QED BY <1>1, <1>4, <2>2, <2>3
<1>. QED BY <1>5, <1>6, <1>7, <1>8, <1>9, StepsOfWatchers DEF WatcherSteps
-----------------------------------------------------------------------------
(* Screens and joins come from calls that were placed.  *)
FromOthers(calls, p, screen) ==
  LET others == {n \in calls : n.sender # p}
  IN  /\ \E n \in others : n.room = screen.room
      /\ \E n \in others : n.kind = screen.kind
      /\ screen.kind = "audio" => \E n \in others : n.kind = "audio" /\ n.room = screen.room

AnswersACall(calls, j) == \E n \in calls : n.kind = "audio" /\ n.room = j.room /\ n.sender # j.sender

CallsInv ==
  /\ WatchersInv /\ notes \subseteq placed
  /\ \A p \in Phone : IsCall(presented[p]) => FromOthers(placed, p, presented[p])
  /\ \A p \in Phone : \A j \in pushed[p].clock \cup presented[p].clock : AnswersACall(placed, j)
  /\ \A j \in joins : AnswersACall(placed, j)

\* What answering opens and writes.
LEMMA AnswerOpens ==
  ASSUME TypeOK, CallsInv, NEW p \in Phone, NEW call \in ringing[p], Answer(p, call)
  PROVE  /\ \/ presented' = presented
            \/ \E screen \in Screen : /\ presented' = [presented EXCEPT ![p] = screen]
                                      /\ screen.clock = {} /\ FromOthers(placed, p, screen)
         /\ \A j \in joins' \ joins : AnswersACall(placed, j)
<1>. DEFINE i == call.watcher
            w == watchers[p][i]
<1>1. i \in DOMAIN watchers[p] /\ w \in Watcher
  BY SequenceFacts DEF TypeOK
<1>2. WatcherInv(p, w) /\ \A n \in Others(p, w) : n \in placed /\ n.sender # p
  BY <1>1 DEF CallsInv, WatchersInv, Others, Foreign
<1>. HIDE DEF i, w
<1>3. CASE AnswerVideo(p, i)
  <2>. DEFINE screen == [kind |-> "video", room |-> w.room, friend |-> w.friend, name |-> 0,
                         clock |-> {}]
  <2>1. w.video /\ Show(p, i, screen) /\ joins' = joins
    BY <1>3 DEF AnswerVideo, w
  <2>2. screen \in Screen
    BY <1>1 DEF Screen, Watcher
  <2>3. FromOthers(placed, p, screen)
    BY <1>2, <2>1 DEF FromOthers, WatcherInv, Armed
  <2>. QED BY <2>1, <2>2, <2>3 DEF Show
<1>4. CASE AnswerAudio(p, i)
  <2>. DEFINE screen == [kind |-> "audio", room |-> w.room, friend |-> w.friend,
                         name |-> w.name, clock |-> {}]
              join == [key |-> nextKey, room |-> w.room, sender |-> p]
  <2>1. ~w.video /\ w.audio /\ Show(p, i, screen) /\ joins' = joins \cup {join}
    BY <1>4 DEF AnswerAudio, w
  <2>2. screen \in Screen
    BY <1>1 DEF Screen, Watcher
  <2>3. \E n \in Others(p, w) : n.kind = "audio" /\ n.room = w.room
    BY <1>2, <2>1 DEF WatcherInv
  <2>4. FromOthers(placed, p, screen) /\ AnswersACall(placed, join)
    BY <1>2, <2>3 DEF FromOthers, AnswersACall
  <2>. QED BY <2>1, <2>2, <2>4 DEF Show
<1>5. CASE UNCHANGED <<presented, joins>>
  BY <1>5
<1>. QED BY <1>3, <1>4, <1>5 DEF Answer, i

LEMMA CallsKept ==
  ASSUME TypeOK, TypeOK', CallsInv, [Next]_vars
  PROVE  CallsInv'
<1>1. WatchersInv' /\ placed \subseteq placed' /\ notes' \subseteq placed'
  BY WatchersKept, StepsOfTree DEF CallsInv
<1>2. /\ \A p, screen : FromOthers(placed, p, screen) => FromOthers(placed', p, screen)
      /\ \A j : AnswersACall(placed, j) => AnswersACall(placed', j)
  BY <1>1 DEF FromOthers, AnswersACall
<1>3. \A p \in Phone : pushed[p] \in Screen /\ presented[p] \in Screen
  BY DEF TypeOK
<1>4. \A p \in Phone : IsCall(presented[p]) => FromOthers(placed', p, presented[p])
  BY <1>2 DEF CallsInv
<1>. DEFINE Screens == \A p \in Phone : IsCall(presented'[p]) => FromOthers(placed', p, presented'[p])
            Clocks  == \A p \in Phone : \A j \in pushed'[p].clock \cup presented'[p].clock :
                         AnswersACall(placed', j)
            Joins   == \A j \in joins' : AnswersACall(placed', j)
<1>5. ASSUME UNCHANGED <<pushed, presented>>, joins' \subseteq joins
      PROVE  Screens /\ Clocks /\ Joins
  BY <1>2, <1>4, <1>5 DEF CallsInv
<1>6. ASSUME NEW p \in Phone, joins' \subseteq joins,
             \A q \in Phone \ {p} : pushed'[q] = pushed[q] /\ presented'[q] = presented[q],
             presented'[p] \in {presented[p], NoCall, Sheet},
             pushed'[p] = pushed[p] \/ pushed'[p].clock = {}
      PROVE  Screens /\ Clocks /\ Joins
  BY <1>2, <1>4, <1>6 DEF CallsInv, NoCall, Sheet, IsCall
<1>. HIDE DEF Screens, Clocks, Joins
<1>7. ASSUME NEW p \in Phone, NEW how, Stopped(p, how), joins' \subseteq joins
      PROVE  Screens /\ Clocks /\ Joins
  BY <1>6, <1>7 DEF Stopped, NoCall, TypeOK
<1>8. ASSUME NEW p \in Phone, Process(p) PROVE Screens /\ Clocks /\ Joins
  BY <1>5, <1>7, <1>8 DEF Process, Kill, Launch, EnterBackground, treeVars
<1>9. ASSUME NEW p \in Phone, Chats(p) PROVE Screens /\ Clocks /\ Joins
  <2>1. ASSUME NEW f \in Friends[p], NEW kind \in {"video", "audio"}, PlaceCall(p, f, kind)
        PROVE  Screens /\ Clocks /\ Joins
    BY <1>6, <2>1 DEF PlaceCall, TypeOK
  <2>2. CASE Back(p)
    BY <1>6, <2>2 DEF Back, NoCall, treeVars, TypeOK
  <2>3. CASE HangUp(p)
    <3>1. joins' \subseteq joins
      BY <2>3 DEF HangUp
    <3>2. CASE pushed' = [pushed EXCEPT ![p] = NoCall] /\ presented' = [presented EXCEPT ![p] = NoCall]
      <4>1. pushed'[p].clock = {} /\ presented'[p] = NoCall
        BY <3>2 DEF NoCall, TypeOK
      <4>. QED BY <1>6, <3>1, <3>2, <4>1 DEF TypeOK
    <3>. QED BY <1>7, <2>3, <3>1, <3>2 DEF HangUp
  <2>4. ASSUME NEW f \in Friends[p], AddConversation(p, f) PROVE Screens /\ Clocks /\ Joins
    BY <1>6, <2>4 DEF AddConversation, treeVars, TypeOK
  <2>5. CASE OpenSheet(p) \/ Dismiss(p)
    BY <1>6, <2>5 DEF OpenSheet, Dismiss, treeVars, TypeOK
  <2>. QED BY <1>5, <1>7, <1>9, <2>1, <2>2, <2>3, <2>4, <2>5
           DEF Chats, AddConversation, OpenTooLarge, treeVars
<1>10. ASSUME NEW p \in Phone, Observers(p) PROVE Screens /\ Clocks /\ Joins
  <2>1. ASSUME NEW join \in joins, HearJoin(p, join) PROVE Screens /\ Clocks /\ Joins
    <3>1. AnswersACall(placed', join) /\ joins' = joins
      BY <1>2, <2>1 DEF CallsInv, HearJoin, treeVars
    <3>2. \A q \in Phone :
            /\ presented'[q] = presented[q]
               \/ /\ presented[q].kind = "audio" /\ presented'[q].kind = presented[q].kind
                  /\ presented'[q].room = presented[q].room
            /\ pushed'[q].clock \subseteq pushed[q].clock \cup {join}
            /\ presented'[q].clock \subseteq presented[q].clock \cup {join}
      <4>1. pushed[p] \in Screen /\ presented[p] \in Screen
        BY <1>3
      <4>2. CASE /\ pushed' = [pushed EXCEPT ![p].clock = @ \cup {join}]
                 /\ UNCHANGED presented
        BY <4>1, <4>2 DEF TypeOK, Screen
      <4>3. CASE /\ presented[p].kind = "audio"
                 /\ presented' = [presented EXCEPT ![p].clock = @ \cup {join}]
                 /\ UNCHANGED pushed
        BY <4>1, <4>3 DEF TypeOK, Screen
      <4>. QED BY <2>1, <4>2, <4>3 DEF HearJoin
    <3>3. Screens
      <4>1. \A q \in Phone : presented[q].kind = "audio" => presented[q] # NoCall
        BY DEF NoCall
      <4>. QED BY <1>4, <3>2, <4>1 DEF FromOthers, IsCall, Screens
    <3>4. Clocks
      BY <1>2, <3>1, <3>2 DEF CallsInv, Clocks
    <3>. QED BY <1>2, <3>1, <3>3, <3>4 DEF CallsInv, Joins
  <2>. QED BY <1>5, <1>10, <2>1 DEF Observers, Hear, treeVars
<1>11. ASSUME NEW p \in Phone, CallKit(p) PROVE Screens /\ Clocks /\ Joins
  <2>1. ASSUME NEW call \in ringing[p], Answer(p, call) PROVE Screens /\ Clocks /\ Joins
    <3>1. pushed' = pushed
      BY <2>1 DEF Answer
    <3>2. Joins
      BY <1>2, <2>1, AnswerOpens DEF CallsInv, Joins
    <3>3. CASE presented' = presented
      BY <1>2, <1>4, <3>1, <3>2, <3>3 DEF CallsInv, Screens, Clocks
    <3>4. ASSUME NEW screen \in Screen, presented' = [presented EXCEPT ![p] = screen],
                 screen.clock = {}, FromOthers(placed, p, screen)
          PROVE  Screens /\ Clocks
      <4>1. /\ presented'[p] = screen /\ FromOthers(placed', p, screen)
            /\ \A q \in Phone \ {p} : presented'[q] = presented[q]
        BY <1>2, <3>4 DEF TypeOK
      <4>. QED BY <1>2, <1>4, <3>1, <3>4, <4>1 DEF CallsInv, Screens, Clocks
    <3>. QED BY <2>1, <3>2, <3>3, <3>4, AnswerOpens
  <2>. QED BY <1>5, <1>11, <2>1 DEF CallKit, Decline, treeVars
<1>12. Screens /\ Clocks /\ Joins
  BY <1>5, <1>8, <1>9, <1>10, <1>11 DEF Next, vars, phoneVars, treeVars
<1>. QED BY <1>1, <1>12 DEF CallsInv, Screens, Clocks, Joins
-----------------------------------------------------------------------------
LEMMA CallsInvariant == Spec => [](TypeOK /\ CallsInv)
<1>1. Init => CallsInv
  BY DEF Init, CallsInv, WatchersInv, NoCall, IsCall
<1>2. TypeOK /\ TypeOK' /\ CallsInv /\ [Next]_vars => CallsInv'
  BY CallsKept
<1>. QED BY <1>1, <1>2, TypeCorrect, PTL DEF Spec

(* A Menu's fields never mix two friends, and the language it looked up is *)
(* that of the account its call screen will compute by division.           *)
THEOREM FieldsAgree == Spec => []RememberedCallsAgree
<1>1. TypeOK /\ CallsInv => RememberedCallsAgree
  <2>. SUFFICES ASSUME TypeOK, CallsInv, NEW p \in Phone, NEW i \in DOMAIN watchers[p]
                PROVE  LET w == watchers[p][i]
                       IN  /\ Armed(w) => /\ w.friend \in w.watched
                                          /\ w.room = RoomName(p, w.friend)
                                          /\ w.friend = FriendOf(w.room, p)
                                          /\ ~w.video => w.name = w.friend
                           /\ ~Armed(w) => w.room = 0
    BY DEF RememberedCallsAgree
  <2>1. WatcherInv(p, watchers[p][i]) /\ p \in Account
    BY DEF CallsInv, WatchersInv
  <2>. QED BY <2>1, FriendRecovered DEF WatcherInv, Armed
<1>. QED BY <1>1, CallsInvariant, PTL

(* Answering opens a room where somebody else placed a call. *)
THEOREM AnswersArePlaced == Spec => []AnsweredCallsWerePlaced
<1>1. CallsInv => AnsweredCallsWerePlaced
  BY DEF CallsInv, AnsweredCallsWerePlaced, FromOthers
<1>. QED BY <1>1, CallsInvariant, PTL

(* The clock of an audio call runs only after an answer. *)
THEOREM ClocksAreAnswers == Spec => []ClocksNeedAnAnswer
<1>1. CallsInv => ClocksNeedAnAnswer
  BY DEF CallsInv, ClocksNeedAnAnswer, AnswersACall
<1>. QED BY <1>1, CallsInvariant, PTL

-----------------------------------------------------------------------------
\* Only answering makes a Menu forget what it took up.
LEMMA OnlyAnswersForget ==
  ASSUME TypeOK, [Next]_vars, NEW p \in Phone, NEW i \in DOMAIN watchers[p],
         watchers[p][i].pending # << >>,
         i \in DOMAIN watchers'[p], watchers'[p][i].pending = << >>
  PROVE  AnswerVideo(p, i) \/ AnswerAudio(p, i)
<1>. DEFINE Answers == AnswerVideo(p, i) \/ AnswerAudio(p, i)
            Kept == watchers'[p][i].pending # << >>
<1>1. watchers[p] \in Seq(Watcher) /\ watchers[p][i] \in Watcher
  BY SequenceFacts DEF TypeOK
<1>2. watchers'[p] = watchers[p] => Kept
  OBVIOUS
<1>3. ASSUME NEW q \in Phone, NEW how, Stopped(q, how) PROVE Kept
  BY <1>3 DEF Stopped, TypeOK
<1>4. ASSUME NEW q \in Phone, NEW type \in {"menu", "delegate"}, Watch(q, type) PROVE Kept
  <2>1. watchers'[q] = Append(watchers[q], NewWatcher(q, type)) /\ (q # p => watchers'[p] = watchers[p])
    BY <1>4 DEF Watch, TypeOK
  <2>. QED BY <1>1, <1>2, <2>1, SequenceFacts, NewWatcherTypes
<1>5. ASSUME NEW q \in Phone, Process(q) \/ Chats(q) PROVE Kept
  BY <1>2, <1>3, <1>4, <1>5 DEF Process, Kill, Launch, EnterBackground, Chats, OpenSheet,
           Dismiss, AddConversation, OpenTooLarge, PlaceCall, Back, HangUp
<1>6. ASSUME NEW q \in Phone, Observers(q) PROVE Kept
  <2>1. ASSUME NEW j \in DOMAIN watchers[q], NEW f \in Friends[q], NEW note \in notes,
               Hear(q, j, f, note)
        PROVE  Kept
    <3>1. watchers' = [watchers EXCEPT ![q][j] = Delivered(q, watchers[q][j], note, f)]
      BY <2>1 DEF Hear
    <3>2. CASE q = p /\ j = i
      <4>1. watchers'[p][i] = Delivered(p, watchers[p][i], note, f)
        BY <1>1, <3>1, <3>2 DEF TypeOK
      <4>2. \/ Delivered(p, watchers[p][i], note, f).pending = watchers[p][i].pending
            \/ Delivered(p, watchers[p][i], note, f).pending = Append(watchers[p][i].pending, note)
        BY <1>1 DEF Delivered, TakeUp, Watcher
      <4>3. note \in Note /\ watchers[p][i].pending \in Seq(Note)
        BY <1>1 DEF TypeOK, Watcher
      <4>. QED BY <4>1, <4>2, <4>3, SequenceFacts
    <3>3. CASE ~(q = p /\ j = i)
      <4>1. watchers'[p][i] = watchers[p][i]
        BY <1>1, <3>1, <3>3 DEF TypeOK
      <4>. QED BY <4>1
    <3>. QED BY <3>2, <3>3
  <2>. QED BY <1>2, <1>6, <2>1 DEF Observers, HearJoin
<1>7. ASSUME NEW q \in Phone, CallKit(q) PROVE Kept \/ Answers
  <2>1. ASSUME NEW j \in DOMAIN watchers[q], ForgetCalls(q, j), ~(q = p /\ j = i) PROVE Kept
    <3>1. watchers'[p][i] = watchers[p][i]
      BY <1>1, <2>1 DEF ForgetCalls, TypeOK
    <3>. QED BY <3>1
  <2>2. ASSUME NEW call \in ringing[q], Answer(q, call) PROVE Kept \/ Answers
    <3>1. call.watcher \in DOMAIN watchers[q]
      BY DEF TypeOK
    <3>2. CASE AnswerVideo(q, call.watcher)
      BY <2>1, <3>1, <3>2 DEF AnswerVideo
    <3>3. CASE AnswerAudio(q, call.watcher)
      BY <2>1, <3>1, <3>3 DEF AnswerAudio
    <3>4. CASE UNCHANGED watchers
      BY <1>2, <3>4
    <3>. QED BY <2>2, <3>2, <3>3, <3>4 DEF Answer
  <2>. QED BY <1>2, <1>7, <2>2 DEF CallKit, Decline
<1>8. UNCHANGED vars => Kept
  BY <1>2 DEF vars, phoneVars
<1>. QED BY <1>5, <1>6, <1>7, <1>8 DEF Next

(* A Menu that took up one call since it last answered opens that call     *)
(* when it is answered, unless something is presented already: an alert, a *)
(* sheet, a picker or another call (MenuViewController.swift:117-135).     *)
THEOREM LoneCalls == Spec => LoneCallIsAnswered
<1>1. TypeOK /\ CallsInv /\ [Next]_vars =>
        \A p \in Phone : \A i \in DOMAIN watchers[p] :
          LET w == watchers[p][i]
          IN  /\ OnScreen(p, i) /\ presented[p] = NoCall /\ Len(w.pending) = 1
              /\ i \in DOMAIN watchers'[p] /\ watchers'[p][i].pending = << >>
              => /\ presented'[p].kind = w.pending[1].kind /\ presented'[p].room = w.pending[1].room
                 /\ RoomName(p, presented'[p].friend) = w.pending[1].room
  <2>. SUFFICES ASSUME TypeOK, CallsInv, [Next]_vars, NEW p \in Phone,
                       NEW i \in DOMAIN watchers[p], OnScreen(p, i), presented[p] = NoCall,
                       Len(watchers[p][i].pending) = 1, i \in DOMAIN watchers'[p],
                       watchers'[p][i].pending = << >>
                PROVE  LET call == watchers[p][i].pending[1]
                       IN  /\ presented'[p].kind = call.kind /\ presented'[p].room = call.room
                           /\ RoomName(p, presented'[p].friend) = call.room
    OBVIOUS
  <2>. DEFINE w == watchers[p][i]
  <2>1. WatcherInv(p, w) /\ w \in Watcher
    BY SequenceFacts DEF CallsInv, WatchersInv, TypeOK
  <2>2. w.pending # << >> /\ w.pending[1] \in Note
    BY <2>1 DEF Watcher
  <2>3. AnswerVideo(p, i) \/ AnswerAudio(p, i)
    BY <2>2, OnlyAnswersForget
  <2>4. /\ w.room = w.pending[1].room
        /\ w.video <=> w.pending[1].kind = "video"
        /\ w.audio <=> w.pending[1].kind = "audio"
        /\ Armed(w) => w.room = RoomName(p, w.friend)
    BY <2>1 DEF WatcherInv
  <2>. HIDE DEF w
  <2>5. CASE AnswerVideo(p, i)
    <3>1. /\ w.video /\ presented'[p].kind = "video" /\ presented'[p].room = w.room
          /\ presented'[p].friend = w.friend
      BY <2>5 DEF AnswerVideo, Show, TypeOK, w
    <3>. QED BY <2>4, <3>1 DEF Armed, w
  <2>6. CASE AnswerAudio(p, i)
    <3>1. /\ w.audio /\ presented'[p].kind = "audio" /\ presented'[p].room = w.room
          /\ presented'[p].friend = w.friend
      BY <2>6 DEF AnswerAudio, Show, TypeOK, w
    <3>. QED BY <2>4, <3>1 DEF Armed, w
  <2>. QED BY <2>3, <2>5, <2>6
<1>. QED BY <1>1, CallsInvariant, PTL DEF Spec, LoneCallIsAnswered

(* A notification disappears only when a phone that was told of somebody   *)
(* else's call in its room answers.                                        *)
THEOREM NotesStay == Spec => NotificationsStayUntilAnswered
<1>1. TypeOK /\ CallsInv /\ [Next]_vars =>
        \A n \in notes \ notes' : \E p \in Phone : \E i \in DOMAIN watchers[p] :
          /\ \E told \in watchers[p][i].told : told.room = n.room /\ told.sender # p
          /\ Armed(watchers[p][i]) /\ ~Armed(watchers'[p][i])
  <2>. SUFFICES ASSUME TypeOK, CallsInv, [Next]_vars, NEW n \in notes \ notes'
                PROVE  \E p \in Phone : \E i \in DOMAIN watchers[p] :
                         /\ \E told \in watchers[p][i].told : told.room = n.room /\ told.sender # p
                         /\ Armed(watchers[p][i]) /\ ~Armed(watchers'[p][i])
    OBVIOUS
  <2>1. PICK p \in Phone : CallKit(p)
    BY DEF Next, vars, treeVars, Process, Kill, Launch, EnterBackground, Chats, OpenSheet,
           Dismiss, AddConversation, OpenTooLarge, PlaceCall, Back, HangUp, Observers, Hear, HearJoin
  <2>2. PICK call \in ringing[p] : Answer(p, call)
    BY <2>1 DEF CallKit, Decline, treeVars
  <2>. DEFINE i == call.watcher
              w == watchers[p][i]
  <2>3. i \in DOMAIN watchers[p] /\ w \in Watcher /\ watchers[p] \in Seq(Watcher)
    BY SequenceFacts DEF TypeOK
  <2>4. Armed(w) /\ ClearNotes(w.room) /\ ForgetCalls(p, i)
    BY <2>2 DEF Answer, AnswerVideo, AnswerAudio, Armed
  <2>5. n.room = w.room
    BY <2>4 DEF ClearNotes
  <2>6. \E told \in w.told : told.room = n.room /\ told.sender # p
    BY <2>3, <2>4, <2>5 DEF CallsInv, WatchersInv, WatcherInv, Others, Foreign
  <2>7. watchers'[p][i] = Forgotten(w)
    BY <2>3, <2>4 DEF ForgetCalls, TypeOK
  <2>8. ~Armed(watchers'[p][i])
    BY <2>3, <2>7 DEF Forgotten, Armed, Watcher
  <2>. QED BY <2>3, <2>4, <2>6, <2>8
<1>. QED BY <1>1, CallsInvariant, PTL DEF Spec, NotificationsStayUntilAnswered
-----------------------------------------------------------------------------
\* The keys that childByAutoId makes are new.
KeysAreOld == \A n \in placed : n.key < nextKey

LEMMA KeysStayOld ==
  ASSUME TypeOK, KeysAreOld, [Next]_vars
  PROVE  KeysAreOld'
<1>1. nextKey \in Nat /\ \A n \in placed : n.key \in Nat
  BY DEF TypeOK, Note
<1>2. ASSUME placed' = placed, nextKey' = nextKey \/ nextKey' = nextKey + 1
      PROVE  KeysAreOld'
  BY <1>1, <1>2 DEF KeysAreOld
<1>3. ASSUME NEW p \in Phone, Chats(p) PROVE KeysAreOld'
  <2>1. ASSUME NEW f \in Friends[p], NEW kind \in {"video", "audio"}, PlaceCall(p, f, kind)
        PROVE  KeysAreOld'
    <3>. DEFINE note == [key |-> nextKey, room |-> RoomName(p, f), sender |-> p, kind |-> kind]
    <3>1. note.key = nextKey /\ placed' = placed \cup {note} /\ nextKey' = nextKey + 1
      BY <2>1 DEF PlaceCall
    <3>. HIDE DEF note
    <3>. QED BY <1>1, <3>1 DEF KeysAreOld
  <2>. QED BY <1>2, <1>3, <2>1 DEF Chats, OpenSheet, Dismiss, AddConversation,
                                       OpenTooLarge, Back, HangUp, treeVars
<1>4. ASSUME NEW p \in Phone, Process(p) \/ Observers(p) \/ CallKit(p) PROVE KeysAreOld'
  BY <1>2, <1>4 DEF Process, Kill, Launch, EnterBackground, Observers, Hear, HearJoin,
                    CallKit, Answer, AnswerVideo, AnswerAudio, Decline, treeVars
<1>5. UNCHANGED vars => KeysAreOld'
  BY <1>2 DEF vars, treeVars
<1>. QED BY <1>3, <1>4, <1>5 DEF Next

\* What the mapping makes of the call screens.
LEMMA LeavingTheBoard ==
  ASSUME TypeOK, NEW p \in Phone, UNCHANGED <<notes, placed>>,
         pushed' = [pushed EXCEPT ![p] = NoCall] \/ UNCHANGED pushed,
         presented' = [presented EXCEPT ![p] = NoCall]
  PROVE  Board!Leave(p)
<1>1. NoCall.room = 0
  BY DEF NoCall
<1>2. /\ \A q \in Phone : presented'[q].room = IF q = p THEN 0 ELSE presented[q].room
      /\ \/ UNCHANGED pushed
         \/ \A q \in Phone : pushed'[q].room = IF q = p THEN 0 ELSE pushed[q].room
  BY <1>1 DEF TypeOK
<1>. QED BY <1>2 DEF Board!Leave

LEMMA PlacingOnTheBoard ==
  ASSUME TypeOK, KeysAreOld, NEW p \in Phone, NEW f \in Friends[p],
         NEW kind \in {"video", "audio"}, PlaceCall(p, f, kind)
  PROVE  Board!Place(p)
<1>. DEFINE note == [key |-> nextKey, room |-> RoomName(p, f), sender |-> p, kind |-> kind]
            screen == [kind |-> kind, room |-> RoomName(p, f), friend |-> f,
                       name |-> IF kind = "audio" THEN f ELSE 0, clock |-> {}]
<1>1. /\ notes' = notes \cup {note} /\ placed' = placed \cup {note}
      /\ pushed' = [pushed EXCEPT ![p] = screen] /\ presented' = presented
      /\ pushed[p] = NoCall /\ presented[p] = NoCall
  BY DEF PlaceCall, Touchable
<1>2. note \notin placed
  <2>1. nextKey \in Nat
    BY DEF TypeOK
  <2>. QED BY <2>1 DEF KeysAreOld
<1>3. note.sender = p /\ note.room = RoomName(p, f) /\ screen.room = RoomName(p, f)
  OBVIOUS
<1>4. NoCall.room = 0
  BY DEF NoCall
<1>. HIDE DEF note, screen
<1>5. \A q \in Phone : pushed'[q].room = IF q = p THEN note.room ELSE pushed[q].room
  BY <1>1, <1>3 DEF TypeOK
<1>6. note \in placed' \ placed
  BY <1>1, <1>2
<1>. DEFINE called == [q \in Phone |-> pushed[q].room]
            joined == [q \in Phone |-> presented[q].room]
<1>7. called' = [called EXCEPT ![p] = note.room]
  BY <1>5
<1>8. called[p] = 0 /\ joined[p] = 0 /\ joined' = joined
  BY <1>1, <1>4
<1>. HIDE DEF called, joined
<1>9. \E call \in placed' \ placed :
        /\ call.sender = p
        /\ placed' = placed \cup {call} /\ notes' = notes \cup {call}
        /\ called' = [called EXCEPT ![p] = call.room]
  BY <1>1, <1>3, <1>6, <1>7
<1>. QED BY <1>8, <1>9 DEF Board!Place, called, joined

LEMMA AnsweringOnTheBoard ==
  ASSUME TypeOK, CallsInv, NEW p \in Phone, NEW i \in DOMAIN watchers[p],
         NEW screen \in Screen, screen.room = watchers[p][i].room,
         Armed(watchers[p][i]), Show(p, i, screen), ClearNotes(watchers[p][i].room),
         UNCHANGED <<pushed, placed>>
  PROVE  Board!Answer(p)
<1>. DEFINE w == watchers[p][i]
<1>1. PICK call \in placed : call.sender # p /\ call.room = w.room
  <2>1. WatcherInv(p, w) /\ \A n \in Others(p, w) : n \in placed /\ n.sender # p
    BY DEF CallsInv, WatchersInv, Others, Foreign
  <2>. HIDE DEF w
  <2>. QED BY <2>1 DEF WatcherInv, w
<1>. HIDE DEF w
<1>2. notes' = {n \in notes : n.room # call.room}
  BY <1>1 DEF ClearNotes, w
<1>3. NoCall.room = 0
  BY DEF NoCall
<1>4. CASE presented' = presented
  BY <1>1, <1>2, <1>4 DEF Board!Answer
<1>5. CASE presented[p] = NoCall /\ presented' = [presented EXCEPT ![p] = screen]
  <2>1. \A q \in Phone : presented'[q].room = IF q = p THEN call.room ELSE presented[q].room
    BY <1>1, <1>5 DEF TypeOK, w
  <2>. DEFINE joined == [q \in Phone |-> presented[q].room]
  <2>2. joined[p] = 0 /\ joined' = [joined EXCEPT ![p] = call.room]
    BY <1>3, <1>5, <2>1
  <2>3. UNCHANGED <<placed, [q \in Phone |-> pushed[q].room]>>
    OBVIOUS
  <2>. HIDE DEF joined
  <2>4. \E c \in placed :
          /\ c.sender # p /\ notes' = {n \in notes : n.room # c.room}
          /\ joined[p] = 0 /\ joined' = [joined EXCEPT ![p] = c.room]
    BY <1>1, <1>2, <2>2
  <2>. QED BY <2>3, <2>4 DEF Board!Answer, joined
<1>. QED BY <1>4, <1>5 DEF Show

(* Calls implements CallBoard: the call button places, an answer that a    *)
(* Menu gives takes the calls of its room off, back, hanging up and the    *)
(* end of a process leave, and all that is observed changes nothing.       *)
THEOREM ImplementsBoard == Spec => BoardSpec
<1>1. Init => Board!Init /\ KeysAreOld
  BY DEF Init, Board!Init, NoCall, KeysAreOld
<1>2. TypeOK /\ KeysAreOld /\ [Next]_vars => KeysAreOld'
  BY KeysStayOld
<1>3. TypeOK /\ TypeOK' /\ CallsInv /\ KeysAreOld /\ [Next]_vars => [Board!Next]_(Board!vars)
  <2>. SUFFICES ASSUME TypeOK, TypeOK', CallsInv, KeysAreOld, [Next]_vars
                PROVE  [Board!Next]_(Board!vars)
    OBVIOUS
  <2>1. UNCHANGED <<placed, notes, pushed, presented>> => UNCHANGED Board!vars
    BY DEF Board!vars
  <2>2. ASSUME NEW p \in Phone, Board!Place(p) \/ Board!Answer(p) \/ Board!Leave(p)
        PROVE  Board!Next
    BY <2>2 DEF Board!Next
  <2>3. ASSUME NEW p \in Phone, NEW how, Stopped(p, how), UNCHANGED <<notes, placed>>
        PROVE  Board!Next
    BY <2>2, <2>3, LeavingTheBoard DEF Stopped
  <2>4. ASSUME NEW p \in Phone, Process(p) PROVE [Board!Next]_(Board!vars)
    BY <2>1, <2>3, <2>4 DEF Process, Kill, Launch, EnterBackground, treeVars
  <2>5. ASSUME NEW p \in Phone, Chats(p) PROVE [Board!Next]_(Board!vars)
    <3>1. ASSUME NEW f \in Friends[p], NEW kind \in {"video", "audio"}, PlaceCall(p, f, kind)
          PROVE  Board!Next
      BY <2>2, <3>1, PlacingOnTheBoard
    <3>2. CASE Back(p)
      <4>1. presented' = [presented EXCEPT ![p] = NoCall]
        BY <3>2 DEF Back, TypeOK
      <4>. QED BY <2>2, <3>2, <4>1, LeavingTheBoard DEF Back, treeVars
    <3>3. CASE HangUp(p)
      BY <2>2, <2>3, <3>3, LeavingTheBoard DEF HangUp
    <3>4. CASE Dismiss(p)
      BY <2>2, <3>4, LeavingTheBoard DEF Dismiss, treeVars
    <3>5. ASSUME presented[p] = NoCall, presented' = [presented EXCEPT ![p] = Sheet],
                 UNCHANGED <<placed, notes, pushed>>
          PROVE  UNCHANGED Board!vars
      <4>1. \A q \in Phone : presented'[q].room = presented[q].room
        BY <3>5 DEF Sheet, NoCall, TypeOK
      <4>. QED BY <3>5, <4>1 DEF Board!vars
    <3>6. ASSUME NEW f \in Friends[p], AddConversation(p, f) PROVE UNCHANGED Board!vars
      BY <3>5, <3>6 DEF AddConversation, Touchable, treeVars
    <3>7. CASE OpenSheet(p)
      BY <3>5, <3>7 DEF OpenSheet, Touchable, treeVars
    <3>. QED BY <2>1, <2>3, <2>5, <3>1, <3>2, <3>3, <3>4, <3>6, <3>7
             DEF Chats, OpenSheet, Dismiss, AddConversation, OpenTooLarge, treeVars
  <2>6. ASSUME NEW p \in Phone, Observers(p) PROVE UNCHANGED Board!vars
    <3>1. ASSUME NEW join \in joins, HearJoin(p, join) PROVE UNCHANGED Board!vars
      <4>1. \A q \in Phone : /\ pushed'[q].room = pushed[q].room
                             /\ presented'[q].room = presented[q].room
        <5>1. pushed[p] \in Screen /\ presented[p] \in Screen
          BY DEF TypeOK
        <5>2. CASE pushed' = [pushed EXCEPT ![p].clock = @ \cup {join}] /\ UNCHANGED presented
          BY <5>1, <5>2 DEF TypeOK, Screen
        <5>3. CASE presented' = [presented EXCEPT ![p].clock = @ \cup {join}] /\ UNCHANGED pushed
          BY <5>1, <5>3 DEF TypeOK, Screen
        <5>. QED BY <3>1, <5>2, <5>3 DEF HearJoin
      <4>. QED BY <3>1, <4>1 DEF HearJoin, treeVars, Board!vars
    <3>. QED BY <2>1, <2>6, <3>1 DEF Observers, Hear, treeVars
  <2>7. ASSUME NEW p \in Phone, CallKit(p) PROVE [Board!Next]_(Board!vars)
    <3>1. ASSUME NEW call \in ringing[p], Answer(p, call) PROVE [Board!Next]_(Board!vars)
      <4>. DEFINE i == call.watcher
                  w == watchers[p][i]
      <4>1. i \in DOMAIN watchers[p] /\ w \in Watcher
        BY SequenceFacts DEF TypeOK
      <4>. HIDE DEF i
      <4>2. CASE AnswerVideo(p, i)
        <5>. DEFINE screen == [kind |-> "video", room |-> w.room, friend |-> w.friend,
                               name |-> 0, clock |-> {}]
        <5>1. screen \in Screen /\ screen.room = w.room
          BY <4>1 DEF Screen, Watcher
        <5>2. Armed(w) /\ Show(p, i, screen) /\ ClearNotes(w.room)
          BY <4>2 DEF AnswerVideo, Armed
        <5>. HIDE DEF screen
        <5>. QED BY <2>2, <3>1, <4>1, <5>1, <5>2, AnsweringOnTheBoard DEF Answer
      <4>3. CASE AnswerAudio(p, i)
        <5>. DEFINE screen == [kind |-> "audio", room |-> w.room, friend |-> w.friend,
                               name |-> w.name, clock |-> {}]
        <5>1. screen \in Screen /\ screen.room = w.room
          BY <4>1 DEF Screen, Watcher
        <5>2. Armed(w) /\ Show(p, i, screen) /\ ClearNotes(w.room)
          BY <4>3 DEF AnswerAudio, Armed
        <5>. HIDE DEF screen
        <5>. QED BY <2>2, <3>1, <4>1, <5>1, <5>2, AnsweringOnTheBoard DEF Answer
      <4>. QED BY <2>1, <3>1, <4>2, <4>3 DEF Answer, i
    <3>. QED BY <2>1, <2>7, <3>1 DEF CallKit, Decline, treeVars
  <2>. QED BY <2>1, <2>4, <2>5, <2>6, <2>7 DEF Next, vars, phoneVars, treeVars
<1>4. Spec => []KeysAreOld
  BY <1>1, <1>2, TypeCorrect, PTL DEF Spec
<1>. QED BY <1>1, <1>3, <1>4, TypeCorrect, CallsInvariant, PTL DEF Spec, BoardSpec, Board!Spec
=============================================================================
