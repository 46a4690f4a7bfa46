----------------------------- MODULE VideoRoom -----------------------------
(***************************************************************************)
(* The call screens of one phone's VideoViewController and the room they   *)
(* meet others in.  Every screen that is opened connects to the one Twilio *)
(* room "Shiftgram" and shows the first other participant that it is told  *)
(* of.  Hanging up disconnects; the back button does not.  Either way the  *)
(* screen lives on with the process, because the closure of its Firebase   *)
(* observer keeps it.  The service (external) accepts, refuses and ends    *)
(* connections as it likes, and tells every participant of the others in   *)
(* order.                                                                  *)
(*                                                                         *)
(* A participant is named by its screen; those of other phones are peers.  *)
(* The app publishes one video track per participant and never unpublishes *)
(* it.                                                                     *)
(***************************************************************************)
EXTENDS Naturals, Sequences

CONSTANTS Screen,  \* the call screens that this phone ever opens
          Pushed,  \* those that a chat pushes: they have a back button; the
                   \* others are presented, when the Menu answers a call
          Peer,    \* the participants of other phones
          Backlog, \* bound: delegate calls that are on their way to one screen
          None     \* no participant, no view

ASSUME PushedAreScreens == Pushed \subseteq Screen
ASSUME NamesDiffer == None \notin Screen \cup Peer /\ Screen \cap Peer = {}
ASSUME BacklogIsNatural == Backlog \in Nat

VARIABLES
  place,    \* where a screen is
  room,     \* whether room is set
  shown,    \* remoteParticipant
  view,     \* remoteView: whose track it renders
  tracks,   \* participants whose video track the screen's room object has
  link,     \* a screen's connection, for the service
  inbox,    \* delegate calls that are on their way
  crowded   \* history: three participants have been in the room at once

device  == <<place, room>>
picture == <<shown, view, tracks>>
service == <<link, crowded>>
vars    == <<device, picture, service, inbox>>

Participant  == Screen \cup Peer
Members      == {o \in Participant : link[o] = "in"}
Alive(s)     == place[s] \in {"front", "under", "left", "hungUp"}
Abandoned(s) == place[s] \in {"hungUp", "killed", "trapped"}
Event == [kind : {"connected"}, who : Participant \cup {None}]
         \cup [kind : {"joined", "left", "subscribed", "unsubscribed"}, who : Participant]
         \cup [kind : {"ended", "failed"}, who : {None}]

\* The user sees at most one screen; what it covers was pushed, and it was not.
OneInFront ==
  /\ \A s, t \in Screen : place[s] = place[t] /\ place[s] \in {"front", "under"} => s = t
  /\ \A s \in Screen : place[s] = "under" =>
       s \in Pushed /\ \E t \in Screen \ Pushed : place[t] = "front"

TypeOK ==
  /\ place \in [Screen -> {"unborn", "front", "under", "left", "hungUp", "killed", "trapped"}]
  /\ OneInFront
  /\ room \in [Screen -> BOOLEAN]
  /\ shown \in [Screen -> Participant \cup {None}]
  /\ view \in [Screen -> Participant \cup {None}]
  /\ tracks \in [Screen -> SUBSET Participant]
  /\ link \in [Participant -> {"none", "asked", "in", "out"}]
  /\ inbox \in [Screen -> Seq(Event)] /\ crowded \in BOOLEAN

Init ==
  /\ place = [s \in Screen |-> "unborn"]
  /\ room = [s \in Screen |-> FALSE]
  /\ shown = [s \in Screen |-> None] /\ view = [s \in Screen |-> None]
  /\ tracks = [s \in Screen |-> {}]
  /\ link = [o \in Participant |-> "none"] /\ inbox = [s \in Screen |-> << >>]
  /\ crowded = FALSE
-----------------------------------------------------------------------------
\* The process takes its screens and what they know along; the service has not
\* noticed yet.
ProcessEnds(how) ==
  /\ place' = [s \in Screen |-> IF Alive(s) THEN how ELSE place[s]]
  /\ room' = [s \in Screen |-> FALSE]
  /\ shown' = [s \in Screen |-> None] /\ view' = [s \in Screen |-> None]
  /\ tracks' = [s \in Screen |-> {}] /\ inbox' = [s \in Screen |-> << >>]
  /\ UNCHANGED service

Kill == (\E s \in Screen : Alive(s)) /\ ProcessEnds("killed")

\* viewDidLoad, in the process of before or a new one: TwilioVideo.connect
\* returns the room at once.  An answered call is presented over a pushed call
\* screen as over any other, but not over a presented one.
Open(s) ==
  /\ place[s] = "unborn"
  /\ \A t \in Screen : place[t] = "front" => t \in Pushed /\ s \notin Pushed
  /\ place' = [t \in Screen |-> IF t = s THEN "front"
                               ELSE IF place[t] = "front" THEN "under" ELSE place[t]]
  /\ link' = [link EXCEPT ![s] = "asked"] /\ room' = [room EXCEPT ![s] = TRUE]
  /\ UNCHANGED <<picture, crowded, inbox>>

\* The back button of the navigation bar.
Back(s) ==
  /\ s \in Pushed /\ place[s] = "front" /\ place' = [place EXCEPT ![s] = "left"]
  /\ UNCHANGED <<room, picture, service, inbox>>

\* A photo that a chat beneath has sent dismisses what is presented by then.
Dismiss(s) ==
  /\ s \notin Pushed /\ place[s] = "front"
  /\ place' = [t \in Screen |-> IF t = s THEN "left"
                               ELSE IF place[t] = "under" THEN "front" ELSE place[t]]
  /\ UNCHANGED <<room, picture, service, inbox>>

\* Mutant: the call beneath is forgotten.
HangUpKeepsUnder(s) ==
  /\ place[s] = "front"
  /\ IF room[s]
     THEN /\ place' = [place EXCEPT ![s] = "hungUp"]
          /\ UNCHANGED <<room, picture, service, inbox>>
     ELSE ProcessEnds("trapped")

\* tapGestureDisconnect: room! is disconnected, and a new Menu takes the place of
\* everything, a call screen beneath included, which stays connected.  The service
\* ends the connection later.
HangUp(s) ==
  /\ place[s] = "front"
  /\ IF room[s]
     THEN /\ place' = [t \in Screen |-> IF t = s THEN "hungUp"
                                      ELSE IF place[t] = "under" THEN "left" ELSE place[t]]
          /\ UNCHANGED <<room, picture, service, inbox>>
     ELSE ProcessEnds("trapped")
-----------------------------------------------------------------------------
Call(kind, who) == [kind |-> kind, who |-> who]

\* The service calls the delegates of living processes, each in order.
Tells(calls) ==
  /\ inbox' = [s \in Screen |-> IF Alive(s) THEN inbox[s] \o calls[s] ELSE inbox[s]]
  /\ \A s \in Screen : Len(inbox'[s]) <= Backlog

\* The service has subscribed s to the track of o.
Sent(s, o) ==
  o \in tracks[s] \/ \E i \in DOMAIN inbox[s] : inbox[s][i] = Call("subscribed", o)

\* A peer is let in at any time, a screen when it has asked: it is told who is
\* there, of whom the first counts, and the others that it came.
Accept(o) ==
  /\ link[o] = (IF o \in Peer THEN "none" ELSE "asked")
  /\ link' = [link EXCEPT ![o] = "in"]
  /\ \E first \in IF Members = {} THEN {None} ELSE Members :
       Tells([s \in Screen |-> IF s = o THEN <<Call("connected", first)>>
                               ELSE IF s \in Members THEN <<Call("joined", o)>>
                               ELSE << >>])
  /\ crowded' = (crowded \/ \E a, b \in Members : a # b)
  /\ UNCHANGED <<device, picture>>

\* The token has expired or is refused, or there is no network.
Refuse(s) ==
  /\ link[s] = "asked" /\ link' = [link EXCEPT ![s] = "out"]
  /\ Tells([t \in Screen |-> IF t = s THEN <<Call("failed", None)>> ELSE << >>])
  /\ UNCHANGED <<device, picture, crowded>>

\* A connection ends.  The others may be told first that they are not subscribed
\* to its track any more.
Drop(o) ==
  /\ link[o] = "in" /\ link' = [link EXCEPT ![o] = "out"]
  /\ \E apart \in BOOLEAN :
       Tells([s \in Screen |->
         IF s = o THEN <<Call("ended", None)>>
         ELSE IF s \notin Members THEN << >>
         ELSE (IF apart /\ Sent(s, o) THEN <<Call("unsubscribed", o)>> ELSE << >>)
              \o <<Call("left", o)>>])
  /\ UNCHANGED <<device, picture, crowded>>

Subscribe(s, o) ==
  /\ {s, o} \subseteq Members /\ Alive(s) /\ s # o /\ ~Sent(s, o)
  /\ Tells([t \in Screen |-> IF t = s THEN <<Call("subscribed", o)>> ELSE << >>])
  /\ UNCHANGED <<device, picture, service>>
-----------------------------------------------------------------------------
\* The next delegate call of s, on the main queue.
Called(s, kind) == Alive(s) /\ inbox[s] # << >> /\ Head(inbox[s]).kind = kind
Who(s)   == Head(inbox[s]).who
Takes(s) == inbox' = [inbox EXCEPT ![s] = Tail(@)]
Delegate(s, kind) == Called(s, kind) /\ Takes(s)

\* Mutant: those who are there already are left for participantDidConnect, which
\* is never called for them.
DidConnectOnly(s) ==
  /\ Delegate(s, "connected") /\ UNCHANGED <<device, picture, service>>

DidConnect(s) ==
  /\ Delegate(s, "connected")
  /\ shown' = IF Who(s) # None THEN [shown EXCEPT ![s] = Who(s)] ELSE shown
  /\ UNCHANGED <<device, view, tracks, service>>

\* Mutant: the last to come is shown.
AdoptAlways(s) ==
  /\ Delegate(s, "joined")
  /\ shown' = [shown EXCEPT ![s] = Who(s)]
  /\ UNCHANGED <<device, view, tracks, service>>

\* Mutant: only didConnect shows somebody.
AdoptNobody(s) ==
  /\ Delegate(s, "joined") /\ UNCHANGED <<device, picture, service>>

ParticipantDidConnect(s) ==
  /\ Delegate(s, "joined")
  /\ shown' = IF shown[s] = None THEN [shown EXCEPT ![s] = Who(s)] ELSE shown
  /\ UNCHANGED <<device, view, tracks, service>>

\* setupRemoteVideoView; the room object has the track in any case.
Subscribed(s) ==
  /\ Delegate(s, "subscribed")
  /\ tracks' = [tracks EXCEPT ![s] = @ \cup {Who(s)}]
  /\ view' = IF shown[s] = Who(s) THEN [view EXCEPT ![s] = Who(s)] ELSE view
  /\ UNCHANGED <<device, shown, service>>

\* Mutant: the view stays with the participant's last picture.
UnsubscribedKeepsView(s) ==
  /\ Delegate(s, "unsubscribed") /\ tracks' = [tracks EXCEPT ![s] = @ \ {Who(s)}]
  /\ UNCHANGED <<device, shown, view, service>>

\* The renderer is removed from remoteView!, if the track is the shown one's.
Unsubscribed(s) ==
  /\ Called(s, "unsubscribed")
  /\ IF shown[s] = Who(s) /\ view[s] = None
     THEN ProcessEnds("trapped")
     ELSE /\ tracks' = [tracks EXCEPT ![s] = @ \ {Who(s)}]
          /\ view' = IF shown[s] = Who(s) THEN [view EXCEPT ![s] = None] ELSE view
          /\ Takes(s) /\ UNCHANGED <<device, shown, service>>

\* cleanupRemoteParticipant, before the room object forgets tracks; room is set
\* to rooms.  remoteView! is unwrapped if there is a track.
Cleanup(s, forgotten, rooms) ==
  IF shown[s] \in tracks[s] /\ view[s] = None
  THEN ProcessEnds("trapped")
  ELSE /\ shown' = [shown EXCEPT ![s] = None] /\ view' = [view EXCEPT ![s] = None]
       /\ tracks' = [tracks EXCEPT ![s] = @ \ forgotten]
       /\ room' = [room EXCEPT ![s] = rooms]
       /\ Takes(s) /\ UNCHANGED <<place, service>>

\* Mutant: whoever else is in the room is shown next, a tempting repair.
ShowNext(s) ==
  /\ Delegate(s, "left")
  /\ IF shown[s] = Who(s) /\ Members \ {s} # {}
     THEN /\ \E o \in Members \ {s} : shown' = [shown EXCEPT ![s] = o]
          /\ view' = [view EXCEPT ![s] = None]
          /\ tracks' = [tracks EXCEPT ![s] = @ \ {Who(s)}]
          /\ UNCHANGED <<device, service>>
     ELSE /\ tracks' = [tracks EXCEPT ![s] = @ \ {Who(s)}]
          /\ UNCHANGED <<device, shown, view, service>>

\* Mutant: remoteParticipant is kept.
KeepShown(s) ==
  /\ Delegate(s, "left") /\ tracks' = [tracks EXCEPT ![s] = @ \ {Who(s)}]
  /\ UNCHANGED <<device, shown, view, service>>

\* If it is the shown one, nobody is shown until somebody else comes in.
ParticipantDidDisconnect(s) ==
  /\ Called(s, "left")
  /\ IF shown[s] = Who(s) THEN Cleanup(s, {Who(s)}, room[s])
     ELSE /\ Takes(s) /\ tracks' = [tracks EXCEPT ![s] = @ \ {Who(s)}]
          /\ UNCHANGED <<device, shown, view, service>>

DidDisconnect(s) ==
  /\ Called(s, "ended") /\ Cleanup(s, Participant, FALSE)

DidFailToConnect(s) ==
  /\ Delegate(s, "failed") /\ room' = [room EXCEPT ![s] = FALSE]
  /\ UNCHANGED <<place, picture, service>>
-----------------------------------------------------------------------------
Delegates(s) ==
  \/ DidConnect(s) \/ ParticipantDidConnect(s) \/ Subscribed(s) \/ Unsubscribed(s)
  \/ ParticipantDidDisconnect(s) \/ DidDisconnect(s) \/ DidFailToConnect(s)

Next ==
  \/ Kill
  \/ \E s \in Screen : Open(s) \/ Back(s) \/ Dismiss(s) \/ HangUp(s) \/ Refuse(s) \/ Delegates(s)
  \/ \E o \in Participant : Accept(o) \/ Drop(o) \/ \E s \in Screen : Subscribe(s, o)

Spec == Init /\ [][Next]_vars

\* The main queue runs what it is given; the service answers, subscribes who is
\* in, and ends connections that were hung up or have lost their process.
FairSpec ==
  /\ Spec
  /\ \A s \in Screen :
       WF_vars(Delegates(s)) /\ WF_vars(Accept(s) \/ Refuse(s)) /\ WF_vars(Abandoned(s) /\ Drop(s))
  /\ \A s \in Screen : \A o \in Participant : WF_vars(Subscribe(s, o))
-----------------------------------------------------------------------------
\* The screen has a view exactly when the track of the participant that it shows
\* is there to be rendered: a picture never outlives its participant, and
\* remoteView! is there whenever a delegate unwraps it.
ViewIsOfShown ==
  \A s \in Screen : view[s] = IF shown[s] \in tracks[s] THEN shown[s] ELSE None

\* Whoever is shown is in the room, or the news that he is not is on its way.
ShownIsInRoom ==
  \A s \in Screen : shown[s] # None /\ link[shown[s]] # "in" =>
    \E i \in DOMAIN inbox[s] :
      inbox[s][i].kind = "ended" \/ inbox[s][i] = Call("left", shown[s])

\* room! and remoteView! end the process only when the service has refused or
\* ended the connection of the screen in front, never in a call that works.
OnlyEndedCallsTrap ==
  [][(\E s \in Screen : place[s] # "trapped" /\ place'[s] = "trapped") =>
       \E t \in Screen : place[t] = "front" /\ link[t] = "out"]_vars

\* Whoever comes into a room that two are talking in, and whoever leaves it,
\* takes nobody else off the screen.
NobodyIsDisplaced ==
  [][\A s \in Screen : shown[s] # None /\ shown'[s] # shown[s] =>
       /\ shown'[s] = None
       /\ link[s] # "in" \/ link[shown[s]] # "in" \/ ~Alive(s)']_vars

\* Two who have never met a third see each other as soon as nothing is on its way,
\* whoever came first and whoever had come and gone before: the screen holds
\* neither nobody nor a former partner (VideoViewController.swift:293, 309, 316).
QuietPartnerIsShown ==
  \A s \in Screen : \A o \in Participant \ {s} :
    ~crowded /\ Alive(s) /\ {s, o} \subseteq Members /\ inbox[s] = << >> => shown[s] = o

\* A participant that stays alone with a screen comes to be seen there, if they
\* have never met a third.
LonePartnerIsSeen ==
  \A s \in Screen, o \in Participant : s # o =>
    (<>[](Members = {s, o} /\ Alive(s) /\ ~crowded) => <>[](view[s] = o))

\* Hanging up, or the end of the process, takes a screen off all others in the
\* end, and so does the end of a peer's connection.
AbandonedAreForgotten ==
  \A o \in Participant :
    (link[o] = "out" \/ (o \in Screen /\ Abandoned(o))) ~> \A s \in Screen : shown[s] # o
=============================================================================
