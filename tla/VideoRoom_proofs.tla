------------------------- MODULE VideoRoom_proofs -------------------------
(***************************************************************************)
(* Theorems about VideoRoom, for any number of screens and of peers.       *)
(***************************************************************************)
EXTENDS VideoRoom, TLAPS

LEMMA Naming ==
  /\ Screen \subseteq Participant /\ None \notin Participant /\ Peer \subseteq Participant
  /\ \A s \in Screen : s \notin Peer
BY NamesDiffer DEF Participant

(***************************************************************************)
(* What taking a delegate call from an inbox, and adding some, does to it. *)
(***************************************************************************)
LEMMA Taken ==
  ASSUME TypeOK, NEW s \in Screen, inbox[s] # << >>, Takes(s)
  PROVE  /\ inbox' \in [Screen -> Seq(Event)]
         /\ \A t \in Screen \ {s} : inbox'[t] = inbox[t]
         /\ Len(inbox[s]) \in Nat /\ Len(inbox'[s]) \in Nat
         /\ Len(inbox[s]) = Len(inbox'[s]) + 1
         /\ Head(inbox[s]) = inbox[s][1] /\ inbox[s][1] \in Event
         /\ DOMAIN inbox[s] = 1 .. Len(inbox[s])
         /\ DOMAIN inbox'[s] = 1 .. Len(inbox'[s])
         /\ \A i \in 1 .. Len(inbox'[s]) : inbox'[s][i] = inbox[s][i + 1]
<1>1. inbox[s] \in Seq(Event)
  BY DEF TypeOK
<1>2. inbox'[s] = Tail(inbox[s]) /\ \A t \in Screen \ {s} : inbox'[t] = inbox[t]
  BY DEF TypeOK, Takes
<1>3. Tail(inbox[s]) \in Seq(Event)
  BY <1>1
<1>4. inbox' \in [Screen -> Seq(Event)]
  BY <1>3 DEF TypeOK, Takes
<1>5. Len(inbox[s]) \in Nat /\ Len(inbox[s]) # 0
  BY <1>1
<1> QED
  BY <1>1, <1>2, <1>3, <1>4, <1>5

LEMMA Added ==
  ASSUME TypeOK, NEW calls \in [Screen -> Seq(Event)], Tells(calls)
  PROVE  /\ inbox' \in [Screen -> Seq(Event)]
         /\ \A s \in Screen : ~Alive(s) => inbox'[s] = inbox[s]
         /\ \A s \in Screen : Alive(s) =>
              /\ Len(inbox[s]) \in Nat /\ Len(calls[s]) \in Nat
              /\ Len(inbox'[s]) = Len(inbox[s]) + Len(calls[s])
              /\ DOMAIN inbox[s] = 1 .. Len(inbox[s])
              /\ DOMAIN inbox'[s] = 1 .. Len(inbox'[s])
              /\ \A i \in 1 .. Len(inbox[s]) : inbox'[s][i] = inbox[s][i]
              /\ \A i \in 1 .. Len(calls[s]) : inbox'[s][Len(inbox[s]) + i] = calls[s][i]
              /\ calls[s] = << >> => inbox'[s] = inbox[s]
<1>1. ASSUME NEW s \in Screen
      PROVE  inbox[s] \in Seq(Event) /\ calls[s] \in Seq(Event)
  BY DEF TypeOK
<1>2. \A s \in Screen : inbox'[s] = IF Alive(s) THEN inbox[s] \o calls[s] ELSE inbox[s]
  BY DEF Tells
<1>3. \A s \in Screen : inbox[s] \o calls[s] \in Seq(Event)
  <2>1. \A x, y \in Seq(Event) : x \o y \in Seq(Event)
    OBVIOUS
  <2> QED
    BY <1>1, <2>1
<1>4. inbox' \in [Screen -> Seq(Event)]
  <2>1. \A s \in Screen :
          (IF Alive(s) THEN inbox[s] \o calls[s] ELSE inbox[s]) \in Seq(Event)
    BY <1>1, <1>3
  <2>2. [s \in Screen |-> IF Alive(s) THEN inbox[s] \o calls[s] ELSE inbox[s]]
          \in [Screen -> Seq(Event)]
    BY <2>1, Zenon
  <2> QED
    BY <2>2 DEF Tells
<1>5. ASSUME NEW s \in Screen, Alive(s)
      PROVE  /\ Len(inbox[s]) \in Nat /\ Len(calls[s]) \in Nat
             /\ Len(inbox'[s]) = Len(inbox[s]) + Len(calls[s])
             /\ DOMAIN inbox[s] = 1 .. Len(inbox[s])
             /\ DOMAIN inbox'[s] = 1 .. Len(inbox'[s])
             /\ \A i \in 1 .. Len(inbox[s]) : inbox'[s][i] = inbox[s][i]
             /\ \A i \in 1 .. Len(calls[s]) : inbox'[s][Len(inbox[s]) + i] = calls[s][i]
             /\ calls[s] = << >> => inbox'[s] = inbox[s]
  <2>1. inbox'[s] = inbox[s] \o calls[s]
    BY <1>2, <1>5
  <2> QED
    BY <1>1, <2>1
<1> QED
  BY <1>2, <1>4, <1>5

(* The calls that the service makes are delegate calls.                    *)
LEMMA CallsAreEvents ==
  /\ \A o \in Participant \cup {None} : <<Call("connected", o)>> \in Seq(Event)
  /\ \A o \in Participant : \A k \in {"joined", "left", "subscribed", "unsubscribed"} :
       <<Call(k, o)>> \in Seq(Event)
  /\ <<Call("ended", None)>> \in Seq(Event) /\ <<Call("failed", None)>> \in Seq(Event)
  /\ << >> \in Seq(Event)
  /\ \A o \in Participant : \A b \in BOOLEAN :
       (IF b THEN <<Call("unsubscribed", o)>> ELSE << >>) \o <<Call("left", o)>> \in Seq(Event)
<1>1. /\ \A o \in Participant \cup {None} : Call("connected", o) \in Event
      /\ \A o \in Participant : \A k \in {"joined", "left", "subscribed", "unsubscribed"} :
           Call(k, o) \in Event
      /\ Call("ended", None) \in Event /\ Call("failed", None) \in Event
  BY DEF Call, Event
<1>2. \A e \in Event : <<e>> \in Seq(Event)
  OBVIOUS
<1>3. << >> \in Seq(Event)
  OBVIOUS
<1>4. ASSUME NEW o \in Participant, NEW b \in BOOLEAN
      PROVE  (IF b THEN <<Call("unsubscribed", o)>> ELSE << >>) \o <<Call("left", o)>>
               \in Seq(Event)
  <2>1. \A x, y \in Seq(Event) : x \o y \in Seq(Event)
    OBVIOUS
  <2>2. <<Call("unsubscribed", o)>> \in Seq(Event) /\ <<Call("left", o)>> \in Seq(Event)
    BY <1>1, <1>2
  <2>3. CASE b
    BY <2>1, <2>2, <2>3
  <2>4. CASE ~b
    BY <1>3, <2>1, <2>2, <2>4
  <2> QED
    BY <2>3, <2>4
<1> QED
  BY <1>1, <1>2, <1>3, <1>4

(***************************************************************************)
(* TypeOK is inductive.                                                    *)
(***************************************************************************)
LEMMA TypeInit == Init => TypeOK
<1>1. << >> \in Seq(Event)
  OBVIOUS
<1> SUFFICES ASSUME Init PROVE TypeOK
  OBVIOUS
<1>2. inbox \in [Screen -> Seq(Event)]
  BY <1>1 DEF Init
<1>3. /\ place \in [Screen -> {"unborn", "front", "under", "left", "hungUp", "killed", "trapped"}]
      /\ \A s \in Screen : place[s] \notin {"front", "under"}
      /\ link \in [Participant -> {"none", "asked", "in", "out"}]
  BY DEF Init
<1>4. /\ shown \in [Screen -> Participant \cup {None}]
      /\ view \in [Screen -> Participant \cup {None}]
      /\ tracks \in [Screen -> SUBSET Participant]
  BY DEF Init
<1> QED
  BY <1>2, <1>3, <1>4 DEF Init, TypeOK, OneInFront

LEMMA EndsTyped == ASSUME TypeOK, NEW how \in {"killed", "trapped"}, ProcessEnds(how)
                   PROVE  TypeOK'
<1>1. inbox' \in [Screen -> Seq(Event)]
  <2>1. << >> \in Seq(Event)
    OBVIOUS
  <2> QED
    BY <2>1 DEF ProcessEnds
<1>2. /\ place' \in [Screen -> {"unborn", "front", "under", "left", "hungUp", "killed", "trapped"}]
      /\ \A s \in Screen : place'[s] \notin {"front", "under"}
  BY DEF TypeOK, ProcessEnds, Alive
<1>3. /\ room' \in [Screen -> BOOLEAN]
      /\ shown' \in [Screen -> Participant \cup {None}]
      /\ view' \in [Screen -> Participant \cup {None}]
      /\ tracks' \in [Screen -> SUBSET Participant]
  BY DEF ProcessEnds
<1>4. link' = link /\ crowded' = crowded
  BY DEF ProcessEnds, service
<1> QED
  BY <1>1, <1>2, <1>3, <1>4 DEF TypeOK, OneInFront

LEMMA FrontKept == OneInFront /\ place' = place => OneInFront'
BY DEF OneInFront

(* Each of the service's steps tells calls of the right type.              *)
LEMMA Told ==
  ASSUME TypeOK, NEW o \in Participant
  PROVE  /\ Accept(o) => \E calls \in [Screen -> Seq(Event)] : Tells(calls)
         /\ Drop(o) => \E calls \in [Screen -> Seq(Event)] : Tells(calls)
         /\ \A s \in Screen : Refuse(s) \/ Subscribe(s, o) =>
              \E calls \in [Screen -> Seq(Event)] : Tells(calls)
<1>1. ASSUME Accept(o) PROVE \E calls \in [Screen -> Seq(Event)] : Tells(calls)
  <2> PICK first \in (IF Members = {} THEN {None} ELSE Members) :
        Tells([s \in Screen |-> IF s = o THEN <<Call("connected", first)>>
                                ELSE IF s \in Members THEN <<Call("joined", o)>>
                                ELSE << >>])
    BY <1>1 DEF Accept
  <2>1. first \in Participant \cup {None}
    BY DEF Members
  <2> QED
    BY <2>1, CallsAreEvents
<1>2. ASSUME Drop(o) PROVE \E calls \in [Screen -> Seq(Event)] : Tells(calls)
  <2> PICK apart \in BOOLEAN :
        Tells([s \in Screen |->
          IF s = o THEN <<Call("ended", None)>>
          ELSE IF s \notin Members THEN << >>
          ELSE (IF apart /\ Sent(s, o) THEN <<Call("unsubscribed", o)>> ELSE << >>)
               \o <<Call("left", o)>>])
    BY <1>2 DEF Drop
  <2>1. \A s \in Screen :
          (IF s = o THEN <<Call("ended", None)>>
           ELSE IF s \notin Members THEN << >>
           ELSE (IF apart /\ Sent(s, o) THEN <<Call("unsubscribed", o)>> ELSE << >>)
                \o <<Call("left", o)>>) \in Seq(Event)
    <3> TAKE s \in Screen
    <3>1. (apart /\ Sent(s, o)) \in BOOLEAN
      BY DEF Sent
    <3> QED
      BY <3>1, CallsAreEvents
  <2> QED
    BY <2>1
<1>3. ASSUME NEW s \in Screen, Refuse(s) \/ Subscribe(s, o)
      PROVE  \E calls \in [Screen -> Seq(Event)] : Tells(calls)
  <2>1. CASE Refuse(s)
    BY <2>1, CallsAreEvents DEF Refuse
  <2>2. CASE Subscribe(s, o)
    BY <2>2, CallsAreEvents DEF Subscribe
  <2> QED
    BY <1>3, <2>1, <2>2
<1> QED
  BY <1>1, <1>2, <1>3

LEMMA TypeNext == TypeOK /\ [Next]_vars => TypeOK'
<1> SUFFICES ASSUME TypeOK, [Next]_vars PROVE TypeOK'
  OBVIOUS
<1>0. \A calls \in [Screen -> Seq(Event)] : Tells(calls) => inbox' \in [Screen -> Seq(Event)]
  BY Added
<1>1. CASE Kill
  BY <1>1, EndsTyped DEF Kill
<1>2. ASSUME NEW s \in Screen, Open(s) PROVE TypeOK'
  <2>1. /\ place' \in [Screen -> {"unborn", "front", "under", "left", "hungUp", "killed", "trapped"}]
        /\ \A t \in Screen : place'[t] = "front" => t = s
        /\ place'[s] = "front"
    BY <1>2 DEF Open, TypeOK, OneInFront
  <2>2. ASSUME NEW t \in Screen, place[t] = "under" PROVE FALSE
    <3> PICK u \in Screen \ Pushed : place[u] = "front"
      BY <2>2 DEF TypeOK, OneInFront
    <3> QED
      BY <1>2 DEF Open
  <2>3. ASSUME NEW t \in Screen, place'[t] = "under" PROVE t \in Pushed /\ s \in Screen \ Pushed
    <3>1. place'[t] = IF t = s THEN "front" ELSE IF place[t] = "front" THEN "under" ELSE place[t]
      BY <1>2 DEF Open
    <3>2. place[t] = "front"
      BY <2>2, <2>3, <3>1
    <3> QED
      BY <1>2, <3>2 DEF Open
  <2>4. \A t \in Screen : place'[t] = "under" =>
          t \in Pushed /\ \E u \in Screen \ Pushed : place'[u] = "front"
    BY <2>1, <2>3
  <2>6. \A t \in Screen : place'[t] = "under" => place[t] = "front"
    BY <1>2, <2>2 DEF Open
  <2>7. \A t, u \in Screen : place'[t] = place'[u] /\ place'[t] \in {"front", "under"} => t = u
    BY <2>1, <2>6 DEF TypeOK, OneInFront
  <2>5. /\ room' \in [Screen -> BOOLEAN] /\ link' \in [Participant -> {"none", "asked", "in", "out"}]
        /\ UNCHANGED <<shown, view, tracks, crowded, inbox>>
    BY <1>2 DEF Open, TypeOK, OneInFront, picture
  <2> QED
    BY <2>1, <2>4, <2>5, <2>7 DEF TypeOK, OneInFront
<1>3. ASSUME NEW s \in Screen, Back(s) PROVE TypeOK'
  BY <1>3 DEF Back, TypeOK, OneInFront, picture, service
<1>11. ASSUME NEW s \in Screen, Dismiss(s) PROVE TypeOK'
  <2>1. /\ place' \in [Screen -> {"unborn", "front", "under", "left", "hungUp", "killed", "trapped"}]
        /\ \A t \in Screen : place'[t] = "front" => place[t] = "under"
        /\ \A t \in Screen : place'[t] # "under"
    BY <1>11 DEF Dismiss, TypeOK, OneInFront
  <2>2. \A t, u \in Screen : place'[t] = place'[u] /\ place'[t] \in {"front", "under"} => t = u
    BY <2>1 DEF TypeOK, OneInFront
  <2> QED
    BY <1>11, <2>1, <2>2 DEF Dismiss, TypeOK, OneInFront, picture, service
<1>4. ASSUME NEW s \in Screen, HangUp(s) PROVE TypeOK'
  <2>1. CASE room[s]
    <3>1. /\ place' \in [Screen -> {"unborn", "front", "under", "left", "hungUp", "killed", "trapped"}]
          /\ \A t \in Screen : place'[t] \notin {"front", "under"}
      <4>1. place' = [t \in Screen |-> IF t = s THEN "hungUp"
                                      ELSE IF place[t] = "under" THEN "left" ELSE place[t]]
        BY <1>4, <2>1 DEF HangUp
      <4>2. \A t \in Screen : place[t] = "front" => t = s
        BY <1>4 DEF HangUp, TypeOK, OneInFront
      <4>3. place \in [Screen -> {"unborn", "front", "under", "left", "hungUp", "killed", "trapped"}]
        BY DEF TypeOK
      <4> QED
        BY <4>1, <4>2, <4>3
    <3>2. OneInFront'
      BY <3>1 DEF OneInFront
    <3> QED
      BY <1>4, <2>1, <3>1, <3>2 DEF HangUp, TypeOK, picture, service
  <2>2. CASE ~room[s]
    BY <1>4, <2>2, EndsTyped DEF HangUp
  <2> QED
    BY <2>1, <2>2
<1>5. ASSUME NEW s \in Screen, Refuse(s) PROVE TypeOK'
  <2>1. inbox' \in [Screen -> Seq(Event)]
    BY <1>0, <1>5, Told, Naming
  <2> QED
    BY <1>5, <2>1, FrontKept DEF Refuse, TypeOK, device, picture
<1>6. ASSUME NEW o \in Participant, Accept(o) PROVE TypeOK'
  <2>1. inbox' \in [Screen -> Seq(Event)]
    BY <1>0, <1>6, Told
  <2> QED
    BY <1>6, <2>1, FrontKept DEF Accept, TypeOK, device, picture
<1>7. ASSUME NEW o \in Participant, Drop(o) PROVE TypeOK'
  <2>1. inbox' \in [Screen -> Seq(Event)]
    BY <1>0, <1>7, Told
  <2> QED
    BY <1>7, <2>1, FrontKept DEF Drop, TypeOK, device, picture
<1>8. ASSUME NEW o \in Participant, NEW s \in Screen, Subscribe(s, o) PROVE TypeOK'
  <2>1. inbox' \in [Screen -> Seq(Event)]
    BY <1>0, <1>8, Told
  <2> QED
    BY <1>8, <2>1, FrontKept DEF Subscribe, TypeOK, device, picture, service
<1>9. ASSUME NEW s \in Screen, Delegates(s) PROVE TypeOK'
  <2>1. ASSUME inbox[s] # << >>, Takes(s)
        PROVE  /\ inbox' \in [Screen -> Seq(Event)] /\ Who(s) \in Participant \cup {None}
               /\ Head(inbox[s]).kind = "subscribed" => Who(s) \in Participant
    <3>1. inbox' \in [Screen -> Seq(Event)] /\ Head(inbox[s]) \in Event
      BY <2>1, Taken
    <3> QED
      BY <3>1 DEF Who, Event
  <2>2. CASE DidConnect(s)
    BY <2>1, <2>2, FrontKept DEF DidConnect, Delegate, Called, TypeOK, device, service
  <2>3. CASE ParticipantDidConnect(s)
    BY <2>1, <2>3, FrontKept DEF ParticipantDidConnect, Delegate, Called, TypeOK, device, service
  <2>4. CASE Subscribed(s)
    BY <2>1, <2>4, FrontKept DEF Subscribed, Delegate, Called, TypeOK, device, service
  <2>5. CASE Unsubscribed(s)
    <3>1. CASE ProcessEnds("trapped")
      BY <3>1, EndsTyped
    <3>2. CASE ~ProcessEnds("trapped")
      <4>1. inbox' \in [Screen -> Seq(Event)] /\ UNCHANGED <<place, room, shown, link, crowded>>
        BY <2>1, <2>5, <3>2 DEF Unsubscribed, Called, device, service
      <4>2. view' \in [Screen -> Participant \cup {None}]
        BY <2>5, <3>2, FrontKept DEF Unsubscribed, TypeOK
      <4>3. tracks' \in [Screen -> SUBSET Participant]
        BY <2>5, <3>2, FrontKept DEF Unsubscribed, TypeOK
      <4> QED
        BY <4>1, <4>2, <4>3, FrontKept DEF TypeOK
    <3> QED
      BY <3>1, <3>2
  <2>6. CASE ParticipantDidDisconnect(s)
    <3>1. CASE ProcessEnds("trapped")
      BY <3>1, EndsTyped
    <3>2. CASE ~ProcessEnds("trapped")
      <4>1. inbox' \in [Screen -> Seq(Event)] /\ UNCHANGED <<place, link, crowded>>
        BY <2>1, <2>6, <3>2 DEF ParticipantDidDisconnect, Cleanup, Called, device, service
      <4>2. room' \in [Screen -> BOOLEAN]
        BY <2>6, <3>2, FrontKept DEF ParticipantDidDisconnect, Cleanup, device, TypeOK
      <4>3. /\ shown' \in [Screen -> Participant \cup {None}]
            /\ view' \in [Screen -> Participant \cup {None}]
        BY <2>6, <3>2, FrontKept DEF ParticipantDidDisconnect, Cleanup, TypeOK
      <4>4. tracks' \in [Screen -> SUBSET Participant]
        BY <2>6, <3>2, FrontKept DEF ParticipantDidDisconnect, Cleanup, TypeOK
      <4> QED
        BY <4>1, <4>2, <4>3, <4>4, FrontKept DEF TypeOK
    <3> QED
      BY <3>1, <3>2
  <2>7. CASE DidDisconnect(s)
    <3>1. CASE ProcessEnds("trapped")
      BY <3>1, EndsTyped
    <3>2. CASE ~ProcessEnds("trapped")
      <4>1. inbox' \in [Screen -> Seq(Event)] /\ UNCHANGED <<place, link, crowded>>
        BY <2>1, <2>7, <3>2 DEF DidDisconnect, Cleanup, Called, service
      <4>2. room' \in [Screen -> BOOLEAN]
        BY <2>7, <3>2, FrontKept DEF DidDisconnect, Cleanup, TypeOK
      <4>3. /\ shown' \in [Screen -> Participant \cup {None}]
            /\ view' \in [Screen -> Participant \cup {None}]
        BY <2>7, <3>2, FrontKept DEF DidDisconnect, Cleanup, TypeOK
      <4>4. tracks' \in [Screen -> SUBSET Participant]
        <5>1. tracks' = [tracks EXCEPT ![s] = @ \ Participant]
          BY <2>7, <3>2 DEF DidDisconnect, Cleanup
        <5> QED
          BY <5>1, FrontKept DEF TypeOK
      <4> QED
        BY <4>1, <4>2, <4>3, <4>4, FrontKept DEF TypeOK
    <3> QED
      BY <3>1, <3>2
  <2>8. CASE DidFailToConnect(s)
    BY <2>1, <2>8, FrontKept DEF DidFailToConnect, Delegate, Called, TypeOK, picture, service
  <2> QED
    BY <1>9, <2>2, <2>3, <2>4, <2>5, <2>6, <2>7, <2>8 DEF Delegates
<1>10. CASE UNCHANGED vars
  BY <1>10, FrontKept DEF vars, device, picture, service, TypeOK
<1> QED
  BY <1>1, <1>2, <1>3, <1>4, <1>5, <1>6, <1>7, <1>8, <1>9, <1>10, <1>11 DEF Next

(* Every reachable state has its type, for any number of screens and peers *)
(* of VideoViewController: of the screens that are open together the user  *)
(* sees one, and what is beneath it was pushed by a chat.                  *)
THEOREM Typed == Spec => []TypeOK
BY TypeInit, TypeNext, PTL DEF Spec

(***************************************************************************)
(* The inductive invariant says of each screen:                            *)
(***************************************************************************)
Kind(s, i) == inbox[s][i].kind
Whom(s, i) == inbox[s][i].who
Calls(s)   == 1 .. Len(inbox[s])

\* What it is before its connection is answered, and after its process.
Placed(s) ==
  /\ place[s] = "unborn" <=> link[s] = "none"
  /\ Alive(s) /\ ~room[s] => link[s] = "out"
  /\ ~Alive(s) \/ link[s] \in {"none", "asked"} =>
       inbox[s] = << >> /\ shown[s] = None /\ view[s] = None /\ tracks[s] = {}

\* The conjunct of ViewIsOfShown.
Rendered(s) == view[s] = IF shown[s] \in tracks[s] THEN shown[s] ELSE None

\* It is not told of a participant that has not come, nor that one has gone who
\* has not.
Known(s) ==
  /\ \A o \in tracks[s] : link[o] \in {"in", "out"}
  /\ shown[s] # None => link[shown[s]] \in {"in", "out"}
  /\ \A i \in Calls(s) :
       /\ Whom(s, i) # None => link[Whom(s, i)] \in {"in", "out"}
       /\ Kind(s, i) \in {"left", "unsubscribed"} => link[Whom(s, i)] = "out"

\* The end of its connection is the last call, and is sure to come.
Ends(s) ==
  /\ \A i \in Calls(s) :
       /\ Kind(s, i) \in {"ended", "failed"} => i = Len(inbox[s]) /\ link[s] = "out"
       /\ Kind(s, i) = "failed" => i = 1 /\ shown[s] = None
  /\ link[s] = "out" /\ inbox[s] # << >> =>
       Kind(s, Len(inbox[s])) \in {"ended", "failed"}
  /\ link[s] = "out" /\ shown[s] # None => inbox[s] # << >>

\* The order of the calls about one participant.
OrderAt(s, i) ==
  /\ Kind(s, i) = "connected" => i = 1 /\ shown[s] = None /\ tracks[s] = {}
  /\ Kind(s, i) = "joined" =>
       /\ Whom(s, i) \notin tracks[s]
       /\ \A j \in 1 .. i : ~(Kind(s, j) = "subscribed" /\ Whom(s, j) = Whom(s, i))
  /\ Kind(s, i) = "unsubscribed" =>
       /\ \/ Whom(s, i) \in tracks[s]
          \/ \E j \in 1 .. i : Kind(s, j) = "subscribed" /\ Whom(s, j) = Whom(s, i)
       /\ \A j \in 1 .. (i - 1) :
            ~(Kind(s, j) \in {"left", "unsubscribed"} /\ Whom(s, j) = Whom(s, i))

Order(s) == \A i \in Calls(s) : OrderAt(s, i)

\* Whoever it shows, or is yet to show, has a call behind that takes him off.
Goes(s, o, i) ==
  \E j \in Calls(s) :
    i < j /\ (Kind(s, j) = "ended" \/ (Kind(s, j) = "left" /\ Whom(s, j) = o))

Announced(s) ==
  /\ shown[s] # None /\ link[shown[s]] # "in" => Goes(s, shown[s], 0)
  /\ \A i \in Calls(s) :
       Kind(s, i) \in {"connected", "joined"} /\ Whom(s, i) # None
         /\ link[Whom(s, i)] # "in" => Goes(s, Whom(s, i), i)

Fine(s) ==
  Placed(s) /\ Rendered(s) /\ Known(s) /\ Ends(s) /\ Order(s) /\ Announced(s)

IInv == TypeOK /\ \A s \in Screen : Fine(s)

LEMMA WhomTyped ==
  ASSUME TypeOK, NEW s \in Screen, NEW i \in Calls(s)
  PROVE  /\ Whom(s, i) \in Participant \cup {None}
         /\ Kind(s, i) \in {"joined", "left", "subscribed", "unsubscribed"} =>
              Whom(s, i) # None
<1>1. inbox[s][i] \in Event
  BY DEF TypeOK, Calls
<1> QED
  BY <1>1, Naming DEF Event, Kind, Whom

LEMMA IInit == Init => IInv
<1> SUFFICES ASSUME Init PROVE IInv
  OBVIOUS
<1>1. TypeOK
  BY TypeInit
<1>2. ASSUME NEW s \in Screen PROVE Fine(s)
  <2>1. /\ inbox[s] = << >> /\ shown[s] = None /\ view[s] = None /\ tracks[s] = {}
        /\ place[s] = "unborn" /\ link[s] = "none"
    BY Naming DEF Init
  <2>2. Calls(s) = {} /\ ~Alive(s)
    BY <2>1 DEF Calls, Alive
  <2>3. Placed(s) /\ Rendered(s)
    BY <2>1, <2>2 DEF Placed, Rendered
  <2>4. Known(s) /\ Ends(s) /\ Order(s) /\ Announced(s)
    BY <2>1, <2>2 DEF Known, Ends, Order, Announced
  <2> QED
    BY <2>3, <2>4 DEF Fine
<1> QED
  BY <1>1, <1>2 DEF IInv

(* A screen that nothing is told stays as it is, whoever comes in and      *)
(* whatever covers or uncovers it.                                         *)
LEMMA Untouched ==
  ASSUME IInv, NEW s \in Screen, inbox'[s] = inbox[s], shown'[s] = shown[s],
         view'[s] = view[s], tracks'[s] = tracks[s], room'[s] = room[s],
         place'[s] = "unborn" <=> place[s] = "unborn", Alive(s)' <=> Alive(s),
         link'[s] = link[s],
         \A o \in Participant : link[o] \in {"in", "out"} => link'[o] = link[o]
  PROVE  Fine(s)'
<1>1. /\ Calls(s)' = Calls(s) /\ (Alive(s)' <=> Alive(s))
      /\ \A i \in Calls(s) : Kind(s, i)' = Kind(s, i) /\ Whom(s, i)' = Whom(s, i)
  BY DEF Calls, Kind, Whom
<1>2. Fine(s) /\ TypeOK
  BY DEF IInv
<1>3. \A i \in Calls(s) : Whom(s, i) \in Participant \cup {None}
  BY <1>2, WhomTyped
<1>4. shown[s] \in Participant \cup {None} /\ tracks[s] \subseteq Participant
  BY <1>2 DEF TypeOK
<1>5. \A o \in Participant : link[o] \in {"in", "out"} => link'[o] = link[o]
  OBVIOUS
<1>6. /\ shown[s] # None => link'[shown[s]] = link[shown[s]]
      /\ \A o \in tracks[s] : link'[o] = link[o]
      /\ \A i \in Calls(s) : Whom(s, i) # None => link'[Whom(s, i)] = link[Whom(s, i)]
  BY <1>2, <1>3, <1>4, <1>5 DEF Fine, Known
<1>7. Placed(s)' /\ Rendered(s)'
  BY <1>1, <1>2 DEF Fine, Placed, Rendered
<1>8. Known(s)'
  <2>1. \A i \in Calls(s) : Kind(s, i) \in {"left", "unsubscribed"} => Whom(s, i) # None
    BY <1>2, WhomTyped
  <2> QED
    BY <1>2, <1>6, <2>1 DEF Fine, Known, Calls, Kind, Whom
<1>9. Ends(s)'
  BY <1>1, <1>2 DEF Fine, Ends, Kind
<1>10. Order(s)'
  BY <1>2 DEF Fine, Order, OrderAt, Calls, Kind, Whom
<1>11. Announced(s)'
  <2>1. \A o, i : Goes(s, o, i)' <=> Goes(s, o, i)
    BY DEF Goes, Calls, Kind, Whom
  <2> QED
    BY <1>1, <1>2, <1>6, <2>1 DEF Fine, Announced
<1> QED
  BY <1>7, <1>8, <1>9, <1>10, <1>11 DEF Fine

LEMMA Unmoved ==
  ASSUME IInv, NEW s \in Screen, inbox'[s] = inbox[s], shown'[s] = shown[s],
         view'[s] = view[s], tracks'[s] = tracks[s], room'[s] = room[s],
         place'[s] = place[s], link'[s] = link[s],
         \A o \in Participant : link[o] \in {"in", "out"} => link'[o] = link[o]
  PROVE  Fine(s)'
<1>1. (place'[s] = "unborn" <=> place[s] = "unborn") /\ (Alive(s)' <=> Alive(s))
  BY DEF Alive
<1> QED
  BY <1>1, Untouched

(* The user's steps let every other screen live that lives.                *)
LEMMA OthersLive ==
  ASSUME TypeOK, NEW s \in Screen, Open(s) \/ Back(s) \/ Dismiss(s) \/ HangUp(s),
         ~ProcessEnds("trapped"), NEW t \in Screen \ {s}
  PROVE  (place'[t] = "unborn" <=> place[t] = "unborn") /\ (Alive(t)' <=> Alive(t))
<1>1. CASE Open(s)
  BY <1>1 DEF Open, Alive, TypeOK
<1>2. CASE Back(s) \/ Dismiss(s)
  BY <1>2 DEF Back, Dismiss, Alive, TypeOK
<1>3. CASE HangUp(s)
  BY <1>3 DEF HangUp, Alive, TypeOK
<1> QED
  BY <1>1, <1>2, <1>3

(* What is added after a call does not change its order.                   *)
LEMMA OrderStays ==
  ASSUME NEW s \in Screen, Len(inbox[s]) \in Nat, Order(s), NEW i \in 1 .. Len(inbox[s]),
         \A j \in 1 .. Len(inbox[s]) : inbox'[s][j] = inbox[s][j],
         shown'[s] = shown[s], tracks'[s] = tracks[s]
  PROVE  OrderAt(s, i)'
<1>1. \A j \in 1 .. i : inbox'[s][j] = inbox[s][j]
  OBVIOUS
<1>2. OrderAt(s, i) /\ \A j \in 1 .. (i - 1) : j \in 1 .. i
  BY DEF Order, Calls
<1> QED
  BY <1>1, <1>2 DEF OrderAt, Kind, Whom

(* The end of the process leaves nothing to be wrong about.                *)
LEMMA EndsKeepInv ==
  ASSUME IInv, NEW how \in {"killed", "trapped"}, ProcessEnds(how) PROVE IInv'
<1>1. TypeOK'
  BY EndsTyped DEF IInv
<1>2. ASSUME NEW s \in Screen PROVE Fine(s)'
  <2>1. /\ inbox'[s] = << >> /\ shown'[s] = None /\ view'[s] = None /\ tracks'[s] = {}
        /\ place'[s] = (IF Alive(s) THEN how ELSE place[s]) /\ link' = link
    BY DEF ProcessEnds, service
  <2>2. Calls(s)' = {} /\ ~Alive(s)' /\ (place'[s] = "unborn" <=> place[s] = "unborn")
    BY <2>1 DEF Calls, Alive
  <2>3. Placed(s)' /\ Rendered(s)'
    BY <2>1, <2>2 DEF IInv, Fine, Placed, Rendered
  <2>4. Known(s)' /\ Ends(s)' /\ Order(s)' /\ Announced(s)'
    BY <2>1, <2>2 DEF Known, Ends, Order, Announced
  <2> QED
    BY <2>3, <2>4 DEF Fine
<1> QED
  BY <1>1, <1>2 DEF IInv

(* So do the steps of the user.                                            *)
LEMMA UserKeepsInv ==
  ASSUME IInv, NEW s \in Screen, Open(s) \/ Back(s) \/ Dismiss(s) \/ HangUp(s) PROVE IInv'
<1>1. TypeOK'
  BY TypeNext DEF IInv, Next
<1>2. CASE ProcessEnds("trapped")
  BY <1>2, EndsKeepInv
<1>3. CASE ~ProcessEnds("trapped")
  <2>1. /\ UNCHANGED <<shown, view, tracks, inbox>>
        /\ \A t \in Screen \ {s} : room'[t] = room[t]
    BY <1>3 DEF Open, Back, Dismiss, HangUp, picture, IInv, TypeOK
  <2>2. /\ \A o \in Participant : link[o] \in {"in", "out"} => link'[o] = link[o]
        /\ \A t \in Screen \ {s} : link'[t] = link[t]
    BY <1>3, Naming DEF Open, Back, Dismiss, HangUp, service, IInv, TypeOK, Fine, Placed
  <2>3. ASSUME NEW t \in Screen \ {s} PROVE Fine(t)'
    BY <1>3, <2>1, <2>2, OthersLive, Untouched DEF IInv
  <2>4. CASE Back(s) \/ Dismiss(s) \/ HangUp(s)
    <3>1. /\ place[s] = "front" /\ place'[s] \in {"left", "hungUp"}
          /\ UNCHANGED <<link, room>>
      BY <1>3, <2>4 DEF Back, Dismiss, HangUp, picture, service, IInv, TypeOK
    <3>2. Placed(s)'
      BY <2>1, <3>1 DEF IInv, Fine, Placed, Alive
    <3>3. Rendered(s)' /\ Known(s)' /\ Ends(s)'
      BY <2>1, <3>1 DEF IInv, Fine, Rendered, Known, Ends, Calls, Kind, Whom
    <3>4. Order(s)' /\ Announced(s)'
      BY <2>1, <3>1 DEF IInv, Fine, Order, OrderAt, Announced, Goes, Calls, Kind, Whom
    <3> QED
      BY <1>1, <2>3, <3>2, <3>3, <3>4 DEF IInv, Fine
  <2>5. CASE Open(s)
    <3>1. /\ place[s] = "unborn" /\ place'[s] = "front" /\ link'[s] = "asked" /\ room'[s]
      BY <2>5, Naming DEF Open, IInv, TypeOK
    <3>2. inbox[s] = << >> /\ shown[s] = None /\ view[s] = None /\ tracks[s] = {}
      BY <3>1 DEF IInv, Fine, Placed, Alive
    <3>3. Calls(s)' = {}
      BY <2>1, <3>2 DEF Calls
    <3>4. Placed(s)' /\ Rendered(s)'
      BY <2>1, <3>1, <3>2 DEF Placed, Rendered, Alive
    <3>5. Known(s)' /\ Ends(s)' /\ Order(s)' /\ Announced(s)'
      BY <2>1, <3>1, <3>2, <3>3 DEF Known, Ends, Order, Announced
    <3> QED
      BY <1>1, <2>3, <3>4, <3>5 DEF IInv, Fine
  <2> QED
    BY <2>4, <2>5
<1> QED
  BY <1>2, <1>3

(***************************************************************************)
(* The service's steps add calls.  A screen that is told one more call is  *)
(* left as it was before it:                                               *)
(***************************************************************************)
LEMMA OneMore ==
  ASSUME TypeOK, NEW calls \in [Screen -> Seq(Event)], Tells(calls),
         NEW s \in Screen, Alive(s), NEW e \in Event, calls[s] = <<e>>
  PROVE  /\ Len(inbox[s]) \in Nat /\ Len(inbox'[s]) = Len(inbox[s]) + 1
         /\ \A i \in 1 .. Len(inbox[s]) : inbox'[s][i] = inbox[s][i]
         /\ inbox'[s][Len(inbox[s]) + 1] = e
<1>1. Len(calls[s]) = 1 /\ calls[s][1] = e
  OBVIOUS
<1>2. /\ Len(inbox[s]) \in Nat /\ Len(inbox'[s]) = Len(inbox[s]) + Len(calls[s])
      /\ \A i \in 1 .. Len(inbox[s]) : inbox'[s][i] = inbox[s][i]
      /\ \A i \in 1 .. Len(calls[s]) : inbox'[s][Len(inbox[s]) + i] = calls[s][i]
  BY Added
<1>3. inbox'[s][Len(inbox[s]) + 1] = e
  BY <1>1, <1>2
<1> QED
  BY <1>1, <1>2, <1>3

LEMMA Untold ==
  ASSUME TypeOK, NEW calls \in [Screen -> Seq(Event)], Tells(calls),
         NEW s \in Screen, ~Alive(s) \/ calls[s] = << >>
  PROVE  inbox'[s] = inbox[s]
BY Added

LEMMA RefuseKeepsInv == ASSUME IInv, NEW s \in Screen, Refuse(s) PROVE IInv'
<1>1. TypeOK'
  BY TypeNext DEF IInv, Next
<1> DEFINE calls == [t \in Screen |-> IF t = s THEN <<Call("failed", None)>> ELSE << >>]
<1>2. calls \in [Screen -> Seq(Event)] /\ Tells(calls)
  BY CallsAreEvents DEF Refuse
<1>3. calls[s] = <<Call("failed", None)>> /\ \A t \in Screen \ {s} : calls[t] = << >>
  OBVIOUS
<1> HIDE DEF calls
<1>4. /\ \A o \in Participant : link[o] \in {"in", "out"} => link'[o] = link[o]
      /\ \A t \in Screen \ {s} : link'[t] = link[t]
      /\ link[s] = "asked" /\ link'[s] = "out"
      /\ UNCHANGED <<place, room, shown, view, tracks>>
  BY Naming DEF Refuse, device, picture, IInv, TypeOK
<1>5. ASSUME NEW t \in Screen \ {s} PROVE Fine(t)'
  BY <1>2, <1>3, <1>4, Untold, Unmoved DEF IInv
<1>6. inbox[s] = << >> /\ shown[s] = None /\ tracks[s] = {} /\ view[s] = None
  BY <1>4 DEF IInv, Fine, Placed
<1>7. CASE Alive(s)
  <2>1. Call("failed", None) \in Event
    BY DEF Call, Event
  <2>2. Len(inbox'[s]) = 1 /\ inbox'[s][1] = Call("failed", None)
    <3>1. Len(inbox[s]) = 0
      BY <1>6
    <3>2. /\ Len(inbox'[s]) = Len(inbox[s]) + 1
          /\ inbox'[s][Len(inbox[s]) + 1] = Call("failed", None)
      BY <1>2, <1>3, <1>7, <2>1, OneMore DEF IInv
    <3> QED
      BY <3>1, <3>2
  <2>6. inbox'[s][1].kind = "failed" /\ inbox'[s][1].who = None /\ 1 .. 1 = {1}
    BY <2>2 DEF Call
  <2>3. Placed(s)' /\ Rendered(s)'
    BY <1>4, <1>6, <1>7 DEF IInv, Fine, Placed, Rendered, Alive
  <2>4. Known(s)' /\ Ends(s)'
    BY <1>4, <1>6, <2>2, <2>6 DEF Known, Ends, Calls, Kind, Whom
  <2>5. Order(s)' /\ Announced(s)'
    BY <1>4, <1>6, <2>2, <2>6 DEF Order, OrderAt, Announced, Calls, Kind, Whom
  <2> QED
    BY <1>1, <1>5, <2>3, <2>4, <2>5 DEF IInv, Fine
<1>8. CASE ~Alive(s)
  <2>1. inbox'[s] = << >>
    BY <1>2, <1>6, <1>8, Untold DEF IInv
  <2>2. Calls(s)' = {}
    BY <2>1 DEF Calls
  <2>3. Placed(s)' /\ Rendered(s)'
    BY <1>4, <1>6, <1>8, <2>1 DEF IInv, Fine, Placed, Rendered, Alive
  <2>4. Known(s)' /\ Ends(s)' /\ Order(s)' /\ Announced(s)'
    BY <1>4, <1>6, <2>1, <2>2 DEF Known, Ends, Order, Announced
  <2> QED
    BY <1>1, <1>5, <2>3, <2>4 DEF IInv, Fine
<1> QED
  BY <1>7, <1>8

LEMMA SubscribeKeepsInv ==
  ASSUME IInv, NEW s \in Screen, NEW o \in Participant, Subscribe(s, o) PROVE IInv'
<1>1. TypeOK'
  BY TypeNext DEF IInv, Next
<1> DEFINE calls == [t \in Screen |-> IF t = s THEN <<Call("subscribed", o)>> ELSE << >>]
<1>2. calls \in [Screen -> Seq(Event)] /\ Tells(calls)
  BY CallsAreEvents DEF Subscribe
<1>3. calls[s] = <<Call("subscribed", o)>> /\ \A t \in Screen \ {s} : calls[t] = << >>
  OBVIOUS
<1> HIDE DEF calls
<1>4. /\ UNCHANGED <<place, room, shown, view, tracks, link>>
      /\ link[s] = "in" /\ link[o] = "in" /\ Alive(s) /\ o # None
  BY Naming DEF Subscribe, device, picture, service, Members
<1>5. ASSUME NEW t \in Screen \ {s} PROVE Fine(t)'
  BY <1>2, <1>3, <1>4, Untold, Unmoved DEF IInv
<1> DEFINE n == Len(inbox[s])
<1>6. /\ n \in Nat /\ Len(inbox'[s]) = n + 1
      /\ \A i \in 1 .. n : inbox'[s][i] = inbox[s][i]
      /\ inbox'[s][n + 1] = Call("subscribed", o)
  <2>1. Call("subscribed", o) \in Event
    BY DEF Call, Event
  <2> QED
    BY <1>2, <1>3, <1>4, <2>1, OneMore DEF IInv
<1>7. /\ Fine(s) /\ Len(inbox[s]) = n
      /\ inbox'[s][n + 1].kind = "subscribed" /\ inbox'[s][n + 1].who = o
      /\ \A i \in 1 .. (n + 1) : i \in 1 .. n \/ i = n + 1
  BY <1>6 DEF IInv, Call
<1> HIDE DEF n
<1>8. Placed(s)' /\ Rendered(s)'
  BY <1>4, <1>7 DEF Fine, Placed, Rendered, Alive
<1>9. Known(s)' /\ Ends(s)'
  BY SMTT(30), <1>4, <1>6, <1>7 DEF Fine, Known, Ends, Calls, Kind, Whom
<1>10. Order(s)'
  <2> SUFFICES ASSUME NEW i \in 1 .. (n + 1) PROVE OrderAt(s, i)'
    BY <1>6 DEF Order, Calls
  <2>1. CASE i \in 1 .. n
    BY <1>4, <1>6, <1>7, <2>1, OrderStays DEF Fine
  <2>2. CASE i = n + 1
    BY <1>7, <2>2 DEF OrderAt, Kind
  <2> QED
    BY <1>7, <2>1, <2>2
<1>11. Announced(s)'
  BY SMTT(30), <1>4, <1>6, <1>7 DEF Fine, Announced, Goes, Calls, Kind, Whom
<1> QED
  BY <1>1, <1>5, <1>8, <1>9, <1>10, <1>11 DEF IInv, Fine

LEMMA AcceptKeepsInv == ASSUME IInv, NEW o \in Participant, Accept(o) PROVE IInv'
<1>1. TypeOK'
  BY TypeNext DEF IInv, Next
<1> PICK first \in (IF Members = {} THEN {None} ELSE Members) :
      Tells([s \in Screen |-> IF s = o THEN <<Call("connected", first)>>
                              ELSE IF s \in Members THEN <<Call("joined", o)>>
                              ELSE << >>])
  BY DEF Accept
<1> DEFINE calls == [s \in Screen |-> IF s = o THEN <<Call("connected", first)>>
                                      ELSE IF s \in Members THEN <<Call("joined", o)>>
                                      ELSE << >>]
<1>2. /\ first \in Participant \cup {None}
      /\ first # None => link[first] = "in" /\ first # o
  BY Naming DEF Members, Accept
<1>3. calls \in [Screen -> Seq(Event)] /\ Tells(calls)
  BY <1>2, CallsAreEvents
<1>4. \A s \in Screen :
        /\ s = o => calls[s] = <<Call("connected", first)>>
        /\ s # o /\ link[s] = "in" => calls[s] = <<Call("joined", o)>>
        /\ s # o /\ link[s] # "in" => calls[s] = << >>
  BY Naming DEF Members
<1>5. Call("connected", first) \in Event /\ Call("joined", o) \in Event
  BY <1>2 DEF Call, Event
<1> HIDE DEF calls
<1>6. /\ \A p \in Participant : link[p] \in {"in", "out"} => link'[p] = link[p]
      /\ \A p \in Participant \ {o} : link'[p] = link[p]
      /\ link[o] \in {"none", "asked"} /\ link'[o] = "in"
      /\ UNCHANGED <<place, room, shown, view, tracks>>
  BY DEF Accept, device, picture, IInv, TypeOK
<1>7. ASSUME NEW s \in Screen, s # o, ~Alive(s) \/ link[s] # "in" PROVE Fine(s)'
  BY <1>3, <1>4, <1>6, <1>7, Untold, Unmoved, Naming DEF IInv
<1>8. ASSUME NEW s \in Screen, s # o, Alive(s), link[s] = "in" PROVE Fine(s)'
  <2> DEFINE n == Len(inbox[s])
  <2>1. /\ n \in Nat /\ Len(inbox'[s]) = n + 1
        /\ \A i \in 1 .. n : inbox'[s][i] = inbox[s][i]
        /\ inbox'[s][n + 1] = Call("joined", o)
    BY <1>3, <1>4, <1>5, <1>8, OneMore DEF IInv
  <2>2. /\ Fine(s) /\ Len(inbox[s]) = n
        /\ inbox'[s][n + 1].kind = "joined" /\ inbox'[s][n + 1].who = o
        /\ \A i \in 1 .. (n + 1) : i \in 1 .. n \/ i = n + 1
    BY <2>1 DEF IInv, Call
  <2> HIDE DEF n
  <2>3. link'[s] = "in" /\ o # None /\ link[o] # "in" /\ link[o] # "out"
    BY <1>6, <1>8, Naming
  <2>4. /\ \A i \in 1 .. n : Whom(s, i) # None => link'[Whom(s, i)] = link[Whom(s, i)]
        /\ shown[s] # None => link'[shown[s]] = link[shown[s]]
        /\ \A p \in tracks[s] : link'[p] = link[p]
    <3>1. \A i \in 1 .. n : Whom(s, i) \in Participant \cup {None}
      BY <2>2, WhomTyped DEF IInv, Calls
    <3> QED
      BY <1>6, <2>2, <3>1 DEF Fine, Known, Calls, IInv, TypeOK
  <2>5. Placed(s)' /\ Rendered(s)'
    BY <1>6, <1>8, <2>2, <2>3 DEF Fine, Placed, Rendered, Alive
  <2>6. Known(s)'
    <3> SUFFICES ASSUME NEW i \in 1 .. (n + 1)
                 PROVE  /\ inbox'[s][i].who # None =>
                             link'[inbox'[s][i].who] \in {"in", "out"}
                        /\ inbox'[s][i].kind \in {"left", "unsubscribed"} =>
                             link'[inbox'[s][i].who] = "out"
      BY <1>6, <2>1, <2>2, <2>4 DEF Fine, Known, Calls, Kind, Whom
    <3>1. CASE i \in 1 .. n
      <4>1. Kind(s, i) \in {"left", "unsubscribed"} => Whom(s, i) # None
        BY <2>2, <3>1, WhomTyped DEF IInv, Calls
      <4> QED
        BY <2>1, <2>2, <2>4, <3>1, <4>1 DEF Fine, Known, Calls, Kind, Whom
    <3>2. CASE i = n + 1
      BY <1>6, <2>2, <3>2
    <3> QED
      BY <2>2, <3>1, <3>2
  <2>7. Ends(s)'
    BY <1>6, <1>8, <2>1, <2>2, <2>3 DEF Fine, Ends, Calls, Kind, Whom
  <2>8. Order(s)'
    <3> SUFFICES ASSUME NEW i \in 1 .. (n + 1) PROVE OrderAt(s, i)'
      BY <2>1 DEF Order, Calls
    <3>1. CASE i \in 1 .. n
      BY <1>6, <2>1, <2>2, <3>1, OrderStays DEF Fine
    <3>2. CASE i = n + 1
      <4>1. o \notin tracks[s] /\ \A j \in 1 .. n : inbox[s][j].who # o
        BY <2>2, <2>3 DEF Fine, Known, Calls, Whom
      <4>2. \A j \in 1 .. n : inbox'[s][j].who # o
        BY <2>1, <4>1
      <4>3. \A j \in 1 .. i : ~(inbox'[s][j].kind = "subscribed" /\ inbox'[s][j].who = o)
        BY <2>2, <3>2, <4>2
      <4> QED
        BY <1>6, <2>2, <3>2, <4>1, <4>3 DEF OrderAt, Kind, Whom
    <3> QED
      BY <2>2, <3>1, <3>2
  <2>9. Announced(s)'
    <3> DEFINE Later(p, i) == \E j \in 1 .. (n + 1) :
                 i < j /\ \/ inbox'[s][j].kind = "ended"
                          \/ inbox'[s][j].kind = "left" /\ inbox'[s][j].who = p
    <3>1. ASSUME NEW p, NEW i \in Nat, Goes(s, p, i) PROVE Later(p, i)
      BY <2>1, <2>2, <3>1 DEF Goes, Calls, Kind, Whom
    <3>2. shown[s] # None /\ link'[shown[s]] # "in" => Later(shown[s], 0)
      BY <2>2, <2>4, <3>1 DEF Fine, Announced
    <3>3. ASSUME NEW i \in 1 .. (n + 1), inbox'[s][i].kind \in {"connected", "joined"},
                 inbox'[s][i].who # None, link'[inbox'[s][i].who] # "in"
          PROVE  Later(inbox'[s][i].who, i)
      <4>1. i \in 1 .. n /\ i \in Nat /\ inbox'[s][i] = inbox[s][i]
        BY <1>6, <2>1, <2>2, <3>3
      <4>2. Goes(s, inbox[s][i].who, i)
        BY <2>2, <2>4, <3>3, <4>1 DEF Fine, Announced, Calls, Kind, Whom
      <4> QED
        BY <3>1, <4>1, <4>2
    <3> QED
      BY <1>6, <2>1, <3>2, <3>3 DEF Announced, Goes, Calls, Kind, Whom
  <2> QED
    BY <2>5, <2>6, <2>7, <2>8, <2>9 DEF Fine
<1>9. ASSUME o \in Screen PROVE Fine(o)'
  <2>1. /\ link[o] \in {"none", "asked"} /\ o \notin Peer
        /\ link[o] = "asked" /\ place[o] # "unborn"
        /\ inbox[o] = << >> /\ shown[o] = None /\ view[o] = None /\ tracks[o] = {}
    BY <1>6, <1>9, Naming DEF IInv, Fine, Placed, Accept
  <2>2. Placed(o)' /\ Rendered(o)'
    <3>1. ~Alive(o) => inbox'[o] = << >>
      BY <1>3, <1>9, <2>1, Untold DEF IInv
    <3> QED
      BY <1>6, <1>9, <2>1, <3>1 DEF IInv, Fine, Placed, Rendered, Alive
  <2>3. CASE Alive(o)
    <3>1. Len(inbox[o]) = 0
      BY <2>1
    <3>2. /\ Len(inbox'[o]) = Len(inbox[o]) + 1
          /\ inbox'[o][Len(inbox[o]) + 1] = Call("connected", first)
      BY <1>3, <1>4, <1>5, <1>9, <2>3, OneMore DEF IInv
    <3>3. /\ Len(inbox'[o]) = 1 /\ 1 .. 1 = {1}
          /\ inbox'[o][1].kind = "connected" /\ inbox'[o][1].who = first
      BY <3>1, <3>2 DEF Call
    <3>4. first # None => link'[first] = "in"
      BY <1>2, <1>6
    <3>5. Known(o)' /\ Ends(o)'
      BY <1>6, <2>1, <3>3, <3>4 DEF Known, Ends, Calls, Kind, Whom
    <3>6. Order(o)' /\ Announced(o)'
      BY <1>6, <2>1, <3>3, <3>4 DEF Order, OrderAt, Announced, Calls, Kind, Whom
    <3> QED
      BY <2>2, <3>5, <3>6 DEF Fine
  <2>4. CASE ~Alive(o)
    <3>1. inbox'[o] = << >>
      BY <1>3, <1>9, <2>1, <2>4, Untold DEF IInv
    <3>2. Calls(o)' = {}
      BY <3>1 DEF Calls
    <3>3. Known(o)' /\ Ends(o)' /\ Order(o)' /\ Announced(o)'
      BY <1>6, <2>1, <3>1, <3>2 DEF Known, Ends, Order, Announced
    <3> QED
      BY <2>2, <3>3 DEF Fine
  <2> QED
    BY <2>3, <2>4
<1> QED
  BY <1>1, <1>7, <1>8, <1>9 DEF IInv

LEMMA DropKeepsInv == ASSUME IInv, NEW o \in Participant, Drop(o) PROVE IInv'
<1>1. TypeOK'
  BY TypeNext DEF IInv, Next
<1> PICK apart \in BOOLEAN :
      Tells([s \in Screen |->
        IF s = o THEN <<Call("ended", None)>>
        ELSE IF s \notin Members THEN << >>
        ELSE (IF apart /\ Sent(s, o) THEN <<Call("unsubscribed", o)>> ELSE << >>)
             \o <<Call("left", o)>>])
  BY DEF Drop
<1> DEFINE news(s) == (IF apart /\ Sent(s, o) THEN <<Call("unsubscribed", o)>> ELSE << >>)
                      \o <<Call("left", o)>>
           calls == [s \in Screen |-> IF s = o THEN <<Call("ended", None)>>
                                      ELSE IF s \notin Members THEN << >> ELSE news(s)]
<1>2. calls \in [Screen -> Seq(Event)] /\ Tells(calls)
  <2>1. ASSUME NEW s \in Screen PROVE news(s) \in Seq(Event)
    <3>1. (apart /\ Sent(s, o)) \in BOOLEAN
      BY DEF Sent
    <3> QED
      BY <3>1, CallsAreEvents
  <2>2. Tells(calls)
    OBVIOUS
  <2> HIDE DEF news
  <2>3. calls \in [Screen -> Seq(Event)]
    BY <2>1, CallsAreEvents
  <2> QED
    BY <2>2, <2>3
<1>3. \A s \in Screen :
        /\ s = o => calls[s] = <<Call("ended", None)>>
        /\ s # o /\ link[s] = "in" => calls[s] = news(s)
        /\ s # o /\ link[s] # "in" => calls[s] = << >>
  <2> HIDE DEF news
  <2> QED
    BY Naming DEF Members
<1> HIDE DEF calls
<1>4. /\ \A p \in Participant \ {o} : link'[p] = link[p]
      /\ \A p \in Participant : link[p] \in {"in", "out"} <=> link'[p] \in {"in", "out"}
      /\ link[o] = "in" /\ link'[o] = "out"
      /\ UNCHANGED <<place, room, shown, view, tracks>>
  BY DEF Drop, device, picture, IInv, TypeOK
<1>5. o # None /\ \A s \in Screen : s \in Participant
  BY Naming
<1>6. ASSUME NEW s \in Screen
      PROVE  /\ Fine(s) /\ shown[s] \in Participant \cup {None}
             /\ tracks[s] \subseteq Participant
             /\ \A i \in 1 .. Len(inbox[s]) :
                  /\ inbox[s][i].who \in Participant \cup {None}
                  /\ inbox[s][i].kind \in {"joined", "left", "subscribed", "unsubscribed"} =>
                       inbox[s][i].who # None
  BY WhomTyped DEF IInv, TypeOK, Calls, Kind, Whom
<1>6a. ASSUME NEW s \in Screen, NEW i \in 1 .. Len(inbox[s])
      PROVE  /\ inbox[s][i].who # None => link'[inbox[s][i].who] \in {"in", "out"}
             /\ inbox[s][i].kind \in {"left", "unsubscribed"} =>
                  link'[inbox[s][i].who] = "out"
  <2>1. /\ inbox[s][i].who # None => link[inbox[s][i].who] \in {"in", "out"}
        /\ inbox[s][i].kind \in {"left", "unsubscribed"} =>
             inbox[s][i].who # None /\ link[inbox[s][i].who] = "out"
    BY <1>6 DEF Fine, Known, Calls, Kind, Whom
  <2> QED
    BY <1>4, <1>6, <2>1
\* Those that are told nothing.
<1>7. ASSUME NEW s \in Screen, s # o, ~Alive(s) \/ link[s] # "in" PROVE Fine(s)'
  <2>1. inbox'[s] = inbox[s] /\ link'[s] = link[s]
    BY <1>2, <1>3, <1>4, <1>5, <1>7, Untold DEF IInv
  <2>2. Placed(s)' /\ Rendered(s)' /\ Ends(s)'
    BY <1>4, <1>6, <2>1 DEF Fine, Placed, Rendered, Ends, Alive, Calls, Kind
  <2>3. Order(s)'
    BY <1>4, <1>6, <2>1 DEF Fine, Order, OrderAt, Calls, Kind, Whom
  <2>4. Known(s)'
    BY <1>4, <1>6, <1>6a, <2>1 DEF Fine, Known, Calls, Kind, Whom
  <2>5. Announced(s)'
    <3>1. CASE inbox[s] = << >> /\ shown[s] = None
      <4>1. Calls(s)' = {}
        BY <2>1, <3>1 DEF Calls
      <4> QED
        BY <1>4, <3>1, <4>1 DEF Announced
    <3>2. CASE ~(inbox[s] = << >> /\ shown[s] = None)
      <4> DEFINE n == Len(inbox[s])
      <4>1. link[s] = "out" /\ inbox[s] # << >>
        BY <1>4, <1>5, <1>6, <1>7, <3>2 DEF Fine, Placed, Ends, IInv, TypeOK
      <4>2. n \in Nat /\ n # 0 /\ n \in 1 .. n /\ inbox[s][n].kind \in {"ended", "failed"}
        BY <1>6, <4>1 DEF Fine, Ends, Kind, IInv, TypeOK
      <4> HIDE DEF n
      <4>3. inbox[s][n].kind = "failed" => n = 1 /\ shown[s] = None
        BY <1>6, <4>2 DEF Fine, Ends, Kind, Calls, n
      <4>4. shown[s] # None => inbox'[s][n].kind = "ended" /\ 0 < n
        BY <2>1, <4>2, <4>3
      <4>5. ASSUME NEW i \in 1 .. n, inbox'[s][i].kind \in {"connected", "joined"}
            PROVE  inbox'[s][n].kind = "ended" /\ i < n
        BY <2>1, <4>2, <4>3, <4>5
      <4> QED
        BY <1>4, <2>1, <4>2, <4>4, <4>5 DEF Announced, Goes, Calls, Kind, Whom, n
    <3> QED
      BY <3>1, <3>2
  <2> QED
    BY <2>2, <2>3, <2>4, <2>5 DEF Fine
\* Those that are told that it has left.
<1>8. ASSUME NEW s \in Screen, s # o, Alive(s), link[s] = "in" PROVE Fine(s)'
  <2> DEFINE n == Len(inbox[s])
             m == Len(inbox'[s])
  <2>1. /\ n \in Nat /\ m \in {n + 1, n + 2}
        /\ \A i \in 1 .. n : inbox'[s][i] = inbox[s][i]
        /\ inbox'[s][m] = Call("left", o)
        /\ m = n + 2 => inbox'[s][n + 1] = Call("unsubscribed", o) /\ Sent(s, o)
    <3>1. CASE apart /\ Sent(s, o)
      <4>1. calls[s] = <<Call("unsubscribed", o), Call("left", o)>>
        BY <1>3, <1>8, <3>1
      <4>2. /\ Len(calls[s]) = 2 /\ calls[s][1] = Call("unsubscribed", o)
            /\ calls[s][2] = Call("left", o)
        BY <4>1
      <4>3. /\ n \in Nat /\ m = n + Len(calls[s])
            /\ \A i \in 1 .. n : inbox'[s][i] = inbox[s][i]
            /\ \A i \in 1 .. Len(calls[s]) : inbox'[s][n + i] = calls[s][i]
        BY <1>2, <1>8, Added DEF IInv
      <4> QED
        BY <3>1, <4>2, <4>3
    <3>2. CASE ~(apart /\ Sent(s, o))
      <4>1. calls[s] = <<Call("left", o)>>
        BY <1>3, <1>8, <3>2
      <4>2. Call("left", o) \in Event
        BY DEF Call, Event
      <4>3. /\ n \in Nat /\ m = n + 1 /\ inbox'[s][n + 1] = Call("left", o)
            /\ \A i \in 1 .. n : inbox'[s][i] = inbox[s][i]
        BY <1>2, <1>8, <4>1, <4>2, OneMore DEF IInv
      <4> QED
        BY <4>3
    <3> QED
      BY <3>1, <3>2
  <2>2. /\ inbox'[s][m].kind = "left" /\ inbox'[s][m].who = o
        /\ m = n + 2 => inbox'[s][n + 1].kind = "unsubscribed" /\ inbox'[s][n + 1].who = o
    BY <2>1 DEF Call
  <2>3. /\ Len(inbox'[s]) = m /\ Len(inbox[s]) = n /\ m \in Nat /\ inbox'[s] # << >>
        /\ \A i \in 1 .. m : i \in 1 .. n \/ i = m \/ (m = n + 2 /\ i = n + 1)
        /\ link'[s] = "in"
    BY <1>4, <1>5, <1>8, <2>1
  <2> HIDE DEF n, m
  <2>4. Placed(s)' /\ Rendered(s)'
    BY <1>4, <1>6, <1>8, <2>3 DEF Fine, Placed, Rendered, Alive
  <2>5. Known(s)'
    <3>1. ASSUME NEW i \in 1 .. m
          PROVE  /\ inbox'[s][i].who # None => link'[inbox'[s][i].who] \in {"in", "out"}
                 /\ inbox'[s][i].kind \in {"left", "unsubscribed"} =>
                      link'[inbox'[s][i].who] = "out"
      <4>1. CASE i \in 1 .. n
        BY <1>6a, <2>1, <2>3, <4>1
      <4>2. CASE i = m \/ (m = n + 2 /\ i = n + 1)
        BY <1>4, <2>2, <4>2
      <4> QED
        BY <2>3, <4>1, <4>2
    <3> QED
      BY <1>4, <1>6, <2>3, <3>1 DEF Fine, Known, Calls, Kind, Whom
  <2>6. Ends(s)'
    <3>1. ASSUME NEW i \in 1 .. m PROVE inbox'[s][i].kind \notin {"ended", "failed"}
      <4>1. CASE i \in 1 .. n
        BY <1>6, <1>8, <2>1, <2>3, <4>1 DEF Fine, Ends, Calls, Kind
      <4>2. CASE i = m \/ (m = n + 2 /\ i = n + 1)
        BY <2>2, <4>2
      <4> QED
        BY <2>3, <4>1, <4>2
    <3> QED
      BY <2>3, <3>1 DEF Ends, Calls, Kind
  <2>7. Order(s)'
    <3> SUFFICES ASSUME NEW i \in 1 .. m PROVE OrderAt(s, i)'
      BY <2>3 DEF Order, Calls
    <3>1. CASE i \in 1 .. n
      BY <1>4, <1>6, <2>1, <2>3, <3>1, OrderStays DEF Fine
    <3>2. CASE i = m
      BY <2>2, <3>2 DEF OrderAt, Kind
    <3>3. CASE m = n + 2 /\ i = n + 1
      <4>1. o \in tracks[s] \/ \E j \in 1 .. n : inbox[s][j] = Call("subscribed", o)
        BY <1>6, <2>1, <2>3, <3>3 DEF Sent, IInv, TypeOK
      <4>2. o \in tracks[s] \/ \E j \in 1 .. i :
              inbox'[s][j].kind = "subscribed" /\ inbox'[s][j].who = o
        BY <2>1, <3>3, <4>1 DEF Call
      <4>3. \A j \in 1 .. n :
              ~(inbox'[s][j].kind \in {"left", "unsubscribed"} /\ inbox'[s][j].who = o)
        BY <1>4, <1>6, <2>1, <2>3 DEF Fine, Known, Calls, Kind, Whom
      <4>4. i - 1 = n
        BY <2>1, <3>3
      <4> QED
        BY <1>4, <2>2, <3>3, <4>2, <4>3, <4>4 DEF OrderAt, Kind, Whom
    <3> QED
      BY <2>3, <3>1, <3>2, <3>3
  <2>8. Announced(s)'
    <3> DEFINE Later(p, i) == \E j \in 1 .. m :
                 i < j /\ \/ inbox'[s][j].kind = "ended"
                          \/ inbox'[s][j].kind = "left" /\ inbox'[s][j].who = p
    <3>1. ASSUME NEW p, NEW i \in Nat, Goes(s, p, i) PROVE Later(p, i)
      BY <2>1, <2>3, <3>1 DEF Goes, Calls, Kind, Whom
    <3>2. \A i \in 0 .. n : Later(o, i)
      BY <2>1, <2>2, <2>3
    <3>3. shown[s] # None /\ link'[shown[s]] # "in" => Later(shown[s], 0)
      <4>1. CASE shown[s] = o
        BY <2>1, <3>2, <4>1
      <4>2. CASE shown[s] \in Participant \ {o}
        <5>1. link'[shown[s]] = link[shown[s]]
          BY <1>4, <4>2
        <5>2. link[shown[s]] # "in" => Goes(s, shown[s], 0)
          BY <1>6, <4>2, Naming DEF Fine, Announced
        <5> QED
          BY <3>1, <5>1, <5>2
      <4> QED
        BY <1>6, <4>1, <4>2
    <3>4. ASSUME NEW i \in 1 .. m, inbox'[s][i].kind \in {"connected", "joined"},
                 inbox'[s][i].who # None, link'[inbox'[s][i].who] # "in"
          PROVE  Later(inbox'[s][i].who, i)
      <4>1. i \in 1 .. n /\ i \in Nat /\ i \in 0 .. n /\ inbox'[s][i] = inbox[s][i]
        BY <2>1, <2>2, <2>3, <3>4
      <4>2. inbox[s][i].who # o => Goes(s, inbox[s][i].who, i)
        BY <1>4, <1>6, <2>3, <3>4, <4>1 DEF Fine, Announced, Calls, Kind, Whom
      <4> QED
        BY <3>1, <3>2, <4>1, <4>2
    <3> QED
      BY <1>4, <2>3, <3>3, <3>4 DEF Announced, Goes, Calls, Kind, Whom
  <2> QED
    BY <2>4, <2>5, <2>6, <2>7, <2>8 DEF Fine
\* The one whose connection has ended.
<1>9. ASSUME o \in Screen, Alive(o) PROVE Fine(o)'
  <2> DEFINE n == Len(inbox[o])
  <2>1. /\ n \in Nat /\ Len(inbox'[o]) = n + 1
        /\ \A i \in 1 .. n : inbox'[o][i] = inbox[o][i]
        /\ inbox'[o][n + 1] = Call("ended", None)
    <3>1. Call("ended", None) \in Event /\ calls[o] = <<Call("ended", None)>>
      BY <1>3, <1>9 DEF Call, Event
    <3> QED
      BY <1>2, <1>9, <3>1, OneMore DEF IInv
  <2>2. /\ inbox'[o][n + 1].kind = "ended" /\ inbox'[o][n + 1].who = None
        /\ Len(inbox[o]) = n /\ inbox'[o] # << >>
        /\ \A i \in 1 .. (n + 1) : i \in 1 .. n \/ i = n + 1
    BY <2>1 DEF Call
  <2> HIDE DEF n
  <2>3. Placed(o)' /\ Rendered(o)'
    BY <1>4, <1>6, <1>9, <2>2 DEF Fine, Placed, Rendered, Alive
  <2>4. Known(o)'
    <3>1. ASSUME NEW i \in 1 .. (n + 1)
          PROVE  /\ inbox'[o][i].who # None => link'[inbox'[o][i].who] \in {"in", "out"}
                 /\ inbox'[o][i].kind \in {"left", "unsubscribed"} =>
                      link'[inbox'[o][i].who] = "out"
      <4>1. CASE i \in 1 .. n
        BY <1>9, <1>6a, <2>1, <2>2, <4>1
      <4>2. CASE i = n + 1
        BY <2>2, <4>2
      <4> QED
        BY <2>2, <4>1, <4>2
    <3> QED
      BY <1>4, <1>6, <1>9, <2>1, <3>1 DEF Fine, Known, Calls, Kind, Whom
  <2>5. Ends(o)'
    <3>1. ASSUME NEW i \in 1 .. (n + 1), inbox'[o][i].kind \in {"ended", "failed"}
          PROVE  i = n + 1 /\ inbox'[o][i].kind # "failed"
      <4>1. CASE i \in 1 .. n
        BY <1>4, <1>6, <1>9, <2>1, <2>2, <3>1, <4>1 DEF Fine, Ends, Calls, Kind
      <4>2. CASE i = n + 1
        BY <2>2, <4>2
      <4> QED
        BY <2>2, <4>1, <4>2
    <3> QED
      BY <1>4, <2>1, <2>2, <3>1 DEF Ends, Calls, Kind
  <2>6. Order(o)'
    <3> SUFFICES ASSUME NEW i \in 1 .. (n + 1) PROVE OrderAt(o, i)'
      BY <2>1 DEF Order, Calls
    <3>1. CASE i \in 1 .. n
      BY <1>4, <1>6, <1>9, <2>1, <2>2, <3>1, OrderStays DEF Fine
    <3>2. CASE i = n + 1
      BY <2>2, <3>2 DEF OrderAt, Kind
    <3> QED
      BY <2>2, <3>1, <3>2
  <2>7. Announced(o)'
    <3>1. n + 1 \in 1 .. (n + 1) /\ 0 < n + 1 /\ \A i \in 1 .. n : i < n + 1
      BY <2>1
    <3>2. ASSUME NEW i \in 1 .. (n + 1), inbox'[o][i].kind \in {"connected", "joined"}
          PROVE  i < n + 1
      BY <2>2, <3>1, <3>2
    <3> QED
      BY <2>1, <2>2, <3>1, <3>2 DEF Announced, Goes, Calls, Kind, Whom
  <2> QED
    BY <2>3, <2>4, <2>5, <2>6, <2>7 DEF Fine
<1>10. ASSUME o \in Screen, ~Alive(o) PROVE Fine(o)'
  <2>1. /\ inbox[o] = << >> /\ shown[o] = None /\ view[o] = None /\ tracks[o] = {}
        /\ place[o] # "unborn"
    BY <1>4, <1>6, <1>10 DEF Fine, Placed
  <2>2. inbox'[o] = << >>
    BY <1>2, <1>10, <2>1, Untold DEF IInv
  <2>3. Calls(o)' = {}
    BY <2>2 DEF Calls
  <2>4. Placed(o)' /\ Rendered(o)'
    BY <1>4, <1>10, <2>1, <2>2 DEF Placed, Rendered, Alive
  <2>5. Known(o)' /\ Ends(o)' /\ Order(o)' /\ Announced(o)'
    BY <1>4, <2>1, <2>2, <2>3 DEF Known, Ends, Order, Announced
  <2> QED
    BY <2>4, <2>5 DEF Fine
<1> QED
  BY <1>1, <1>7, <1>8, <1>9, <1>10 DEF IInv

(***************************************************************************)
(* The delegates take calls.  What of a screen's state a call may change,  *)
(* so that the calls behind it still fit:                                  *)
(***************************************************************************)
Fits(s) ==
  LET k == Head(inbox[s]).kind  w == Head(inbox[s]).who IN
  /\ room'[s] = room[s] \/ k \in {"ended", "failed"}
  /\ \/ shown'[s] \in {shown[s], None}
     \/ shown'[s] = w /\ k \in {"connected", "joined"}
  /\ k = "ended" \/ (k = "left" /\ w = shown[s]) => shown'[s] = None
  /\ k = "failed" => shown'[s] = shown[s]
  /\ \A o \in tracks'[s] : o \in tracks[s] \/ (k = "subscribed" /\ o = w)
  /\ k = "subscribed" => w \in tracks'[s]
  /\ \A o \in tracks[s] \ tracks'[s] :
       k = "ended" \/ (k \in {"left", "unsubscribed"} /\ o = w)

LEMMA FitsKeepsInv ==
  ASSUME IInv, TypeOK', NEW s \in Screen, Alive(s), inbox[s] # << >>, Takes(s),
         UNCHANGED <<place, link>>, Fits(s), Rendered(s)',
         \A t \in Screen \ {s} : /\ room'[t] = room[t] /\ shown'[t] = shown[t]
                                 /\ view'[t] = view[t] /\ tracks'[t] = tracks[t]
  PROVE  IInv'
<1> DEFINE n == Len(inbox'[s])
           k == inbox[s][1].kind
           w == inbox[s][1].who
<1>1. /\ n \in Nat /\ Len(inbox[s]) = n + 1 /\ Head(inbox[s]) = inbox[s][1]
      /\ \A i \in 1 .. n : inbox'[s][i] = inbox[s][i + 1] /\ i + 1 \in 1 .. (n + 1)
      /\ 1 \in 1 .. (n + 1)
      /\ \A t \in Screen \ {s} : inbox'[t] = inbox[t]
  BY Taken DEF IInv
<1>2. /\ room'[s] = room[s] \/ k \in {"ended", "failed"}
      /\ \/ shown'[s] \in {shown[s], None}
         \/ shown'[s] = w /\ k \in {"connected", "joined"}
      /\ k = "ended" \/ (k = "left" /\ w = shown[s]) => shown'[s] = None
      /\ k = "failed" => shown'[s] = shown[s]
      /\ \A o \in tracks'[s] : o \in tracks[s] \/ (k = "subscribed" /\ o = w)
      /\ k = "subscribed" => w \in tracks'[s]
      /\ \A o \in tracks[s] \ tracks'[s] :
           k = "ended" \/ (k \in {"left", "unsubscribed"} /\ o = w)
  BY <1>1 DEF Fits
<1>3. ASSUME NEW t \in Screen \ {s} PROVE Fine(t)'
  BY <1>1, Unmoved
<1>4. Len(inbox'[s]) = n /\ (inbox'[s] # << >> <=> n # 0)
  BY Taken DEF IInv
<1>5. /\ link' = link /\ place' = place /\ Fine(s)
      /\ shown[s] \in Participant \cup {None} /\ tracks[s] \subseteq Participant
      /\ k = "subscribed" => w # None
  BY <1>1, WhomTyped DEF IInv, TypeOK, Calls, Kind, Whom
<1> HIDE DEF n, k, w
<1>6. Placed(s)'
  <2>1. k \in {"ended", "failed"} => link[s] = "out"
    BY <1>1, <1>5 DEF Fine, Ends, Calls, Kind, k
  <2> QED
    BY <1>2, <1>5, <2>1 DEF Fine, Placed, Alive
<1>7. Known(s)'
  <2>1. w # None => link[w] \in {"in", "out"}
    BY <1>1, <1>5 DEF Fine, Known, Calls, Whom, w
  <2>2. \A o \in tracks'[s] : link[o] \in {"in", "out"}
    BY <1>2, <1>5, <2>1 DEF Fine, Known
  <2>3. shown'[s] # None => link[shown'[s]] \in {"in", "out"}
    BY <1>2, <1>5, <2>1 DEF Fine, Known
  <2>4. ASSUME NEW i \in 1 .. n
        PROVE  /\ inbox'[s][i].who # None => link[inbox'[s][i].who] \in {"in", "out"}
               /\ inbox'[s][i].kind \in {"left", "unsubscribed"} =>
                    link[inbox'[s][i].who] = "out"
    <3>1. i + 1 \in Calls(s) /\ inbox'[s][i] = inbox[s][i + 1]
      BY <1>1 DEF Calls
    <3>2. Known(s)
      BY <1>5 DEF Fine
    <3> QED
      BY <3>1, <3>2 DEF Known, Kind, Whom
  <2> QED
    BY <1>4, <1>5, <2>2, <2>3, <2>4 DEF Known, Calls, Kind, Whom
<1>8. Ends(s)'
  <2>1. ASSUME NEW i \in 1 .. n, inbox'[s][i].kind \in {"ended", "failed"}
        PROVE  i = n /\ link[s] = "out" /\ inbox'[s][i].kind # "failed"
    <3>1. i + 1 \in Calls(s) /\ inbox'[s][i] = inbox[s][i + 1] /\ i + 1 # 1
      BY <1>1 DEF Calls
    <3> QED
      BY <1>1, <1>5, <2>1, <3>1 DEF Fine, Ends, Kind
  <2>2. link[s] = "out" /\ n # 0 => inbox'[s][n].kind \in {"ended", "failed"}
    <3>1. n # 0 => n \in 1 .. n
      BY <1>1
    <3> QED
      BY <1>1, <1>5, <3>1 DEF Fine, Ends, Kind
  <2>3. link[s] = "out" /\ n = 0 => shown'[s] = None
    <3>1. ASSUME link[s] = "out", n = 0 PROVE k \in {"ended", "failed"}
      BY <1>1, <1>5, <3>1 DEF Fine, Ends, Kind, k
    <3>2. k = "failed" => shown[s] = None
      BY <1>1, <1>5 DEF Fine, Ends, Calls, Kind, k
    <3> QED
      BY <1>2, <3>1, <3>2
  <2> QED
    BY <1>4, <1>5, <2>1, <2>2, <2>3 DEF Ends, Calls, Kind
<1>9. Order(s)'
  <2> SUFFICES ASSUME NEW i \in 1 .. n PROVE OrderAt(s, i)'
    BY <1>4 DEF Order, Calls
  <2> DEFINE e == inbox[s][i + 1]
  <2>1. /\ i + 1 \in 1 .. (n + 1) /\ i + 1 # 1 /\ inbox'[s][i] = e /\ n # 0
        /\ OrderAt(s, i + 1)
        /\ \A j \in 1 .. i : j \in 1 .. n /\ j + 1 \in 1 .. (i + 1)
        /\ (i + 1) - 1 = i /\ 1 \in 1 .. i /\ 1 \in 1 .. (i + 1)
        /\ \A j \in 1 .. (i - 1) : j \in 1 .. n /\ j + 1 \in 1 .. i
        /\ \A j \in 1 .. (i + 1) : j = 1 \/ (j - 1 \in 1 .. i /\ (j - 1) + 1 = j)
    BY <1>1, <1>5 DEF Fine, Order, Calls
  <2>2. e.kind # "connected"
    BY <2>1 DEF OrderAt, Kind
  <2>3. e.kind = "joined" =>
          /\ e.who \notin tracks'[s]
          /\ \A j \in 1 .. i : ~(inbox'[s][j].kind = "subscribed" /\ inbox'[s][j].who = e.who)
    <3>1. e.kind = "joined" =>
            /\ e.who \notin tracks[s]
            /\ \A j \in 1 .. (i + 1) :
                 ~(inbox[s][j].kind = "subscribed" /\ inbox[s][j].who = e.who)
      BY <2>1 DEF OrderAt, Kind, Whom
    <3>2. e.kind = "joined" => ~(k = "subscribed" /\ w = e.who)
      BY <2>1, <3>1 DEF k, w
    <3>3. \A j \in 1 .. i : inbox'[s][j] = inbox[s][j + 1] /\ j + 1 \in 1 .. (i + 1)
      BY <1>1, <2>1
    <3>4. e.kind = "joined" => e.who \notin tracks'[s]
      BY <1>2, <3>1, <3>2
    <3> QED
      BY <3>1, <3>3, <3>4
  <2>4. e.kind = "unsubscribed" =>
          \A j \in 1 .. (i - 1) :
            ~(inbox'[s][j].kind \in {"left", "unsubscribed"} /\ inbox'[s][j].who = e.who)
    <3>1. e.kind = "unsubscribed" =>
            \A j \in 1 .. i :
              ~(inbox[s][j].kind \in {"left", "unsubscribed"} /\ inbox[s][j].who = e.who)
      BY <2>1 DEF OrderAt, Kind, Whom
    <3>2. \A j \in 1 .. (i - 1) : inbox'[s][j] = inbox[s][j + 1] /\ j + 1 \in 1 .. i
      BY <1>1, <2>1
    <3> QED
      BY <3>1, <3>2
  <2>5. e.kind = "unsubscribed" =>
          \/ e.who \in tracks'[s]
          \/ \E j \in 1 .. i : inbox'[s][j].kind = "subscribed" /\ inbox'[s][j].who = e.who
    <3> SUFFICES ASSUME e.kind = "unsubscribed" PROVE
          \/ e.who \in tracks'[s]
          \/ \E j \in 1 .. i : inbox'[s][j].kind = "subscribed" /\ inbox'[s][j].who = e.who
      OBVIOUS
    <3>1. \/ e.who \in tracks[s]
          \/ \E j \in 1 .. (i + 1) :
               inbox[s][j].kind = "subscribed" /\ inbox[s][j].who = e.who
      BY <2>1 DEF OrderAt, Kind, Whom
    <3>2. CASE e.who \in tracks[s]
      <4>1. k # "ended"
        BY <1>1, <1>5, <2>1 DEF Fine, Ends, Calls, Kind, k
      <4>2. ~(k \in {"left", "unsubscribed"} /\ w = e.who)
        BY <2>1 DEF OrderAt, Kind, Whom, k, w
      <4> QED
        BY <1>2, <3>2, <4>1, <4>2
    <3>3. ASSUME NEW j \in 1 .. (i + 1), inbox[s][j].kind = "subscribed",
                 inbox[s][j].who = e.who
          PROVE  \/ e.who \in tracks'[s]
                 \/ \E l \in 1 .. i : inbox'[s][l].kind = "subscribed" /\ inbox'[s][l].who = e.who
      <4>1. CASE j = 1
        BY <1>2, <3>3, <4>1 DEF k, w
      <4>2. CASE j # 1
        <5>1. j - 1 \in 1 .. i /\ j - 1 \in 1 .. n /\ inbox'[s][j - 1] = inbox[s][j]
          BY <1>1, <2>1, <4>2
        <5> QED
          BY <3>3, <5>1
      <4> QED
        BY <4>1, <4>2
    <3> QED
      BY <3>1, <3>2, <3>3
  <2> HIDE DEF e
  <2> QED
    BY <2>1, <2>2, <2>3, <2>4, <2>5 DEF OrderAt, Kind, Whom
<1>10. Announced(s)'
  <2> DEFINE Later(p, i) == \E j \in 1 .. n :
               i < j /\ \/ inbox'[s][j].kind = "ended"
                        \/ inbox'[s][j].kind = "left" /\ inbox'[s][j].who = p
  <2>1. ASSUME NEW p, NEW i \in Nat, Goes(s, p, i + 1) PROVE Later(p, i)
    <3> PICK j \in Calls(s) : i + 1 < j /\ \/ inbox[s][j].kind = "ended"
                                           \/ inbox[s][j].kind = "left" /\ inbox[s][j].who = p
      BY <2>1 DEF Goes, Kind, Whom
    <3>1. j - 1 \in 1 .. n /\ i < j - 1 /\ inbox'[s][j - 1] = inbox[s][j]
      BY <1>1 DEF Calls
    <3> QED
      BY <3>1
  <2>2. shown'[s] # None /\ link[shown'[s]] # "in" => Later(shown'[s], 0)
    <3> SUFFICES ASSUME shown'[s] # None, link[shown'[s]] # "in" PROVE Later(shown'[s], 0)
      OBVIOUS
    <3>1. CASE shown'[s] = shown[s]
      <4> PICK j \in Calls(s) :
            0 < j /\ \/ inbox[s][j].kind = "ended"
                     \/ inbox[s][j].kind = "left" /\ inbox[s][j].who = shown[s]
        BY <1>5, <3>1 DEF Fine, Announced, Goes, Kind, Whom
      <4>1. j # 1
        BY <1>2, <3>1 DEF k, w
      <4>2. Goes(s, shown[s], 0 + 1)
        BY <1>1, <4>1 DEF Goes, Calls, Kind, Whom
      <4> QED
        BY <2>1, <3>1, <4>2
    <3>2. CASE shown'[s] = w /\ k \in {"connected", "joined"}
      <4>1. Goes(s, w, 1)
        BY <1>1, <1>5, <3>2 DEF Fine, Announced, Calls, Kind, Whom, k, w
      <4> QED
        BY <2>1, <3>2, <4>1
    <3> QED
      BY <1>2, <3>1, <3>2
  <2>3. ASSUME NEW i \in 1 .. n, inbox'[s][i].kind \in {"connected", "joined"},
               inbox'[s][i].who # None, link[inbox'[s][i].who] # "in"
        PROVE  Later(inbox'[s][i].who, i)
    <3>1. inbox'[s][i] = inbox[s][i + 1] /\ i + 1 \in Calls(s) /\ i \in Nat
      BY <1>1 DEF Calls
    <3>2. Goes(s, inbox[s][i + 1].who, i + 1)
      BY <1>5, <2>3, <3>1 DEF Fine, Announced, Kind, Whom
    <3> QED
      BY <2>1, <3>1, <3>2
  <2> QED
    BY <1>4, <1>5, <2>2, <2>3 DEF Announced, Goes, Calls, Kind, Whom
<1> QED
  BY <1>3, <1>6, <1>7, <1>8, <1>9, <1>10 DEF IInv, Fine

(* remoteView! is there when a delegate unwraps it.                        *)
LEMMA NoTrap ==
  ASSUME IInv, NEW s \in Screen
  PROVE  /\ ~(shown[s] \in tracks[s] /\ view[s] = None)
         /\ Called(s, "unsubscribed") => ~(shown[s] = Who(s) /\ view[s] = None)
<1>1. Rendered(s) /\ tracks[s] \subseteq Participant
  BY DEF IInv, TypeOK, Fine
<1>2. ~(shown[s] \in tracks[s] /\ view[s] = None)
  BY <1>1, Naming DEF Rendered
<1>3. ASSUME Called(s, "unsubscribed") PROVE Who(s) \in tracks[s]
  <2>1. /\ inbox[s] \in Seq(Event) /\ inbox[s] # << >> /\ Head(inbox[s]) = inbox[s][1]
        /\ inbox[s][1].kind = "unsubscribed"
    BY <1>3 DEF Called, IInv, TypeOK
  <2>2. Len(inbox[s]) \in Nat /\ Len(inbox[s]) # 0 /\ 1 \in Calls(s)
    BY <2>1 DEF Calls
  <2>3. OrderAt(s, 1)
    BY <2>2 DEF IInv, Fine, Order
  <2>4. \A j \in 1 .. 1 : j = 1
    OBVIOUS
  <2> QED
    BY <2>1, <2>3, <2>4 DEF OrderAt, Kind, Whom, Who
<1> QED
  BY <1>2, <1>3

(* What a call says when it is taken.                                      *)
LEMMA FirstCall ==
  ASSUME IInv, NEW s \in Screen, Alive(s), inbox[s] # << >>
  PROVE  /\ Head(inbox[s]) \in Event /\ Fine(s)
         /\ Head(inbox[s]).kind = "connected" => shown[s] = None /\ tracks[s] = {}
         /\ Head(inbox[s]).kind = "joined" => Who(s) \notin tracks[s] /\ Who(s) # None
         /\ Head(inbox[s]).kind = "left" => link[Who(s)] = "out" /\ Who(s) # None
         /\ Head(inbox[s]).kind \in {"ended", "failed"} => link[s] = "out"
         /\ Head(inbox[s]).kind = "failed" => shown[s] = None
<1>1. /\ inbox[s] \in Seq(Event) /\ Head(inbox[s]) = inbox[s][1]
      /\ Len(inbox[s]) \in Nat /\ Len(inbox[s]) # 0 /\ Fine(s)
  BY DEF IInv, TypeOK
<1>2. 1 \in Calls(s) /\ Head(inbox[s]) \in Event
  BY <1>1 DEF Calls
<1>3. OrderAt(s, 1)
  BY <1>1, <1>2 DEF Fine, Order
<1>4. Kind(s, 1) \in {"joined", "left"} => Whom(s, 1) # None
  BY <1>2, WhomTyped DEF IInv
<1> QED
  BY <1>1, <1>2, <1>3, <1>4 DEF Fine, Known, Ends, OrderAt, Kind, Whom, Who

LEMMA DelegatesKeepInv == ASSUME IInv, NEW s \in Screen, Delegates(s) PROVE IInv'
<1>1. TypeOK'
  BY TypeNext DEF IInv, Next
<1>2. TypeOK /\ shown[s] \in Participant \cup {None}
  BY DEF IInv, TypeOK
<1>3. CASE DidConnect(s)
  <2>1. /\ Alive(s) /\ inbox[s] # << >> /\ Takes(s) /\ UNCHANGED <<place, link, room, view, tracks>>
        /\ Head(inbox[s]).kind = "connected"
        /\ shown' = IF Who(s) # None THEN [shown EXCEPT ![s] = Who(s)] ELSE shown
    BY <1>3 DEF DidConnect, Delegate, Called, device, service
  <2>2. shown'[s] \in {shown[s], Who(s)} /\ \A t \in Screen \ {s} : shown'[t] = shown[t]
    BY <1>2, <2>1 DEF TypeOK
  <2>3. Rendered(s)'
    BY <2>1, FirstCall DEF Fine, Rendered
  <2>4. Fits(s)
    BY <2>1, <2>2 DEF Fits, Who
  <2> QED
    BY <1>1, <2>1, <2>2, <2>3, <2>4, FitsKeepsInv
<1>4. CASE ParticipantDidConnect(s)
  <2>1. /\ Alive(s) /\ inbox[s] # << >> /\ Takes(s) /\ UNCHANGED <<place, link, room, view, tracks>>
        /\ Head(inbox[s]).kind = "joined"
        /\ shown' = IF shown[s] = None THEN [shown EXCEPT ![s] = Who(s)] ELSE shown
    BY <1>4 DEF ParticipantDidConnect, Delegate, Called, device, service
  <2>2. /\ shown'[s] = (IF shown[s] = None THEN Who(s) ELSE shown[s])
        /\ \A t \in Screen \ {s} : shown'[t] = shown[t]
    BY <1>2, <2>1 DEF TypeOK
  <2>3. None \notin tracks[s]
    BY <1>2, Naming DEF TypeOK
  <2>4. Rendered(s)'
    BY <2>1, <2>2, <2>3, FirstCall DEF Fine, Rendered
  <2>5. Fits(s)
    BY <2>1, <2>2 DEF Fits, Who
  <2> QED
    BY <1>1, <2>1, <2>2, <2>4, <2>5, FitsKeepsInv
<1>5. CASE Subscribed(s)
  <2>1. /\ Alive(s) /\ inbox[s] # << >> /\ Takes(s) /\ UNCHANGED <<place, link, room, shown>>
        /\ Head(inbox[s]).kind = "subscribed"
        /\ tracks' = [tracks EXCEPT ![s] = @ \cup {Who(s)}]
        /\ view' = IF shown[s] = Who(s) THEN [view EXCEPT ![s] = Who(s)] ELSE view
    BY <1>5 DEF Subscribed, Delegate, Called, device, service
  <2>2. /\ tracks'[s] = tracks[s] \cup {Who(s)}
        /\ view'[s] = (IF shown[s] = Who(s) THEN Who(s) ELSE view[s])
        /\ \A t \in Screen \ {s} : tracks'[t] = tracks[t] /\ view'[t] = view[t]
    BY <1>2, <2>1 DEF TypeOK
  <2>3. Rendered(s)'
    BY <2>1, <2>2, FirstCall DEF Fine, Rendered
  <2>4. Fits(s)
    BY <2>1, <2>2 DEF Fits, Who
  <2> QED
    BY <1>1, <2>1, <2>2, <2>3, <2>4, FitsKeepsInv
<1>6. CASE Unsubscribed(s)
  <2>1. /\ Alive(s) /\ inbox[s] # << >> /\ Takes(s) /\ UNCHANGED <<place, link, room, shown>>
        /\ Head(inbox[s]).kind = "unsubscribed"
        /\ tracks' = [tracks EXCEPT ![s] = @ \ {Who(s)}]
        /\ view' = IF shown[s] = Who(s) THEN [view EXCEPT ![s] = None] ELSE view
    BY <1>6, NoTrap DEF Unsubscribed, Called, device, service
  <2>2. /\ tracks'[s] = tracks[s] \ {Who(s)}
        /\ view'[s] = (IF shown[s] = Who(s) THEN None ELSE view[s])
        /\ \A t \in Screen \ {s} : tracks'[t] = tracks[t] /\ view'[t] = view[t]
    BY <1>2, <2>1 DEF TypeOK
  <2>3. Rendered(s)'
    BY <2>1, <2>2, FirstCall DEF Fine, Rendered
  <2>4. Fits(s)
    BY <2>1, <2>2 DEF Fits, Who
  <2> QED
    BY <1>1, <2>1, <2>2, <2>3, <2>4, FitsKeepsInv
<1>7. ASSUME NEW gone \in SUBSET Participant, NEW rooms \in BOOLEAN, Cleanup(s, gone, rooms)
      PROVE  /\ Takes(s) /\ UNCHANGED <<place, link>>
             /\ shown'[s] = None /\ view'[s] = None /\ tracks'[s] = tracks[s] \ gone
             /\ room'[s] = rooms
             /\ \A t \in Screen \ {s} : /\ room'[t] = room[t] /\ shown'[t] = shown[t]
                                        /\ view'[t] = view[t] /\ tracks'[t] = tracks[t]
  BY <1>2, <1>7, NoTrap DEF Cleanup, TypeOK, service
<1>8. CASE ParticipantDidDisconnect(s)
  <2>1. Alive(s) /\ inbox[s] # << >> /\ Head(inbox[s]).kind = "left"
    BY <1>8 DEF ParticipantDidDisconnect, Called
  <2>2. /\ Who(s) \in Participant /\ room[s] \in BOOLEAN /\ None \notin Participant
        /\ Who(s) = Head(inbox[s]).who
    BY <1>2, <2>1, FirstCall, Naming DEF Event, Who, TypeOK
  <2>3. CASE shown[s] = Who(s)
    <3>1. Cleanup(s, {Who(s)}, room[s]) /\ {Who(s)} \in SUBSET Participant
      BY <1>8, <2>2, <2>3 DEF ParticipantDidDisconnect
    <3>2. /\ Takes(s) /\ UNCHANGED <<place, link>>
          /\ shown'[s] = None /\ view'[s] = None /\ tracks'[s] = tracks[s] \ {Who(s)}
          /\ room'[s] = room[s]
          /\ \A t \in Screen \ {s} : /\ room'[t] = room[t] /\ shown'[t] = shown[t]
                                     /\ view'[t] = view[t] /\ tracks'[t] = tracks[t]
      BY <1>7, <2>2, <3>1
    <3>3. Rendered(s)'
      BY <3>2 DEF Rendered
    <3>4. Fits(s)
      BY <2>1, <2>2, <2>3, <3>2 DEF Fits
    <3> QED
      BY <1>1, <2>1, <3>2, <3>3, <3>4, FitsKeepsInv
  <2>4. CASE shown[s] # Who(s)
    <3>1. /\ Takes(s) /\ UNCHANGED <<place, link, room, shown, view>>
          /\ tracks' = [tracks EXCEPT ![s] = @ \ {Who(s)}]
      BY <1>8, <2>4 DEF ParticipantDidDisconnect, device, service
    <3>2. tracks'[s] = tracks[s] \ {Who(s)} /\ \A t \in Screen \ {s} : tracks'[t] = tracks[t]
      BY <1>2, <3>1 DEF TypeOK
    <3>3. Rendered(s)'
      BY <2>1, <2>4, <3>1, <3>2, FirstCall DEF Fine, Rendered
    <3>4. Fits(s)
      BY <2>1, <2>2, <2>4, <3>1, <3>2 DEF Fits
    <3> QED
      BY <1>1, <2>1, <3>1, <3>2, <3>3, <3>4, FitsKeepsInv
  <2> QED
    BY <2>3, <2>4
<1>9. CASE DidDisconnect(s)
  <2>1. Alive(s) /\ inbox[s] # << >> /\ Head(inbox[s]).kind = "ended"
    BY <1>9 DEF DidDisconnect, Called
  <2>2. /\ Takes(s) /\ UNCHANGED <<place, link>>
        /\ shown'[s] = None /\ view'[s] = None /\ tracks'[s] = tracks[s] \ Participant
        /\ \A t \in Screen \ {s} : /\ room'[t] = room[t] /\ shown'[t] = shown[t]
                                   /\ view'[t] = view[t] /\ tracks'[t] = tracks[t]
    BY <1>7, <1>9 DEF DidDisconnect
  <2>3. Rendered(s)'
    BY <2>2 DEF Rendered
  <2>4. Fits(s)
    BY <2>1, <2>2 DEF Fits
  <2> QED
    BY <1>1, <2>1, <2>2, <2>3, <2>4, FitsKeepsInv
<1>10. CASE DidFailToConnect(s)
  <2>1. /\ Alive(s) /\ inbox[s] # << >> /\ Takes(s) /\ Head(inbox[s]).kind = "failed"
        /\ UNCHANGED <<place, link, shown, view, tracks>>
        /\ room' = [room EXCEPT ![s] = FALSE]
    BY <1>10 DEF DidFailToConnect, Delegate, Called, picture, service
  <2>2. \A t \in Screen \ {s} : room'[t] = room[t]
    BY <1>2, <2>1 DEF TypeOK
  <2>3. Rendered(s)'
    BY <2>1, FirstCall DEF Fine, Rendered
  <2>4. Fits(s)
    BY <2>1 DEF Fits
  <2> QED
    BY <1>1, <2>1, <2>2, <2>3, <2>4, FitsKeepsInv
<1> QED
  BY <1>3, <1>4, <1>5, <1>6, <1>8, <1>9, <1>10 DEF Delegates

LEMMA INext == IInv /\ [Next]_vars => IInv'
<1> SUFFICES ASSUME IInv, [Next]_vars PROVE IInv'
  OBVIOUS
<1>1. CASE Kill
  BY <1>1, EndsKeepInv DEF Kill
<1>2. ASSUME NEW s \in Screen, Open(s) \/ Back(s) \/ Dismiss(s) \/ HangUp(s) PROVE IInv'
  BY <1>2, UserKeepsInv
<1>3. ASSUME NEW s \in Screen, Refuse(s) PROVE IInv'
  BY <1>3, RefuseKeepsInv
<1>4. ASSUME NEW s \in Screen, Delegates(s) PROVE IInv'
  BY <1>4, DelegatesKeepInv
<1>5. ASSUME NEW o \in Participant, Accept(o) PROVE IInv'
  BY <1>5, AcceptKeepsInv
<1>6. ASSUME NEW o \in Participant, Drop(o) PROVE IInv'
  BY <1>6, DropKeepsInv
<1>7. ASSUME NEW s \in Screen, NEW o \in Participant, Subscribe(s, o) PROVE IInv'
  BY <1>7, SubscribeKeepsInv
<1>8. CASE UNCHANGED vars
  <2>1. UNCHANGED <<place, room, shown, view, tracks, link, inbox, crowded>>
    BY <1>8 DEF vars, device, picture, service
  <2>2. ASSUME NEW s \in Screen PROVE Fine(s)'
    BY <2>1, Unmoved
  <2>3. TypeOK'
    BY TypeNext DEF IInv
  <2> QED
    BY <2>2, <2>3 DEF IInv
<1> QED
  BY <1>1, <1>2, <1>3, <1>4, <1>5, <1>6, <1>7, <1>8 DEF Next

(* The invariant holds however many screens, peers and delegate calls there *)
(* are.                                                                     *)
THEOREM Inductive == Spec => []IInv
BY IInit, INext, PTL DEF Spec

(* The view renders the participant that is shown, exactly while its track *)
(* is there.                                                               *)
THEOREM ViewsAreOfShown == Spec => []ViewIsOfShown
<1>1. IInv => ViewIsOfShown
  BY DEF IInv, Fine, Rendered, ViewIsOfShown
<1> QED
  BY Inductive, <1>1, PTL

(* Whoever is shown is in the room, or a call that takes him off the       *)
(* screen is on its way.                                                   *)
THEOREM ShownAreInRoom == Spec => []ShownIsInRoom
<1>1. IInv => ShownIsInRoom
  <2> SUFFICES ASSUME IInv, NEW s \in Screen, shown[s] # None, link[shown[s]] # "in"
               PROVE  \E i \in DOMAIN inbox[s] :
                        inbox[s][i].kind = "ended" \/ inbox[s][i] = Call("left", shown[s])
    BY DEF ShownIsInRoom
  <2>1. Goes(s, shown[s], 0)
    BY DEF IInv, Fine, Announced
  <2> PICK j \in Calls(s) : Kind(s, j) = "ended" \/ (Kind(s, j) = "left" /\ Whom(s, j) = shown[s])
    BY <2>1 DEF Goes
  <2>2. inbox[s] \in Seq(Event) /\ j \in DOMAIN inbox[s] /\ inbox[s][j] \in Event
    BY DEF IInv, TypeOK, Calls
  <2>3. \A e \in Event : e = [kind |-> e.kind, who |-> e.who]
    BY DEF Event
  <2>4. inbox[s][j] = Call(inbox[s][j].kind, inbox[s][j].who)
    BY <2>2, <2>3 DEF Call
  <2> QED
    BY <2>2, <2>4 DEF Kind, Whom
<1> QED
  BY Inductive, <1>1, PTL

(* room! and remoteView! end the process only in a call that the service   *)
(* has refused or ended.                                                   *)
THEOREM OnlyEndedTrap == Spec => OnlyEndedCallsTrap
<1> DEFINE Safe == (\E s \in Screen : place[s] # "trapped" /\ place'[s] = "trapped") =>
                     \E t \in Screen : place[t] = "front" /\ link[t] = "out"
<1>1. IInv /\ [Next]_vars => Safe
  <2> SUFFICES ASSUME IInv, [Next]_vars, NEW s \in Screen, place[s] # "trapped",
                      place'[s] = "trapped"
               PROVE  \E t \in Screen : place[t] = "front" /\ link[t] = "out"
    OBVIOUS
  <2>1. CASE Kill
    BY <2>1 DEF Kill, ProcessEnds, IInv, TypeOK
  <2>2. ASSUME NEW t \in Screen, Open(t) \/ Back(t) \/ Dismiss(t) PROVE FALSE
    BY <2>2 DEF Open, Back, Dismiss, IInv, TypeOK
  <2>3. ASSUME NEW t \in Screen, HangUp(t) PROVE place[t] = "front" /\ link[t] = "out"
    <3>1. CASE room[t]
      BY <2>3, <3>1 DEF HangUp, IInv, TypeOK
    <3>2. CASE ~room[t]
      BY <2>3, <3>2 DEF HangUp, IInv, Fine, Placed, Alive
    <3> QED
      BY <3>1, <3>2
  <2>4. ASSUME NEW o \in Participant, NEW t \in Screen,
               Accept(o) \/ Drop(o) \/ Subscribe(t, o) PROVE FALSE
    BY <2>4 DEF Accept, Drop, Subscribe, device
  <2>5. ASSUME NEW t \in Screen, Refuse(t) \/ Delegates(t) PROVE FALSE
    <3>1. CASE Refuse(t) \/ DidConnect(t) \/ ParticipantDidConnect(t) \/ Subscribed(t)
               \/ DidFailToConnect(t)
      BY <3>1 DEF Refuse, DidConnect, ParticipantDidConnect, Subscribed, DidFailToConnect, device
    <3>2. CASE Unsubscribed(t)
      BY <3>2, NoTrap DEF Unsubscribed, device
    <3>3. CASE ParticipantDidDisconnect(t) \/ DidDisconnect(t)
      BY <3>3, NoTrap DEF ParticipantDidDisconnect, DidDisconnect, Cleanup, device
    <3> QED
      BY <2>5, <3>1, <3>2, <3>3 DEF Delegates
  <2>6. CASE UNCHANGED vars
    BY <2>6 DEF vars, device
  <2> QED
    BY <2>1, <2>2, <2>3, <2>4, <2>5, <2>6, Naming DEF Next
<1>2. IInv /\ [Next]_vars => [Safe]_vars
  BY <1>1
<1> QED
  BY Inductive, <1>2, PTL DEF Spec, OnlyEndedCallsTrap

(***************************************************************************)
(* Two who have never met a third.  Whoever is told to come must find the  *)
(* screen free, so everybody who came before must have gone before: the    *)
(* news of it is on its way in front of him.                               *)
(***************************************************************************)
Comer(s, i) == Kind(s, i) \in {"connected", "joined"} /\ Whom(s, i) # None

LeavesBefore(s, o, j, i) ==
  \E k \in Calls(s) : j < k /\ k < i /\ Kind(s, k) = "left" /\ Whom(s, k) = o

Comes(s, o, i) ==
  /\ Comer(s, i) /\ Whom(s, i) = o
  /\ shown[s] # None => LeavesBefore(s, shown[s], 0, i)
  /\ \A j \in Calls(s) : j < i /\ Comer(s, j) => LeavesBefore(s, Whom(s, j), j, i)

Seen(s, o) == shown[s] = o \/ \E i \in Calls(s) : Comes(s, o, i)

\* Two who are connected and have never met a third.
Met(s, o) == ~crowded /\ Alive(s) /\ link[s] = "in" /\ link[o] = "in"

NotItself(s) == shown[s] # s /\ \A i \in Calls(s) : Comer(s, i) => Whom(s, i) # s

TwoAtMost == ~crowded => \A a, b, c \in Members : a = b \/ b = c \/ a = c

LoneInv ==
  /\ TwoAtMost
  /\ \A s \in Screen : /\ NotItself(s)
                       /\ \A o \in Participant \ {s} : Met(s, o) => Seen(s, o)

LEMMA LoneInit == Init => LoneInv
<1> SUFFICES ASSUME Init PROVE LoneInv
  OBVIOUS
<1>1. \A o \in Participant : link[o] = "none"
  BY DEF Init
<1>2. TwoAtMost
  BY <1>1 DEF TwoAtMost, Members
<1>3. ASSUME NEW s \in Screen PROVE NotItself(s)
  <2>1. shown[s] = None /\ inbox[s] = << >>
    BY DEF Init
  <2>2. Calls(s) = {} /\ shown[s] # s
    BY <2>1, Naming DEF Calls
  <2> QED
    BY <2>2 DEF NotItself
<1>4. ASSUME NEW s \in Screen, NEW o \in Participant \ {s} PROVE ~Met(s, o)
  BY <1>1 DEF Met
<1> QED
  BY <1>2, <1>3, <1>4 DEF LoneInv

(* A third is only let in by crowding the room.                            *)
LEMMA TwoStay ==
  ASSUME TypeOK, TwoAtMost, [Next]_vars PROVE TwoAtMost'
<1>1. ASSUME NEW o \in Participant, Accept(o) PROVE TwoAtMost'
  <2>1. /\ Members' \subseteq Members \cup {o}
        /\ ~crowded' => \A a, b \in Members : a = b
    BY <1>1 DEF Accept, Members, TypeOK
  <2> QED
    BY <2>1 DEF TwoAtMost
<1>2. ASSUME Members' \subseteq Members, crowded' = crowded PROVE TwoAtMost'
  BY <1>2 DEF TwoAtMost
<1>3. ASSUME NEW o \in Participant, Drop(o) PROVE TwoAtMost'
  BY <1>2, <1>3 DEF Drop, Members, TypeOK
<1>4. ASSUME NEW s \in Screen, Open(s) \/ Refuse(s)
      PROVE  TwoAtMost'
  BY <1>2, <1>4, Naming DEF Open, Refuse, Members, TypeOK
<1>5. ASSUME link' = link, crowded' = crowded PROVE TwoAtMost'
  BY <1>2, <1>5 DEF Members
<1>6. ASSUME NEW how \in {"killed", "trapped"}, ProcessEnds(how) PROVE TwoAtMost'
  BY <1>5, <1>6 DEF ProcessEnds, service
<1>7. ASSUME NEW s \in Screen, Delegates(s) PROVE link' = link /\ crowded' = crowded
  BY <1>7 DEF Delegates, DidConnect, ParticipantDidConnect, Subscribed, Unsubscribed,
              ParticipantDidDisconnect, DidDisconnect, DidFailToConnect, Cleanup,
              ProcessEnds, service
<1>8. ASSUME NEW s \in Screen, NEW o \in Participant, Back(s) \/ Dismiss(s) \/ HangUp(s) \/ Subscribe(s, o)
      PROVE  link' = link /\ crowded' = crowded
  BY <1>8 DEF Back, Dismiss, HangUp, Subscribe, ProcessEnds, service
<1>9. CASE UNCHANGED vars
  BY <1>5, <1>9 DEF vars, service
<1>10. CASE Kill
  BY <1>6, <1>10 DEF Kill
<1> QED
  BY <1>1, <1>3, <1>4, <1>5, <1>7, <1>8, <1>9, <1>10, Naming DEF Next

(* What a call in front does to who is shown.                              *)
LEMMA Shows ==
  ASSUME IInv, NEW s \in Screen, Delegates(s)
  PROVE  /\ Alive(s) /\ inbox[s] # << >> /\ Takes(s) /\ UNCHANGED <<place, link, crowded>>
         /\ \A t \in Screen \ {s} : shown'[t] = shown[t]
         /\ LET k == Head(inbox[s]).kind  w == Head(inbox[s]).who
            IN  shown'[s] = CASE k = "connected" /\ w # None          -> w
                              [] k = "joined" /\ shown[s] = None      -> w
                              [] k = "left" /\ shown[s] = w           -> None
                              [] k = "ended"                          -> None
                              [] OTHER                                -> shown[s]
<1>1. shown \in [Screen -> Participant \cup {None}]
  BY DEF IInv, TypeOK
<1>2. CASE DidConnect(s)
  BY <1>1, <1>2 DEF DidConnect, Delegate, Called, Who, device, service
<1>3. CASE ParticipantDidConnect(s)
  BY <1>1, <1>3 DEF ParticipantDidConnect, Delegate, Called, Who, device, service
<1>4. CASE Subscribed(s) \/ DidFailToConnect(s)
  BY <1>4 DEF Subscribed, DidFailToConnect, Delegate, Called, device, picture, service
<1>5. CASE Unsubscribed(s)
  BY <1>5, NoTrap DEF Unsubscribed, Called, device, service
<1>6. CASE ParticipantDidDisconnect(s)
  BY <1>1, <1>6, NoTrap DEF ParticipantDidDisconnect, Cleanup, Called, Who, device, service
<1>7. CASE DidDisconnect(s)
  BY <1>1, <1>7, NoTrap DEF DidDisconnect, Cleanup, Called, service
<1> QED
  BY <1>2, <1>3, <1>4, <1>5, <1>6, <1>7 DEF Delegates

(* Taking a call brings whoever is to come nearer, or onto the screen.     *)
LEMMA TakingKeepsSeen ==
  ASSUME IInv, NEW s \in Screen, Delegates(s), NEW o \in Participant \ {s},
         link[s] = "in", link[o] = "in", Seen(s, o)
  PROVE  Seen(s, o)'
<1> DEFINE n == Len(inbox'[s])
           k == inbox[s][1].kind
           w == inbox[s][1].who
<1>1. /\ Alive(s) /\ inbox[s] # << >> /\ Takes(s)
      /\ n \in Nat /\ Len(inbox[s]) = n + 1 /\ Head(inbox[s]) = inbox[s][1]
      /\ \A i \in 1 .. n : inbox'[s][i] = inbox[s][i + 1]
  BY Shows, Taken DEF IInv
<1>2. /\ k = "joined" => w # None
      /\ k = "left" => w # None /\ link[w] = "out"
      /\ k = "connected" => shown[s] = None
      /\ k # "ended" /\ k # "failed"
  BY <1>1, FirstCall DEF Who
<1>3. shown'[s] = CASE k = "connected" /\ w # None          -> w
                    [] k = "joined" /\ shown[s] = None      -> w
                    [] k = "left" /\ shown[s] = w           -> None
                    [] k = "ended"                          -> None
                    [] OTHER                                -> shown[s]
  BY <1>1, Shows
<1>4. o # None
  BY Naming
<1>5. Calls(s) = 1 .. (n + 1) /\ Calls(s)' = 1 .. n
  BY <1>1 DEF Calls
<1>6. \A i \in 1 .. n :
        Kind(s, i)' = Kind(s, i + 1) /\ Whom(s, i)' = Whom(s, i + 1)
  BY <1>1 DEF Kind, Whom
<1>7. Kind(s, 1) = k /\ Whom(s, 1) = w
  BY DEF Kind, Whom
<1> HIDE DEF n, k, w
<1>8. ASSUME NEW p, NEW i \in 1 .. (n + 1), NEW j \in Nat, LeavesBefore(s, p, j, i),
             j > 0 \/ ~(k = "left" /\ w = p)
      PROVE  i > 1 /\ (j > 0 => LeavesBefore(s, p, j - 1, i - 1)')
                   /\ LeavesBefore(s, p, 0, i - 1)'
  <2> PICK h \in 1 .. (n + 1) : j < h /\ h < i /\ Kind(s, h) = "left" /\ Whom(s, h) = p
    BY <1>5, <1>8 DEF LeavesBefore
  <2>1. h # 1
    BY <1>1, <1>7, <1>8
  <2>2. /\ h - 1 \in 1 .. n /\ j - 1 < h - 1 /\ 0 < h - 1 /\ h - 1 < i - 1
        /\ (h - 1) + 1 = h
    BY <1>1, <2>1
  <2>3. Kind(s, h - 1)' = "left" /\ Whom(s, h - 1)' = p
    BY <1>6, <2>2
  <2>4. ASSUME NEW l, NEW g, l < h - 1, h - 1 < g PROVE LeavesBefore(s, p, l, g)'
    BY <1>5, <2>2, <2>3, <2>4 DEF LeavesBefore
  <2>5. LeavesBefore(s, p, j - 1, i - 1)' /\ LeavesBefore(s, p, 0, i - 1)'
    BY <2>2, <2>4
  <2> QED
    BY <2>2, <2>5
<1>9. CASE shown[s] = o
  BY <1>2, <1>3, <1>4, <1>9 DEF Seen
<1>10. ASSUME NEW i \in 1 .. (n + 1), Comes(s, o, i) PROVE Seen(s, o)'
  <2>1. CASE i = 1
    <3>1. ~LeavesBefore(s, shown[s], 0, 1)
      BY <1>1, <1>5 DEF LeavesBefore
    <3>2. shown[s] = None /\ k \in {"connected", "joined"} /\ w = o
      BY <1>7, <1>10, <2>1, <3>1 DEF Comes, Comer
    <3> QED
      BY <1>3, <1>4, <3>2 DEF Seen
  <2>2. CASE i # 1
    <3>1. i - 1 \in 1 .. n /\ (i - 1) + 1 = i
      BY <1>1, <2>2
    <3>2. Comer(s, i - 1)' /\ Whom(s, i - 1)' = o
      BY <1>6, <1>10, <3>1 DEF Comes, Comer
    <3>3. shown'[s] # None => LeavesBefore(s, shown[s], 0, i - 1)'
      <4> SUFFICES ASSUME shown'[s] # None PROVE LeavesBefore(s, shown[s], 0, i - 1)'
        OBVIOUS
      <4>1. CASE shown'[s] = shown[s]
        <5>1. LeavesBefore(s, shown[s], 0, i) /\ ~(k = "left" /\ w = shown[s])
          BY <1>3, <1>10, <4>1 DEF Comes
        <5> QED
          BY <1>8, <4>1, <5>1
      <4>2. CASE shown'[s] = w /\ k \in {"connected", "joined"}
        <5>1. 1 \in Calls(s) /\ 1 < i /\ Comer(s, 1)
          BY <1>1, <1>5, <1>7, <2>2, <4>2 DEF Comer
        <5>2. LeavesBefore(s, w, 1, i)
          BY <1>7, <1>10, <5>1 DEF Comes
        <5> QED
          BY <1>8, <4>2, <5>2
      <4> QED
        BY <1>3, <4>1, <4>2
    <3>4. ASSUME NEW j \in 1 .. n, j < i - 1, Comer(s, j)'
          PROVE  LeavesBefore(s, Whom(s, j), j, i - 1)'
      <4>1. j + 1 \in 1 .. (n + 1) /\ j + 1 < i /\ j + 1 \in Nat /\ (j + 1) - 1 = j
        BY <1>1, <3>4
      <4>2. Comer(s, j + 1) /\ Whom(s, j)' = Whom(s, j + 1)
        BY <1>6, <3>4 DEF Comer
      <4>3. LeavesBefore(s, Whom(s, j + 1), j + 1, i)
        BY <1>5, <1>10, <4>1, <4>2 DEF Comes
      <4> QED
        BY <1>8, <4>1, <4>2, <4>3
    <3> QED
      BY <1>5, <3>1, <3>2, <3>3, <3>4 DEF Seen, Comes
  <2> QED
    BY <2>1, <2>2
<1> QED
  BY <1>5, <1>9, <1>10 DEF Seen

(* Calls that are added come behind.                                       *)
LEMMA AddingKeepsSeen ==
  ASSUME NEW s \in Screen, NEW o, Seen(s, o), shown'[s] = shown[s],
         Len(inbox[s]) \in Nat, Len(inbox'[s]) \in Nat, Len(inbox'[s]) >= Len(inbox[s]),
         \A i \in 1 .. Len(inbox[s]) : inbox'[s][i] = inbox[s][i]
  PROVE  Seen(s, o)'
<1>1. /\ \A i \in Calls(s) : i \in Calls(s)'
      /\ \A i \in Calls(s) : \A j \in Calls(s)' : j < i => j \in Calls(s)
  BY DEF Calls
<1>2. \A i \in Calls(s) : Kind(s, i)' = Kind(s, i) /\ Whom(s, i)' = Whom(s, i)
  BY DEF Calls, Kind, Whom
<1>3. ASSUME NEW p, NEW j, NEW i, LeavesBefore(s, p, j, i) PROVE LeavesBefore(s, p, j, i)'
  BY <1>1, <1>2, <1>3 DEF LeavesBefore
<1>4. ASSUME NEW i \in Calls(s), Comes(s, o, i) PROVE Comes(s, o, i)'
  <2>1. Comer(s, i)' /\ Whom(s, i)' = o
    BY <1>2, <1>4 DEF Comes, Comer
  <2>2. shown'[s] # None => LeavesBefore(s, shown[s], 0, i)'
    BY <1>3, <1>4 DEF Comes
  <2>3. ASSUME NEW j \in Calls(s)', j < i, Comer(s, j)'
        PROVE  LeavesBefore(s, Whom(s, j), j, i)'
    <3>1. j \in Calls(s) /\ Comer(s, j) /\ Whom(s, j)' = Whom(s, j)
      BY <1>1, <1>2, <2>3 DEF Comer
    <3> QED
      BY <1>3, <1>4, <2>3, <3>1 DEF Comes
  <2> QED
    BY <2>1, <2>2, <2>3 DEF Comes
<1> QED
  BY <1>1, <1>4 DEF Seen

(* Whoever comes second finds one there, and is told to him.               *)
LEMMA AcceptMakesSeen ==
  ASSUME IInv, LoneInv, NEW p \in Participant, Accept(p),
         NEW s \in Screen, NEW o \in Participant \ {s}, Met(s, o)'
  PROVE  Seen(s, o)'
<1> PICK first \in (IF Members = {} THEN {None} ELSE Members) :
      Tells([t \in Screen |-> IF t = p THEN <<Call("connected", first)>>
                              ELSE IF t \in Members THEN <<Call("joined", p)>>
                              ELSE << >>])
  BY DEF Accept
<1> DEFINE calls == [t \in Screen |-> IF t = p THEN <<Call("connected", first)>>
                                      ELSE IF t \in Members THEN <<Call("joined", p)>>
                                      ELSE << >>]
<1>1. /\ \A q \in Participant \ {p} : link'[q] = link[q]
      /\ link[p] \in {"none", "asked"} /\ (p \in Screen => link[p] = "asked")
      /\ UNCHANGED <<place, shown>> /\ ~crowded /\ \A a, b \in Members : a = b
      /\ s \in Participant /\ o # s /\ o # None /\ p # None
  BY Naming DEF Accept, Met, device, picture, IInv, TypeOK
<1>2. Alive(s) /\ link'[s] = "in" /\ link'[o] = "in"
  BY <1>1 DEF Met, Alive
<1>3. /\ Fine(s) /\ NotItself(s) /\ first \in Participant \cup {None}
      /\ p = s => calls[s] = <<Call("connected", first)>>
      /\ p # s /\ link[s] = "in" => calls[s] = <<Call("joined", p)>>
  BY <1>1 DEF Members, IInv, LoneInv
<1>4. calls \in [Screen -> Seq(Event)] /\ Tells(calls)
  BY <1>3, CallsAreEvents
<1> HIDE DEF calls
<1>5. CASE p = s
  <2>1. Members = {o} /\ first = o /\ inbox[s] = << >> /\ shown[s] = None
    BY <1>1, <1>2, <1>3, <1>5 DEF Members, Fine, Placed
  <2>2. Call("connected", o) \in Event
    BY DEF Call, Event
  <2>3. Len(inbox'[s]) = 1 /\ inbox'[s][1] = Call("connected", o)
    <3>1. calls[s] = <<Call("connected", o)>> /\ TypeOK
      BY <1>3, <1>5, <2>1 DEF IInv
    <3> PICK n \in Nat : n = Len(inbox[s])
      BY DEF IInv, TypeOK
    <3>2. /\ Len(inbox'[s]) = n + 1
          /\ \A i \in 1 .. n : inbox'[s][i] = inbox[s][i]
          /\ inbox'[s][n + 1] = Call("connected", o)
      BY <1>2, <1>4, <2>2, <3>1, OneMore
    <3>3. n = 0
      BY <2>1
    <3> QED
      BY <3>2, <3>3
  <2>4. Calls(s)' = {1} /\ Kind(s, 1)' = "connected" /\ Whom(s, 1)' = o /\ shown'[s] = None
    BY <1>1, <2>1, <2>3 DEF Calls, Kind, Whom, Call
  <2>5. Comes(s, o, 1)'
    BY <1>1, <2>4 DEF Comes, Comer
  <2> QED
    BY <2>4, <2>5 DEF Seen
<1>6. CASE p = o
  <2>1. link[s] = "in" /\ Members = {s}
    BY <1>1, <1>2, <1>6 DEF Members
  <2>2. Call("joined", o) \in Event
    BY <1>6 DEF Call, Event
  <2> PICK n \in Nat : n = Len(inbox[s])
    BY DEF IInv, TypeOK
  <2>3. /\ Len(inbox'[s]) = n + 1
        /\ \A i \in 1 .. n : inbox'[s][i] = inbox[s][i]
        /\ inbox'[s][n + 1] = Call("joined", o)
    <3>1. calls[s] = <<Call("joined", o)>> /\ TypeOK
      BY <1>1, <1>3, <1>6, <2>1 DEF IInv
    <3> QED
      BY <1>2, <1>4, <2>2, <3>1, OneMore
  <2>4. /\ Calls(s)' = 1 .. (n + 1) /\ Calls(s) = 1 .. n /\ n + 1 \in 1 .. (n + 1)
        /\ Kind(s, n + 1)' = "joined" /\ Whom(s, n + 1)' = o /\ shown'[s] = shown[s]
        /\ \A i \in 1 .. n : Kind(s, i)' = Kind(s, i) /\ Whom(s, i)' = Whom(s, i)
    <3>1. Call("joined", o).kind = "joined" /\ Call("joined", o).who = o
      BY DEF Call
    <3> QED
      BY <1>1, <2>3, <3>1 DEF Calls, Kind, Whom
  <2>5. ASSUME NEW q, NEW i \in Nat, Goes(s, q, i) PROVE LeavesBefore(s, q, i, n + 1)'
    <3> PICK j \in Calls(s) : i < j /\ (Kind(s, j) = "ended"
                                        \/ (Kind(s, j) = "left" /\ Whom(s, j) = q))
      BY <2>5 DEF Goes
    <3>1. Kind(s, j) # "ended"
      BY <1>3, <2>1 DEF Fine, Ends
    <3>2. j \in 1 .. (n + 1) /\ j < n + 1 /\ Kind(s, j)' = "left" /\ Whom(s, j)' = q
      BY <2>3, <2>4, <3>1
    <3> QED
      BY <2>4, <3>2 DEF LeavesBefore
  <2>6. shown[s] # None => LeavesBefore(s, shown[s], 0, n + 1)'
    <3>1. shown[s] # None => shown[s] \in Participant /\ shown[s] # s
      BY <1>3 DEF IInv, TypeOK, NotItself
    <3>2. shown[s] # None => Goes(s, shown[s], 0)
      BY <1>3, <2>1, <3>1 DEF Members, Fine, Announced
    <3> QED
      BY <2>4, <2>5, <3>2
  <2>7. ASSUME NEW j \in 1 .. n, Comer(s, j) PROVE LeavesBefore(s, Whom(s, j), j, n + 1)'
    <3>1. Whom(s, j) \in Participant /\ Whom(s, j) # s
      BY <1>3, <2>4, <2>7, WhomTyped DEF IInv, NotItself, Comer
    <3>2. Goes(s, Whom(s, j), j)
      BY <1>3, <2>1, <2>4, <2>7, <3>1 DEF Members, Fine, Announced, Comer
    <3> QED
      BY <2>3, <2>4, <2>5, <3>2
  <2>8. ASSUME NEW j \in 1 .. (n + 1), j < n + 1, Comer(s, j)'
        PROVE  LeavesBefore(s, Whom(s, j), j, n + 1)'
    BY <2>3, <2>4, <2>7, <2>8 DEF Comer
  <2>9. Comer(s, n + 1)'
    BY <1>1, <2>4 DEF Comer
  <2>10. Comes(s, o, n + 1)'
    BY <2>4, <2>6, <2>8, <2>9 DEF Comes
  <2> QED
    BY <2>4, <2>10 DEF Seen
<1>7. CASE p # s /\ p # o
  BY <1>1, <1>2, <1>7 DEF Members
<1> QED
  BY <1>5, <1>6, <1>7

(* No screen is ever told of itself.                                       *)
LEMMA NotItselfStays ==
  ASSUME IInv, LoneInv, [Next]_vars, NEW s \in Screen PROVE NotItself(s)'
<1>0. /\ NotItself(s) /\ inbox[s] \in Seq(Event) /\ s # None
      /\ Len(inbox[s]) \in Nat
  BY Naming DEF LoneInv, IInv, TypeOK
<1>1. ASSUME NEW how \in {"killed", "trapped"}, ProcessEnds(how) PROVE NotItself(s)'
  <2>1. inbox'[s] = << >> /\ shown'[s] = None
    BY <1>1 DEF ProcessEnds
  <2>2. Calls(s)' = {}
    BY <2>1 DEF Calls
  <2> QED
    BY <1>0, <2>1, <2>2 DEF NotItself
<1>2. ASSUME shown'[s] = shown[s], inbox'[s] = inbox[s] PROVE NotItself(s)'
  BY <1>0, <1>2 DEF NotItself, Comer, Calls, Kind, Whom
<1>3. ASSUME shown'[s] = shown[s], Alive(s), NEW calls \in [Screen -> Seq(Event)], Tells(calls),
             \A i \in 1 .. Len(calls[s]) :
               calls[s][i].kind \in {"connected", "joined"} => calls[s][i].who # s
      PROVE  NotItself(s)'
  <2>1. /\ Len(calls[s]) \in Nat
        /\ Len(inbox'[s]) = Len(inbox[s]) + Len(calls[s])
        /\ \A i \in 1 .. Len(inbox[s]) : inbox'[s][i] = inbox[s][i]
        /\ \A i \in 1 .. Len(calls[s]) : inbox'[s][Len(inbox[s]) + i] = calls[s][i]
    BY <1>3, Added DEF IInv
  <2>2. ASSUME NEW i \in 1 .. Len(inbox'[s]),
               inbox'[s][i].kind \in {"connected", "joined"}, inbox'[s][i].who # None
        PROVE  inbox'[s][i].who # s
    <3>1. CASE i \in 1 .. Len(inbox[s])
      BY <1>0, <2>1, <2>2, <3>1 DEF NotItself, Comer, Calls, Kind, Whom
    <3>2. CASE i \notin 1 .. Len(inbox[s])
      <4>1. /\ i - Len(inbox[s]) \in 1 .. Len(calls[s])
            /\ Len(inbox[s]) + (i - Len(inbox[s])) = i
        BY <1>0, <2>1, <3>2
      <4>2. inbox'[s][i] = calls[s][i - Len(inbox[s])]
        BY <2>1, <4>1
      <4> QED
        BY <1>3, <2>2, <4>1, <4>2
    <3> QED
      BY <3>1, <3>2
  <2> QED
    BY <1>0, <1>3, <2>2 DEF NotItself, Comer, Calls, Kind, Whom
<1>4. ASSUME NEW t \in Screen, Open(t) \/ Back(t) \/ Dismiss(t) \/ HangUp(t) PROVE NotItself(s)'
  BY <1>1, <1>2, <1>4 DEF Open, Back, Dismiss, HangUp, picture
<1>5. CASE UNCHANGED vars
  BY <1>2, <1>5 DEF vars, picture
<1>6. ASSUME NEW t \in Screen, Delegates(t) PROVE NotItself(s)'
  <2>1. /\ inbox[t] # << >> /\ Takes(t)
        /\ s # t => shown'[s] = shown[s] /\ inbox'[s] = inbox[s]
    BY <1>6, Shows, Taken DEF IInv
  <2>2. CASE s = t
    <3>1. /\ Len(inbox'[s]) \in Nat /\ Len(inbox[s]) = Len(inbox'[s]) + 1
          /\ Head(inbox[s]) = inbox[s][1]
          /\ \A i \in 1 .. Len(inbox'[s]) : inbox'[s][i] = inbox[s][i + 1]
      BY <2>1, <2>2, Taken DEF IInv
    <3>2. ASSUME NEW i \in 1 .. Len(inbox'[s]),
                 inbox'[s][i].kind \in {"connected", "joined"}, inbox'[s][i].who # None
          PROVE  inbox'[s][i].who # s
      <4>1. i + 1 \in 1 .. Len(inbox[s]) /\ inbox'[s][i] = inbox[s][i + 1]
        BY <3>1
      <4> QED
        BY <1>0, <3>2, <4>1 DEF NotItself, Comer, Calls, Kind, Whom
    <3>3. shown'[s] # s
      <4>1. 1 \in 1 .. Len(inbox[s])
        BY <3>1
      <4> QED
        BY <1>0, <1>6, <2>2, <3>1, <4>1, Shows DEF NotItself, Comer, Calls, Kind, Whom
    <3> QED
      BY <3>2, <3>3 DEF NotItself, Comer, Calls, Kind, Whom
  <2> QED
    BY <1>2, <2>1, <2>2
<1>7. ASSUME NEW o \in Participant, Accept(o) PROVE NotItself(s)'
  <2> PICK first \in (IF Members = {} THEN {None} ELSE Members) :
        Tells([t \in Screen |-> IF t = o THEN <<Call("connected", first)>>
                                ELSE IF t \in Members THEN <<Call("joined", o)>>
                                ELSE << >>])
    BY <1>7 DEF Accept
  <2> DEFINE calls == [t \in Screen |-> IF t = o THEN <<Call("connected", first)>>
                                        ELSE IF t \in Members THEN <<Call("joined", o)>>
                                        ELSE << >>]
  <2>1. first \in Participant \cup {None} /\ first # o
    BY <1>7, Naming DEF Members, Accept
  <2>2. calls \in [Screen -> Seq(Event)] /\ Tells(calls) /\ shown' = shown
    BY <1>7, <2>1, CallsAreEvents DEF Accept, picture
  <2>3. calls[s] \in {<<Call("connected", first)>>, <<Call("joined", o)>>, << >>}
        /\ (calls[s] = <<Call("joined", o)>> => s # o)
        /\ (calls[s] = <<Call("connected", first)>> => first # s)
    <3>1. <<Call("joined", o)>> # <<Call("connected", first)>>
      <4>1. Call("joined", o) # Call("connected", first)
        BY DEF Call
      <4> QED
        BY <4>1
    <3>2. << >> # <<Call("connected", first)>> /\ << >> # <<Call("joined", o)>>
      OBVIOUS
    <3> QED
      BY <2>1, <3>1, <3>2
  <2> HIDE DEF calls
  <2>4. \A i \in 1 .. Len(calls[s]) :
          calls[s][i].kind \in {"connected", "joined"} => calls[s][i].who # s
    <3>1. CASE calls[s] = << >>
      <4>1. 1 .. Len(calls[s]) = {}
        BY <3>1
      <4> QED
        BY <4>1
    <3>2. ASSUME NEW e, calls[s] = <<e>>, e.who # s
          PROVE  \A i \in 1 .. Len(calls[s]) : calls[s][i].who # s
      <4>1. \A i \in 1 .. Len(calls[s]) : i = 1
        BY <3>2
      <4> QED
        BY <3>2, <4>1
    <3> QED
      BY <2>3, <3>1, <3>2 DEF Call
  <2> QED
    BY <1>2, <1>3, <2>2, <2>4, Untold DEF IInv
<1>8. ASSUME NEW calls \in [Screen -> Seq(Event)], Tells(calls), shown' = shown,
             \A i \in 1 .. Len(calls[s]) : calls[s][i].kind \notin {"connected", "joined"}
      PROVE  NotItself(s)'
  BY <1>2, <1>3, <1>8, Untold DEF IInv
<1>9. ASSUME NEW t \in Screen, NEW o \in Participant, Refuse(t) \/ Subscribe(t, o)
      PROVE  NotItself(s)'
  <2>1. PICK e \in {Call("failed", None), Call("subscribed", o)} :
          Tells([u \in Screen |-> IF u = t THEN <<e>> ELSE << >>])
    BY <1>9 DEF Refuse, Subscribe
  <2> DEFINE calls == [u \in Screen |-> IF u = t THEN <<e>> ELSE << >>]
  <2>2. calls \in [Screen -> Seq(Event)] /\ Tells(calls) /\ shown' = shown
    BY <1>9, <2>1, CallsAreEvents DEF Refuse, Subscribe, picture
  <2>3. calls[s] \in {<<e>>, << >>} /\ e.kind \notin {"connected", "joined"}
    BY <2>1 DEF Call
  <2> HIDE DEF calls
  <2>4. \A i \in 1 .. Len(calls[s]) : calls[s][i].kind \notin {"connected", "joined"}
    <3>1. \A q \in {<<e>>, << >>} : \A i \in 1 .. Len(q) : q[i] = e
      OBVIOUS
    <3> QED
      BY <2>3, <3>1
  <2> QED
    BY <1>8, <2>2, <2>4
<1>10. ASSUME NEW o \in Participant, Drop(o) PROVE NotItself(s)'
  <2> PICK apart \in BOOLEAN :
        Tells([t \in Screen |->
          IF t = o THEN <<Call("ended", None)>>
          ELSE IF t \notin Members THEN << >>
          ELSE (IF apart /\ Sent(t, o) THEN <<Call("unsubscribed", o)>> ELSE << >>)
               \o <<Call("left", o)>>])
    BY <1>10 DEF Drop
  <2> DEFINE news(t) == (IF apart /\ Sent(t, o) THEN <<Call("unsubscribed", o)>> ELSE << >>)
                        \o <<Call("left", o)>>
             calls == [t \in Screen |-> IF t = o THEN <<Call("ended", None)>>
                                        ELSE IF t \notin Members THEN << >> ELSE news(t)]
  <2>1. calls \in [Screen -> Seq(Event)] /\ Tells(calls) /\ shown' = shown
    <3>1. ASSUME NEW t \in Screen PROVE news(t) \in Seq(Event)
      <4>1. (apart /\ Sent(t, o)) \in BOOLEAN
        BY DEF Sent
      <4> QED
        BY <4>1, CallsAreEvents
    <3>2. Tells(calls)
      OBVIOUS
    <3>3. shown' = shown
      BY <1>10 DEF Drop, picture
    <3> HIDE DEF news
    <3> QED
      BY <3>1, <3>2, <3>3, CallsAreEvents
  <2>2. \A i \in 1 .. Len(calls[s]) : calls[s][i].kind \notin {"connected", "joined"}
    <3>1. calls[s] \in {<<Call("ended", None)>>, << >>, << >> \o <<Call("left", o)>>,
                        <<Call("unsubscribed", o)>> \o <<Call("left", o)>>}
      OBVIOUS
    <3> HIDE DEF calls
    <3>2. /\ Call("ended", None).kind = "ended" /\ Call("left", o).kind = "left"
          /\ Call("unsubscribed", o).kind = "unsubscribed"
      BY DEF Call
    <3>3. \A d, e : \A q \in {<<e>>, << >>, << >> \o <<e>>, <<d>> \o <<e>>} :
            \A i \in 1 .. Len(q) : q[i] = d \/ q[i] = e
      OBVIOUS
    <3>4. \A i \in 1 .. Len(calls[s]) :
            calls[s][i] \in {Call("ended", None), Call("left", o), Call("unsubscribed", o)}
      BY <3>1, <3>3
    <3> QED
      BY <3>2, <3>4
  <2> QED
    BY <1>8, <2>1, <2>2
<1>11. CASE Kill
  BY <1>1, <1>11 DEF Kill
<1> QED
  BY <1>4, <1>5, <1>6, <1>7, <1>9, <1>10, <1>11, Naming DEF Next

LEMMA LoneNext == IInv /\ LoneInv /\ [Next]_vars => LoneInv'
<1> SUFFICES ASSUME IInv, LoneInv, [Next]_vars PROVE LoneInv'
  OBVIOUS
<1>1. TwoAtMost' /\ \A s \in Screen : NotItself(s)'
  BY TwoStay, NotItselfStays DEF IInv, LoneInv
<1>2. ASSUME NEW s \in Screen, NEW o \in Participant \ {s}, Met(s, o)' PROVE Seen(s, o)'
  <2>0. s \in Participant /\ o # s /\ Len(inbox[s]) \in Nat
    BY Naming DEF IInv, TypeOK
  <2>1. ASSUME Met(s, o), shown'[s] = shown[s], NEW calls \in [Screen -> Seq(Event)],
               Tells(calls), Alive(s)
        PROVE  Seen(s, o)'
    <3>1. Seen(s, o)
      BY <2>1 DEF LoneInv
    <3>2. /\ Len(calls[s]) \in Nat /\ Len(inbox'[s]) = Len(inbox[s]) + Len(calls[s])
          /\ \A i \in 1 .. Len(inbox[s]) : inbox'[s][i] = inbox[s][i]
      BY <2>1, Added DEF IInv
    <3>3. Len(inbox'[s]) \in Nat /\ Len(inbox'[s]) >= Len(inbox[s])
      BY <2>0, <3>2
    <3> QED
      BY <2>0, <2>1, <3>1, <3>2, <3>3, AddingKeepsSeen
  <2>2. ASSUME Met(s, o), shown'[s] = shown[s], inbox'[s] = inbox[s] PROVE Seen(s, o)'
    BY <2>0, <2>2, AddingKeepsSeen DEF LoneInv
  <2>3. ASSUME NEW how \in {"killed", "trapped"}, ProcessEnds(how) PROVE FALSE
    BY <1>2, <2>3 DEF Met, ProcessEnds, Alive
  <2>4. CASE Kill
    BY <2>3, <2>4 DEF Kill
  <2>5. ASSUME NEW t \in Screen, Open(t) \/ Back(t) \/ Dismiss(t) \/ HangUp(t) PROVE Seen(s, o)'
    <3>1. CASE Open(t)
      BY <1>2, <2>0, <2>2, <2>5, <3>1 DEF Open, Met, Alive, picture, IInv, TypeOK
    <3>2. CASE Back(t) \/ Dismiss(t) \/ HangUp(t)
      <4>1. UNCHANGED <<link, crowded, shown, inbox>> /\ place[t] = "front"
        BY <2>3, <3>2 DEF Back, Dismiss, HangUp, picture, service
      <4>2. \A u \in Screen \ {t} : Alive(u)' <=> Alive(u)
        BY <2>3, <3>2, OthersLive DEF IInv
      <4> QED
        BY <1>2, <2>2, <4>1, <4>2 DEF Met, Alive
    <3> QED
      BY <2>5, <3>1, <3>2
  <2>6. ASSUME NEW p \in Participant, Accept(p) PROVE Seen(s, o)'
    BY <1>2, <2>6, AcceptMakesSeen
  <2>7. ASSUME NEW t \in Screen, NEW p \in Participant, Refuse(t) \/ Drop(p) \/ Subscribe(t, p)
        PROVE  Seen(s, o)'
    <3>1. PICK calls \in [Screen -> Seq(Event)] : Tells(calls)
      BY <2>7, Told DEF IInv
    <3>2. UNCHANGED <<place, shown, crowded>> /\ \A q \in Participant : link'[q] = "in" => link[q] = "in"
      BY <2>7, Naming DEF Refuse, Drop, Subscribe, device, picture, service, IInv, TypeOK
    <3> QED
      BY <1>2, <2>0, <2>1, <3>1, <3>2 DEF Met, Alive
  <2>8. ASSUME NEW t \in Screen, Delegates(t) PROVE Seen(s, o)'
    <3>1. UNCHANGED <<place, link, crowded>> /\ Met(s, o)
      BY <1>2, <2>8, Shows DEF Met, Alive
    <3>2. CASE t = s
      BY <2>8, <3>1, <3>2, TakingKeepsSeen DEF LoneInv, Met
    <3>3. CASE t # s
      <4>1. shown'[s] = shown[s] /\ inbox'[s] = inbox[s]
        BY <2>8, <3>3, Shows, Taken DEF IInv
      <4> QED
        BY <2>2, <3>1, <4>1
    <3> QED
      BY <3>2, <3>3
  <2>9. CASE UNCHANGED vars
    BY <1>2, <2>2, <2>9 DEF vars, device, picture, service, Met, Alive
  <2> QED
    BY <2>4, <2>5, <2>6, <2>7, <2>8, <2>9, Naming DEF Next
<1> QED
  BY <1>1, <1>2 DEF LoneInv

(* Two who have never met a third see each other as soon as nothing is on  *)
(* its way, for any number of screens and of former partners.              *)
THEOREM QuietPartnersAreShown == Spec => []QuietPartnerIsShown
<1>1. LoneInv => QuietPartnerIsShown
  <2> SUFFICES ASSUME LoneInv, NEW s \in Screen, NEW o \in Participant \ {s}, ~crowded,
                      Alive(s), {s, o} \subseteq Members, inbox[s] = << >>
               PROVE  shown[s] = o
    BY DEF QuietPartnerIsShown
  <2>1. Calls(s) = {}
    BY DEF Calls
  <2> QED
    BY <2>1 DEF LoneInv, Met, Seen, Members
<1> QED
  BY Inductive, LoneInit, LoneNext, <1>1, PTL DEF Spec

(* Nobody who is in the room is taken off a connected screen by others.    *)
THEOREM NobodyDisplaced == Spec => NobodyIsDisplaced
<1> DEFINE Safe == \A s \in Screen : shown[s] # None /\ shown'[s] # shown[s] =>
                     /\ shown'[s] = None
                     /\ link[s] # "in" \/ link[shown[s]] # "in" \/ ~Alive(s)'
<1>1. IInv /\ [Next]_vars => Safe
  <2> SUFFICES ASSUME IInv, [Next]_vars, NEW s \in Screen, shown[s] # None,
                      shown'[s] # shown[s]
               PROVE  /\ shown'[s] = None
                      /\ link[s] # "in" \/ link[shown[s]] # "in" \/ ~Alive(s)'
    OBVIOUS
  <2>1. ASSUME NEW how \in {"killed", "trapped"}, ProcessEnds(how)
        PROVE  shown'[s] = None /\ ~Alive(s)'
    BY <2>1 DEF ProcessEnds, Alive
  <2>2. CASE Kill
    BY <2>1, <2>2 DEF Kill
  <2>3. ASSUME NEW t \in Screen, Open(t) \/ Back(t) \/ Dismiss(t) \/ HangUp(t)
        PROVE  shown'[s] = None /\ ~Alive(s)'
    BY <2>1, <2>3 DEF Open, Back, Dismiss, HangUp, picture
  <2>4. ASSUME NEW o \in Participant, NEW t \in Screen,
               Accept(o) \/ Drop(o) \/ Subscribe(t, o) \/ Refuse(t) PROVE FALSE
    BY <2>4 DEF Accept, Drop, Subscribe, Refuse, picture
  <2>5. ASSUME NEW t \in Screen, Delegates(t)
        PROVE  /\ shown'[s] = None
               /\ link[s] # "in" \/ link[shown[s]] # "in" \/ ~Alive(s)'
    <3>1. CASE DidConnect(t)
      BY <3>1, FirstCall DEF DidConnect, Delegate, Called, IInv, TypeOK
    <3>2. CASE ParticipantDidConnect(t)
      BY <3>2 DEF ParticipantDidConnect, IInv, TypeOK
    <3>3. CASE Subscribed(t) \/ DidFailToConnect(t)
      BY <3>3 DEF Subscribed, DidFailToConnect, picture
    <3>4. CASE Unsubscribed(t)
      BY <3>4, NoTrap DEF Unsubscribed
    <3>5. CASE ParticipantDidDisconnect(t)
      <4>1. Alive(t) /\ inbox[t] # << >> /\ Head(inbox[t]).kind = "left" /\ link[Who(t)] = "out"
        BY <3>5, FirstCall DEF ParticipantDidDisconnect, Called
      <4>2. t = s /\ shown[s] = Who(s) /\ shown'[s] = None
        BY <3>5, NoTrap DEF ParticipantDidDisconnect, Cleanup, IInv, TypeOK
      <4> QED
        BY <4>1, <4>2
    <3>6. CASE DidDisconnect(t)
      <4>1. Alive(t) /\ inbox[t] # << >> /\ Head(inbox[t]).kind = "ended" /\ link[t] = "out"
        BY <3>6, FirstCall DEF DidDisconnect, Called
      <4>2. t = s /\ shown'[s] = None
        BY <3>6, NoTrap DEF DidDisconnect, Cleanup, IInv, TypeOK
      <4> QED
        BY <4>1, <4>2
    <3> QED
      BY <2>5, <3>1, <3>2, <3>3, <3>4, <3>5, <3>6 DEF Delegates
  <2>6. CASE UNCHANGED vars
    BY <2>6 DEF vars, picture
  <2> QED
    BY <2>2, <2>3, <2>4, <2>5, <2>6, Naming DEF Next
<1>2. IInv /\ [Next]_vars => [Safe]_vars
  BY <1>1
<1> QED
  BY Inductive, <1>2, PTL DEF Spec, NobodyIsDisplaced
=============================================================================
