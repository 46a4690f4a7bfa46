----------------------------- MODULE CallBoard -----------------------------
(***************************************************************************)
(* What calling promises, without observers, CallKit, Menus or restarts: a *)
(* call is placed once, by somebody who is in no call, and stays on the    *)
(* board until somebody answers a call of somebody else in its room.  An   *)
(* answer takes all calls of that one room, and only an answer brings a    *)
(* person who did not place a call into a room.                            *)
(***************************************************************************)
CONSTANTS Person,   \* who places and answers calls
          Nowhere   \* no room

VARIABLES placed,   \* the calls there ever were, with their room and sender
          open,     \* the calls nobody has answered
          calling,  \* the room each person called into and waits in
          at        \* the room each person has answered into

vars == <<placed, open, calling, at>>

Init ==
  /\ placed = {} /\ open = {}
  /\ calling = [p \in Person |-> Nowhere] /\ at = [p \in Person |-> Nowhere]

\* The call is any one that was not placed before.
Place(p) ==
  /\ calling[p] = Nowhere /\ at[p] = Nowhere
  /\ \E call \in placed' \ placed :
       /\ call.sender = p
       /\ placed' = placed \cup {call} /\ open' = open \cup {call}
       /\ calling' = [calling EXCEPT ![p] = call.room]
  /\ UNCHANGED at

Answer(p) ==
  \E call \in placed :
    /\ call.sender # p
    /\ open' = {c \in open : c.room # call.room}
    /\ \/ at[p] = Nowhere /\ at' = [at EXCEPT ![p] = call.room]
       \/ UNCHANGED at
    /\ UNCHANGED <<placed, calling>>

\* Out of the room that was answered into, and possibly out of the other one.
Leave(p) ==
  /\ at' = [at EXCEPT ![p] = Nowhere]
  /\ calling' = [calling EXCEPT ![p] = Nowhere] \/ UNCHANGED calling
  /\ UNCHANGED <<placed, open>>

Next == \E p \in Person : Place(p) \/ Answer(p) \/ Leave(p)

Spec == Init /\ [][Next]_vars
=============================================================================
