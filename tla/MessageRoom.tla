---------------------------- MODULE MessageRoom ----------------------------
(***************************************************************************)
(* What a conversation promises, without lookups, translations, requests   *)
(* that fail, microphones or crashes: whatever is submitted appears in the *)
(* room at most once, at a place nobody else has used, under the name of   *)
(* whoever submitted it, and stays.  A typed text appears as it was when   *)
(* it was submitted.  Those who look at the room are told of what is in    *)
(* it, of each message once while they stay.                               *)
(***************************************************************************)
CONSTANTS Person,      \* who writes and reads
          Submission,  \* a press of the button, or a dictation
          Place,       \* the places of the room
          Text,        \* what can be submitted or appear
          Nothing      \* no submission, no message

VARIABLES submitted,  \* what has been submitted
          posted,     \* the message at each place
          told        \* the places each person has been told of since arriving

vars == <<submitted, posted, told>>

Init ==
  /\ submitted = [s \in Submission |-> Nothing]
  /\ posted = [k \in Place |-> Nothing]
  /\ told = [p \in Person |-> {}]

Submit(s, p, voice, text) ==
  /\ submitted[s] = Nothing
  /\ submitted' = [submitted EXCEPT ![s] = [by |-> p, voice |-> voice, text |-> text]]
  /\ UNCHANGED <<posted, told>>

\* The message of s appears; what was said need not be what arrives.
Post(s, k, text) ==
  /\ submitted[s] # Nothing /\ posted[k] = Nothing
  /\ \A j \in Place : posted[j] # Nothing => posted[j].from # s
  /\ ~submitted[s].voice => text = submitted[s].text
  /\ posted' = [posted EXCEPT ![k] = [from |-> s, by |-> submitted[s].by,
                                      voice |-> submitted[s].voice, text |-> text]]
  /\ UNCHANGED <<submitted, told>>

Tell(p, k) ==
  /\ posted[k] # Nothing /\ k \notin told[p]
  /\ told' = [told EXCEPT ![p] = @ \cup {k}]
  /\ UNCHANGED <<submitted, posted>>

Leave(p) == told' = [told EXCEPT ![p] = {}] /\ UNCHANGED <<submitted, posted>>

Next ==
  \/ \E s \in Submission, p \in Person, voice \in BOOLEAN, text \in Text :
       Submit(s, p, voice, text)
  \/ \E s \in Submission, k \in Place, text \in Text : Post(s, k, text)
  \/ \E p \in Person : Leave(p) \/ \E k \in Place : Tell(p, k)

Spec == Init /\ [][Next]_vars
=============================================================================
