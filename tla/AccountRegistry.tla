-------------------------- MODULE AccountRegistry --------------------------
(***************************************************************************)
(* What registration promises, without screens, uploads, indicators or the *)
(* order of answers: an application is posted once and makes one account   *)
(* at most, whoever still waits for it; the device comes to know accounts  *)
(* that were made, one at a time, and only as long as the process lives    *)
(* that posted their application.  Nothing made or known is ever forgotten.*)
(***************************************************************************)
CONSTANT Application

VARIABLES posted,   \* the applications that were sent
          accounts, \* those that the server made an account of
          known,    \* those whose account the device knows
          awaited   \* those whose sender still waits for the answer

vars == <<posted, accounts, known, awaited>>

Init == posted = {} /\ accounts = {} /\ known = {} /\ awaited = {}

Post(a) ==
  /\ a \notin posted
  /\ posted' = posted \cup {a} /\ awaited' = awaited \cup {a}
  /\ UNCHANGED <<accounts, known>>

Make(a) ==
  /\ a \in posted \ accounts /\ accounts' = accounts \cup {a}
  /\ UNCHANGED <<posted, known, awaited>>

Learn(a) ==
  /\ a \in accounts \cap awaited
  /\ known' = known \cup {a} /\ awaited' = awaited \ {a}
  /\ UNCHANGED <<posted, accounts>>

Abandon == awaited' = {} /\ UNCHANGED <<posted, accounts, known>>

Next == Abandon \/ \E a \in Application : Post(a) \/ Make(a) \/ Learn(a)

Spec == Init /\ [][Next]_vars
=============================================================================
