-------------------------- MODULE FriendDirectory --------------------------
(***************************************************************************)
(* What contact synchronisation promises, without requests, replies, rows  *)
(* or crashes: the server knows a growing set of friends of this account,  *)
(* and the device learns some of them, never forgets one, and never        *)
(* invents one.                                                            *)
(***************************************************************************)
CONSTANT Friend

VARIABLES known,   \* the friends the server has recorded for this account
          learnt   \* the friends stored on the device

vars == <<known, learnt>>

Init == known = {} /\ learnt = {}

\* The server records a contact as a friend.
Record(f) == known' = known \cup {f} /\ UNCHANGED learnt

\* The device stores a friend the server has recorded.
Learn(f) == f \in known /\ learnt' = learnt \cup {f} /\ UNCHANGED known

Next == \E f \in Friend : Record(f) \/ Learn(f)

Spec == Init /\ [][Next]_vars
=============================================================================
