------------------------------ MODULE MCCalls ------------------------------
(* Accounts 2 and 3 are friends of each other and have a friend each (6, 4) *)
(* whose conversation with them has one name: 2 * 6 = 3 * 4.  The name of   *)
(* 2's conversation with 1073741824 does not fit into Int32.                *)
EXTENDS Calls, TLC

TwoPhones == {2, 3}
TheirFriends == 2 :> {3, 6} @@ 3 :> {2, 4}
LargeFriends == 2 :> {3, 1073741824} @@ 3 :> {2}
=============================================================================
