------------------------------- MODULE Rooms -------------------------------
(***************************************************************************)
(* How a conversation is named.  Both ends multiply the two account ids,   *)
(* as Int32; whoever needs the other account's id back divides the name by *)
(* his own id.  Multiplying past Int32 ends the process.                   *)
(***************************************************************************)
EXTENDS Naturals

Int32Max == 2147483647

\* An account that the server created; 0 is getUserId() without a User row.
Account == 1..Int32Max

\* user * friend does not overflow.
Fits(user, friend) == friend <= Int32Max \div user

RoomName(user, friend) == user * friend

\* The id that is asked for the friend's language.
FriendOf(room, user) == room \div user
=============================================================================
